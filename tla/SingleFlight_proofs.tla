------------------------ MODULE SingleFlight_proofs ------------------------
(***************************************************************************)
(* That the single flight leaves nothing behind and serves what is right:  *)
(* one owner per lock, no lock without an owner and no entry without a     *)
(* lifetime; and an answer from the cache is one its author's request      *)
(* allowed, for the same thing and not too old; and that the statistics    *)
(* of a run count what happened.  For any number of requests and threads,  *)
(* whatever they ask for, and any limits, faults, lifetimes and time.      *)
(***************************************************************************)
EXTENDS SingleFlight, RedisStats, FiniteSetTheorems, TLAPS

USE CacheAssumption

\* An entry that is there.
Kept == [key : Keys, identity : {a.identity : a \in {asks[r] : r \in Requests}},
         version : {asks[r].version : r \in Requests}, model : {asks[r].model : r \in Requests},
         signature : {asks[r].signature : r \in Requests}, by : Requests,
         sound : BOOLEAN, left : Nat]

-----------------------------------------------------------------------------
(* The inductive invariant.                                                *)

\* Where everything is kept; what is promoted was found.
Shape == TypeOK /\ \A r \in Requests : pc[r] = "touchdoc" => held[r] \in Kept

\* A lock is held under the key of its holder, and whoever owns one holds it, unless its time
\* ran out.
Holding == /\ \A k \in Keys, r \in Requests : lock[k] = r => KeyOf(r) = k
           /\ \A r \in Requests : owned[r] /\ r \notin lapsed => lock[KeyOf(r)] = r

IInv == Shape /\ Holding /\ NoOrphanLock /\ NoImmortalEntry

-----------------------------------------------------------------------------
(* Facts.                                                                  *)

LEMMA KeyFacts ==
  ASSUME NEW r \in Requests
  PROVE  /\ KeyOf(r) \in Keys /\ DocKey(asks[r]) \in Keys
         /\ \A q \in Requests : KeyOf(r) # DocKey(asks[q])
BY DEF KeyOf, Keys, ExactKey, DocKey

LEMMA EntryFacts ==
  /\ Entries = {NoEntry} \cup Kept /\ NoEntry \notin Kept
  /\ \A e \in Kept : e.left \in Nat /\ e.by \in Requests
<1>1. Entries = {NoEntry} \cup Kept
  BY DEF Entries, Kept
<1>2. \A e \in Kept : e.left \in Nat /\ e.by \in Requests
  BY DEF Kept
<1>3. NoEntry.by = Nobody
  BY DEF NoEntry
<1> QED
  BY <1>1, <1>2, <1>3

\* Nobody changes what is asked.
LEMMA AsksStay ==
  ASSUME UNCHANGED asks
  PROVE  /\ Keys' = Keys /\ Kept' = Kept /\ Entries' = Entries
         /\ \A r \in Requests : KeyOf(r)' = KeyOf(r) /\ DocKey(asks[r])' = DocKey(asks[r])
<1>1. Keys' = Keys /\ \A r \in Requests : KeyOf(r)' = KeyOf(r) /\ DocKey(asks[r])' = DocKey(asks[r])
  BY DEF Keys, KeyOf, ExactKey, DocKey
<1>2. Kept' = Kept
  BY <1>1 DEF Kept
<1> QED
  BY <1>1, <1>2 DEF Entries

\* What is computed, promoted, damaged or given a lifetime is an entry.
LEMMA EntriesStay ==
  /\ \A r \in Requests : Entry(asks[r], r) \in Kept
  /\ \A r \in Requests, e \in Kept : Promoted(e, r) \in Kept
  /\ \A e \in Kept, k \in Keys : [e EXCEPT !.key = k] \in Kept
  /\ \A e \in Kept : [e EXCEPT !.sound = FALSE] \in Kept
  /\ \A e \in Kept, n \in Nat : [e EXCEPT !.left = n] \in Kept /\ [e EXCEPT !.left = n].left = n
<1>1. ASSUME NEW r \in Requests
      PROVE  Entry(asks[r], r) \in Kept
  <2>1. ExactKey(asks[r]) \in Keys
    BY KeyFacts DEF KeyOf
  <2> QED
    BY <2>1 DEF Entry, Kept, NoTtl
<1>2. ASSUME NEW r \in Requests, NEW e \in Kept
      PROVE  Promoted(e, r) \in Kept
  <2>1. KeyOf(r) \in Keys
    BY KeyFacts
  <2> QED
    BY <2>1 DEF Promoted, Kept, NoTtl
<1>3. \A e \in Kept, k \in Keys : [e EXCEPT !.key = k] \in Kept
  BY DEF Kept
<1>4. \A e \in Kept : [e EXCEPT !.sound = FALSE] \in Kept
  BY DEF Kept
<1>5. \A e \in Kept, n \in Nat : [e EXCEPT !.left = n] \in Kept /\ [e EXCEPT !.left = n].left = n
  BY DEF Kept
<1> QED
  BY <1>1, <1>2, <1>3, <1>4, <1>5

-----------------------------------------------------------------------------
(* Every step keeps the invariant.                                         *)

\* A request takes the place it goes to, and nobody else moves.
LEMMA GotoFacts ==
  ASSUME Shape, NEW r \in Requests, NEW l \in Labels, Goto(r, l)
  PROVE  /\ pc' \in [Requests -> Labels] /\ pc'[r] = l
         /\ \A q \in Requests \ {r} : pc'[q] = pc[q]
BY DEF Goto, Shape, TypeOK

\* Once a call has failed, that is known for good.
LEMMA CircuitFacts ==
  ASSUME Shape, Next
  PROVE  circuit' \in {"new", "open", "closed"} /\ (circuit' = "new" => circuit = "new")
<1>1. circuit \in {"new", "open", "closed"}
  BY DEF Shape, TypeOK
<1>2. ASSUME NEW r \in Requests, Step(r)
      PROVE  circuit' \in {"new", "open", "closed"} /\ (circuit' = "new" => circuit = "new")
  BY <1>1, <1>2
     DEF Step, Bypass, LoadHit, LoadInvalid, LoadMiss, PollMiss, Discard, Touch, SemanticHit,
         SemanticWeed, SemanticMiss, TouchDoc, Acquire, Ping, WaitOver, Compute, StoreSet,
         StoreTtl, Index, IndexTtl, Record, Release, Throw, Call, Returns, Tried, Closed
<1>3. CASE World
  BY <1>1, <1>3
     DEF World, GoDown, ComeUp, CoolDown, ClearScan, ClearUnlink, Tick, Lapse, Damage, Call, Returns, Tried
<1>4. CASE Rest
  BY <1>1, <1>4 DEF Rest, vars
<1> QED
  BY <1>2, <1>3, <1>4 DEF Next

\* A request whose call raises goes to its end; only the lock may be left behind.
LEMMA ThrowFacts ==
  ASSUME NEW r \in Requests, Throw(r)
  PROVE  /\ circuit' = "open" /\ UNCHANGED <<scene, store, up, held, answer, outcome, born, world>>
         /\ Goto(r, "unavailable") \/ (Goto(r, "abandon") /\ outcome[r] # "none")
         /\ pc[r] \in {"load", "wait", "discard", "drop", "semantic", "touch", "touchdoc", "acquire",
                      "record", "release", "abandon"}
         /\ \/ UNCHANGED <<lock, owned>>
            \/ lock[KeyOf(r)] = Nobody /\ lock' = [lock EXCEPT ![KeyOf(r)] = r] /\ UNCHANGED owned
            \/ owned' = [owned EXCEPT ![r] = FALSE] /\ UNCHANGED lock
<1>1. /\ circuit' = "open" /\ UNCHANGED <<scene, store, up, held, answer, outcome, born, world>>
  BY DEF Throw, scene, world
<1>2. /\ Goto(r, "unavailable") \/ (Goto(r, "abandon") /\ outcome[r] # "none")
      /\ pc[r] \in {"load", "wait", "discard", "drop", "semantic", "touch", "touchdoc", "acquire",
                   "record", "release", "abandon"}
  BY DEF Throw, Goto
<1>3. \/ UNCHANGED <<lock, owned>>
      \/ lock[KeyOf(r)] = Nobody /\ lock' = [lock EXCEPT ![KeyOf(r)] = r] /\ UNCHANGED owned
      \/ owned' = [owned EXCEPT ![r] = FALSE] /\ UNCHANGED lock
  BY DEF Throw
<1> QED
  BY <1>1, <1>2, <1>3

\* Nobody but these touches a lock or lays claim to one.
LEMMA LocksOnly ==
  ASSUME Next, \A r \in Requests : ~Acquire(r) /\ ~Release(r) /\ ~Throw(r), \A k \in Keys : ~Lapse(k)
  PROVE  UNCHANGED <<asks, lock, owned, lapsed>>
<1>1. ASSUME NEW r \in Requests, Step(r)
      PROVE  UNCHANGED <<asks, lock, owned, lapsed>>
  BY <1>1
     DEF Step, Bypass, LoadHit, LoadInvalid, LoadMiss, PollMiss, Discard, Touch, SemanticHit,
         SemanticWeed, SemanticMiss, TouchDoc, Ping, WaitOver, Compute, StoreSet,
         StoreTtl, Index, IndexTtl, Record, scene, redis, calls, world
<1>2. CASE World
  BY <1>2
     DEF World, GoDown, ComeUp, CoolDown, ClearScan, ClearUnlink, Tick, Damage,
         scene, redis, calls, world
<1>3. CASE Rest
  BY <1>3 DEF Rest, vars, scene, redis, calls, world
<1> QED
  BY <1>1, <1>2, <1>3 DEF Next

LEMMA HoldingStays ==
  ASSUME Shape, Holding, NoOrphanLock, Next
  PROVE  Holding' /\ NoOrphanLock'
<1>0. /\ lock \in [Keys -> Requests \cup {Nobody}] /\ owned \in [Requests -> BOOLEAN]
      /\ lapsed \subseteq Requests
  BY DEF Shape, TypeOK
<1>1. CASE UNCHANGED <<asks, lock, owned, lapsed>>
  BY <1>1, AsksStay, CircuitFacts DEF Holding, NoOrphanLock
<1>2. ASSUME NEW r \in Requests, Acquire(r)
      PROVE  Holding' /\ NoOrphanLock'
  <2> DEFINE k == KeyOf(r)
  <2>1. UNCHANGED <<asks, lapsed>> /\ k \in Keys
    BY <1>2, KeyFacts DEF Acquire, scene, world
  <2>2. CASE lock[k] = Nobody /\ lock' = [lock EXCEPT ![k] = r]
    <3>1. \A q \in Requests : owned[q] /\ q \notin lapsed => KeyOf(q) # k
      BY <2>2 DEF Holding
    <3>2. owned' = [owned EXCEPT ![r] = TRUE] \/ (owned' = owned /\ circuit' = "open")
      BY <1>2, <2>2 DEF Acquire, Call, Returns, Tried, Reached
    <3> HIDE DEF k
    <3>3. owned' \in [Requests -> BOOLEAN] /\ (owned'[r] \/ circuit' = "open")
          /\ \A q \in Requests \ {r} : owned'[q] = owned[q]
      BY <1>0, <3>2
    <3>4. /\ lock' \in [Keys -> Requests \cup {Nobody}] /\ lock'[k] = r
          /\ \A j \in Keys \ {k} : lock'[j] = lock[j]
      BY <1>0, <2>1, <2>2
    <3>5. k = KeyOf(r)
      BY DEF k
    <3>6. /\ Keys' = Keys /\ lapsed' = lapsed
          /\ \A q \in Requests : KeyOf(q)' = KeyOf(q) /\ KeyOf(q) \in Keys
      BY <2>1, AsksStay, KeyFacts
    <3>7. Holding'
      BY <3>1, <3>3, <3>4, <3>5, <3>6 DEF Holding
    <3>8. NoOrphanLock'
      BY <3>3, <3>4, <3>6, CircuitFacts DEF NoOrphanLock
    <3> QED
      BY <3>7, <3>8
  <2>3. CASE UNCHANGED <<lock, owned>>
    BY <1>1, <2>1, <2>3
  <2> QED
    BY <1>2, <2>2, <2>3 DEF Acquire
<1>3. ASSUME NEW r \in Requests, Release(r)
      PROVE  Holding' /\ NoOrphanLock'
  <2> DEFINE k == KeyOf(r)
  <2>1. /\ UNCHANGED <<asks, lapsed>> /\ k \in Keys
        /\ owned' = [owned EXCEPT ![r] = FALSE]
        /\ lock' = lock \/ (lock[k] = r /\ lock' = [lock EXCEPT ![k] = Nobody])
        /\ circuit' = "new" /\ owned[r] /\ lock[k] = r => lock'[k] # r
    <3>1. /\ UNCHANGED <<asks, lapsed>> /\ k \in Keys
          /\ owned' = [owned EXCEPT ![r] = FALSE]
      BY <1>3, KeyFacts DEF Release, scene, world
    <3>2. lock' = IF owned[r] /\ Reached THEN Freed(lock, k, r) ELSE lock
      BY <1>3 DEF Release
    <3>3. circuit' = "new" /\ owned[r] => Reached
      BY <1>3, CircuitFacts DEF Release, Call, Returns, Tried, Reached
    <3>4. Freed(lock, k, r) = IF lock[k] = r THEN [lock EXCEPT ![k] = Nobody] ELSE lock
      BY DEF Freed
    <3> HIDE DEF k
    <3> QED
      BY <1>0, <3>1, <3>2, <3>3, <3>4
  <2>2. k = KeyOf(r)
    OBVIOUS
  <2> HIDE DEF k
  <2>3. /\ Keys' = Keys /\ \A q \in Requests : KeyOf(q)' = KeyOf(q) /\ KeyOf(q) \in Keys
    BY <2>1, AsksStay, KeyFacts
  <2>4. /\ owned' \in [Requests -> BOOLEAN] /\ ~owned'[r]
        /\ \A q \in Requests \ {r} : owned'[q] = owned[q]
    BY <1>0, <2>1
  <2>5. /\ lock' \in [Keys -> Requests \cup {Nobody}]
        /\ \A j \in Keys \ {k} : lock'[j] = lock[j]
        /\ lock'[k] = lock[k] \/ (lock[k] = r /\ lock'[k] = Nobody)
    BY <1>0, <2>1
  <2>6. Holding'
    BY <2>1, <2>2, <2>3, <2>4, <2>5 DEF Holding
  <2>7. NoOrphanLock'
    <3>1. SUFFICES ASSUME circuit' = "new", NEW j \in Keys, lock'[j] # Nobody
                   PROVE  owned'[lock'[j]]
      BY <2>3 DEF NoOrphanLock
    <3>2. lock'[j] = lock[j] /\ owned[lock[j]] /\ lock[j] \in Requests
      BY <1>0, <2>5, <3>1, CircuitFacts DEF NoOrphanLock
    <3>3. lock[j] # r
      BY <2>1, <2>2, <2>5, <3>1, <3>2 DEF Holding
    <3> QED
      BY <2>4, <3>2, <3>3
  <2> QED
    BY <2>6, <2>7
<1>4. ASSUME NEW k \in Keys, Lapse(k)
      PROVE  Holding' /\ NoOrphanLock'
  <2>1. /\ UNCHANGED <<asks, owned, circuit>> /\ lock' = [lock EXCEPT ![k] = Nobody]
        /\ lapsed' = lapsed \cup {lock[k]}
    BY <1>4 DEF Lapse, scene, calls
  <2>2. /\ Keys' = Keys /\ \A q \in Requests : KeyOf(q)' = KeyOf(q) /\ KeyOf(q) \in Keys
    BY <2>1, AsksStay, KeyFacts
  <2>3. /\ lock' \in [Keys -> Requests \cup {Nobody}] /\ lock'[k] = Nobody
        /\ \A j \in Keys \ {k} : lock'[j] = lock[j]
    BY <1>0, <2>1
  <2>4. Holding'
    BY <2>1, <2>2, <2>3 DEF Holding
  <2>5. NoOrphanLock'
    BY <2>1, <2>2, <2>3 DEF NoOrphanLock
  <2> QED
    BY <2>4, <2>5
<1>5. ASSUME NEW r \in Requests, Throw(r)
      PROVE  Holding' /\ NoOrphanLock'
  <2> DEFINE k == KeyOf(r)
  <2>1. UNCHANGED <<asks, lapsed>> /\ k \in Keys /\ circuit' = "open"
    BY <1>5, ThrowFacts, KeyFacts DEF scene, world
  <2>2. NoOrphanLock'
    BY <2>1 DEF NoOrphanLock
  <2>3. /\ Keys' = Keys /\ \A q \in Requests : KeyOf(q)' = KeyOf(q) /\ KeyOf(q) \in Keys
    BY <2>1, AsksStay, KeyFacts
  <2> SUFFICES Holding'
    BY <2>2
  <2>4. CASE UNCHANGED <<lock, owned>>
    <3>1. lock' = lock /\ owned' = owned /\ lapsed' = lapsed
      BY <2>1, <2>4
    <3> QED
      BY <2>3, <3>1 DEF Holding
  <2>5. CASE lock[k] = Nobody /\ lock' = [lock EXCEPT ![k] = r] /\ UNCHANGED owned
    <3>1. \A q \in Requests : owned[q] /\ q \notin lapsed => KeyOf(q) # k
      BY <2>5 DEF Holding
    <3>2. k = KeyOf(r)
      OBVIOUS
    <3> HIDE DEF k
    <3>3. lock'[k] = r /\ \A j \in Keys \ {k} : lock'[j] = lock[j]
      BY <1>0, <2>1, <2>5
    <3>4. owned' = owned /\ lapsed' = lapsed
      BY <2>1, <2>5
    <3> QED
      BY <2>3, <3>1, <3>2, <3>3, <3>4 DEF Holding
  <2>6. CASE owned' = [owned EXCEPT ![r] = FALSE] /\ UNCHANGED lock
    <3>1. \A q \in Requests : owned'[q] => owned[q]
      BY <1>0, <2>6
    <3>2. lock' = lock /\ lapsed' = lapsed
      BY <2>1, <2>6
    <3> QED
      BY <2>3, <3>1, <3>2 DEF Holding
  <2> QED
    BY <1>5, <2>2, <2>4, <2>5, <2>6, ThrowFacts
<1> QED
  BY <1>1, <1>2, <1>3, <1>4, <1>5, LocksOnly

\* What is in the store under other keys is not touched; a request that goes on from a place where
\* it had no lifetime to give leaves the promises of others alone.
LEMMA LifetimedStays ==
  ASSUME Shape, UNCHANGED asks, NEW r \in Requests, NEW l \in Labels, Goto(r, l), NEW k \in Keys,
         Lifetimed(k), pc[r] = "expire" => KeyOf(r) # k,
         pc[r] = "indexTtl" => DocKey(asks[r]) # k
  PROVE  Lifetimed(k)'
<1>1. PICK q \in Requests : \/ pc[q] = "expire" /\ KeyOf(q) = k
                            \/ pc[q] = "indexTtl" /\ DocKey(asks[q]) = k
  BY DEF Lifetimed
<1>2. q # r
  BY <1>1
<1>3. pc'[q] = pc[q]
  BY <1>2, GotoFacts
<1> QED
  BY <1>1, <1>3, AsksStay DEF Lifetimed

\* Steps that give no lifetime and put nothing into the store.
LEMMA ReadersStay ==
  ASSUME Shape, NoImmortalEntry, Next, NEW r \in Requests,
         \/ Bypass(r) \/ LoadHit(r) \/ LoadInvalid(r) \/ LoadMiss(r) \/ PollMiss(r) \/ Discard(r)
         \/ Touch(r) \/ SemanticHit(r) \/ SemanticWeed(r) \/ SemanticMiss(r) \/ TouchDoc(r)
         \/ Acquire(r) \/ Ping(r) \/ WaitOver(r) \/ Compute(r) \/ Record(r) \/ Release(r)
  PROVE  NoImmortalEntry'
<1>1. /\ UNCHANGED asks /\ pc[r] \notin {"expire", "indexTtl"}
      /\ (\E l \in Labels : Goto(r, l)) \/ UNCHANGED pc
  BY DEF Bypass, LoadHit, LoadInvalid, LoadMiss, PollMiss, Discard, Touch, SemanticHit,
         SemanticWeed, SemanticMiss, TouchDoc, Acquire, Ping, WaitOver, Compute, Record, Release, Throw,
         Labels, scene, calls
<1>2. \A k \in Keys : store'[k] \in {store[k], NoEntry}
  BY AsksStay, KeyFacts
     DEF Bypass, LoadHit, LoadInvalid, LoadMiss, PollMiss, Discard, Touch, SemanticHit,
         SemanticWeed, SemanticMiss, TouchDoc, Acquire, Ping, WaitOver, Compute, Record, Release, Throw,
         Shape, TypeOK, redis
<1>3. \A k \in Keys : Lifetimed(k) => Lifetimed(k)'
  BY <1>1, LifetimedStays, AsksStay DEF Lifetimed
<1> QED
  BY <1>1, <1>2, <1>3, AsksStay, CircuitFacts DEF NoImmortalEntry, Has

\* A request puts an entry under a key and goes where it will give it a lifetime.
LEMMA PutStays ==
  ASSUME Shape, NoImmortalEntry, Next, UNCHANGED asks, NEW r \in Requests, NEW l \in Labels,
         Goto(r, l), pc[r] \notin {"expire", "indexTtl"}, NEW k \in Keys,
         \A j \in Keys \ {k} : store'[j] = store[j],
         \/ l = "expire" /\ KeyOf(r) = k
         \/ l = "indexTtl" /\ DocKey(asks[r]) = k
         \/ store'[k] = store[k]
  PROVE  NoImmortalEntry'
<1>1. Keys' = Keys /\ KeyOf(r)' = KeyOf(r) /\ DocKey(asks[r])' = DocKey(asks[r])
  BY AsksStay
<1>2. SUFFICES ASSUME circuit' = "new", NEW j \in Keys, Has(j)', store'[j].left = NoTtl
               PROVE  Lifetimed(j)'
  BY <1>1 DEF NoImmortalEntry
<1>3. CASE store'[j] = store[j]
  <2>1. Lifetimed(j)
    BY <1>2, <1>3, CircuitFacts DEF NoImmortalEntry, Has
  <2> QED
    BY <2>1, LifetimedStays
<1>4. CASE j = k /\ store'[j] # store[j]
  BY <1>1, <1>4, GotoFacts DEF Lifetimed
<1> QED
  BY <1>3, <1>4

\* A request gives a lifetime to what is under its key.
LEMMA GiveStays ==
  ASSUME Shape, NoImmortalEntry, Next, UNCHANGED asks, NEW r \in Requests, NEW l \in Labels,
         Goto(r, l), NEW k \in Keys, NEW n \in Nat \ {0},
         (pc[r] = "expire" /\ KeyOf(r) = k) \/ (pc[r] = "indexTtl" /\ DocKey(asks[r]) = k),
         store' = IF up /\ Has(k) THEN [store EXCEPT ![k].left = n] ELSE store,
         circuit' = IF up THEN Closed ELSE "open"
  PROVE  NoImmortalEntry'
<1>1. Keys' = Keys
  BY AsksStay
<1>2. SUFFICES ASSUME circuit' = "new", NEW j \in Keys, Has(j)', store'[j].left = NoTtl
               PROVE  Lifetimed(j)'
  BY <1>1 DEF NoImmortalEntry
<1>3. up /\ store \in [Keys -> {NoEntry} \cup Kept]
  BY <1>2, EntryFacts DEF Shape, TypeOK
<1>4. CASE j # k
  <2>1. Has(j) /\ store[j].left = NoTtl
    BY <1>2, <1>3, <1>4 DEF Has
  <2>2. Lifetimed(j)
    BY <1>2, <2>1, CircuitFacts DEF NoImmortalEntry
  <2> QED
    BY <1>4, <2>2, LifetimedStays
<1>5. CASE j = k
  <2>1. Has(k)
    BY <1>2, <1>3, <1>5 DEF Has
  <2>2. store'[k] = [store[k] EXCEPT !.left = n] /\ store[k] \in Kept
    BY <1>3, <2>1 DEF Has
  <2>3. store'[k].left = n
    BY <2>2, EntriesStay
  <2> QED
    BY <1>2, <1>5, <2>3 DEF NoTtl
<1> QED
  BY <1>4, <1>5

\* What is taken out, damaged or grows older does not lose its lifetime.
LEMMA WorldStays ==
  ASSUME Shape, NoImmortalEntry, Next, World
  PROVE  NoImmortalEntry'
<1>1. UNCHANGED <<asks, pc>> \/ Tick
  BY DEF World, GoDown, ComeUp, CoolDown, ClearScan, ClearUnlink, Tick, Lapse, Damage,
         scene, calls
<1>2. ASSUME \A k \in Keys : store'[k] # NoEntry /\ store'[k].left = NoTtl =>
                             store[k] # NoEntry /\ store[k].left = NoTtl,
             UNCHANGED <<asks, pc>>
      PROVE  NoImmortalEntry'
  BY <1>2, AsksStay, CircuitFacts DEF NoImmortalEntry, Has, Lifetimed
<1>3. store \in [Keys -> {NoEntry} \cup Kept]
  BY EntryFacts DEF Shape, TypeOK
<1>4. ASSUME NEW k \in Keys, Damage(k)
      PROVE  NoImmortalEntry'
  <2>1. /\ UNCHANGED <<asks, pc>> /\ store[k] \in Kept
        /\ store' = [store EXCEPT ![k] = [store[k] EXCEPT !.sound = FALSE]]
    BY <1>3, <1>4 DEF Damage, Has, scene, calls
  <2>2. [store[k] EXCEPT !.sound = FALSE].left = store[k].left /\ store[k] # NoEntry
    BY <2>1, EntryFacts DEF Kept
  <2> QED
    BY <1>2, <1>3, <2>1, <2>2
<1>5. CASE ClearUnlink
  <2>1. /\ UNCHANGED <<asks, pc>>
        /\ \A k \in Keys : store'[k] \in {store[k], NoEntry}
    BY <1>5 DEF ClearUnlink, scene, calls
  <2> QED
    BY <1>2, <2>1
<1>6. CASE Tick
  <2>1. /\ UNCHANGED <<asks, pc>>
        /\ \A r \in Requests : pc[r] \notin {"expire", "indexTtl"}
        /\ \A k \in Keys : store'[k] = IF Has(k) THEN Aged(store[k]) ELSE NoEntry
    BY <1>6 DEF Tick, scene, calls
  <2>2. ASSUME NEW e \in Kept, Aged(e) # NoEntry, Aged(e).left = NoTtl
        PROVE  e.left = NoTtl
    <3>1. e.left \in Nat /\ e.left # 1
      BY <2>2, EntryFacts DEF Aged
    <3>2. Aged(e).left = IF e.left = NoTtl THEN NoTtl ELSE e.left - 1
      BY <3>1 DEF Aged, Kept
    <3> QED
      BY <2>2, <3>1, <3>2 DEF NoTtl
  <2> QED
    BY <1>2, <1>3, <2>1, <2>2 DEF Has
<1>7. CASE UNCHANGED store /\ UNCHANGED <<asks, pc>>
  BY <1>2, <1>7
<1>8. ASSUME NEW k \in Keys, Lapse(k)
      PROVE  UNCHANGED store /\ UNCHANGED <<asks, pc>>
  BY <1>8 DEF Lapse, scene, calls
<1>9. ASSUME GoDown \/ ComeUp \/ CoolDown \/ ClearScan
      PROVE  UNCHANGED store /\ UNCHANGED <<asks, pc>>
  BY <1>9 DEF GoDown, ComeUp, CoolDown, ClearScan, scene, redis, calls
<1> QED
  BY <1>4, <1>5, <1>6, <1>7, <1>8, <1>9 DEF World

LEMMA LifetimesStay ==
  ASSUME Shape, NoImmortalEntry, Next
  PROVE  NoImmortalEntry'
<1>0. store \in [Keys -> {NoEntry} \cup Kept]
  BY EntryFacts DEF Shape, TypeOK
<1>1. ASSUME NEW r \in Requests, StoreSet(r)
      PROVE  NoImmortalEntry'
  <2>1. UNCHANGED asks /\ KeyOf(r) \in Keys /\ pc[r] = "store"
    BY <1>1, KeyFacts DEF StoreSet, scene
  <2>2. CASE Reached
    <3>1. /\ store' = [store EXCEPT ![KeyOf(r)] = held[r]] /\ Goto(r, "expire")
          /\ "expire" \in Labels
      BY <1>1, <2>2 DEF StoreSet, Labels
    <3>2. \A j \in Keys \ {KeyOf(r)} : store'[j] = store[j]
      BY <1>0, <3>1
    <3> QED
      BY <2>1, <3>1, <3>2, PutStays
  <2>3. CASE ~Reached
    <3>1. PICK l \in {"index", "record", "unavailable"} : Goto(r, l)
      BY <1>1, <2>3 DEF StoreSet, AfterStore, AfterBreak
    <3>2. UNCHANGED store /\ l \in Labels
      BY <1>1, <2>3 DEF StoreSet, Labels
    <3> QED
      BY <2>1, <3>1, <3>2, PutStays
  <2> QED
    BY <2>2, <2>3
<1>2. ASSUME NEW r \in Requests, Index(r)
      PROVE  NoImmortalEntry'
  <2> DEFINE k == DocKey(asks[r])
  <2>1. UNCHANGED asks /\ k \in Keys /\ pc[r] = "index"
    BY <1>2, KeyFacts DEF Index, scene
  <2>2. CASE Reached /\ asks[r].signature # NoSignature
    <3>1. /\ store' = [store EXCEPT ![k] = held[r]] /\ Goto(r, "indexTtl")
          /\ "indexTtl" \in Labels
      BY <1>2, <2>2 DEF Index, Labels
    <3>2. \A j \in Keys \ {k} : store'[j] = store[j]
      BY <1>0, <3>1
    <3> QED
      BY <2>1, <3>1, <3>2, PutStays
  <2>3. CASE ~(Reached /\ asks[r].signature # NoSignature)
    <3>1. UNCHANGED store /\ Goto(r, "record") /\ "record" \in Labels
      BY <1>2, <2>3 DEF Index, Labels
    <3> QED
      BY <2>1, <3>1, PutStays
  <2> QED
    BY <2>2, <2>3
<1>3. ASSUME NEW r \in Requests, StoreTtl(r)
      PROVE  NoImmortalEntry'
  <2>1. PICK l \in {"index", "record", "unavailable"} : Goto(r, l)
    BY <1>3 DEF StoreTtl, AfterStore, AfterBreak
  <2>2. l \in Labels /\ ExactTtl \in Nat \ {0}
    BY DEF Labels
  <2> DEFINE k == KeyOf(r)
  <2>3. /\ UNCHANGED asks /\ k \in Keys /\ pc[r] = "expire" /\ KeyOf(r) = k
        /\ store' = IF up /\ Has(k) THEN [store EXCEPT ![k].left = ExactTtl] ELSE store
        /\ circuit' = IF up THEN Closed ELSE "open"
    BY <1>3, KeyFacts DEF StoreTtl, scene
  <2> HIDE DEF k
  <2> QED
    BY <2>1, <2>2, <2>3, GiveStays
<1>4. ASSUME NEW r \in Requests, IndexTtl(r)
      PROVE  NoImmortalEntry'
  <2> DEFINE k == DocKey(asks[r])
  <2>1. /\ UNCHANGED asks /\ k \in Keys /\ pc[r] = "indexTtl" /\ Goto(r, "record")
        /\ "record" \in Labels
        /\ store' = IF up /\ Has(k) THEN [store EXCEPT ![k].left = SemanticTtl] ELSE store
        /\ circuit' = IF up THEN Closed ELSE "open"
    BY <1>4, KeyFacts DEF IndexTtl, Labels, scene
  <2>2. SemanticTtl \in Nat \ {0} /\ DocKey(asks[r]) = k
    OBVIOUS
  <2> HIDE DEF k
  <2> QED
    BY <2>1, <2>2, GiveStays
<1>5. CASE Rest
  BY <1>5, AsksStay DEF Rest, vars, scene, redis, calls, NoImmortalEntry, Has, Lifetimed
<1>6. ASSUME NEW r \in Requests, Throw(r)
      PROVE  NoImmortalEntry'
  BY <1>6, ThrowFacts DEF NoImmortalEntry
<1> QED
  BY <1>1, <1>2, <1>3, <1>4, <1>5, <1>6, ReadersStay, WorldStays DEF Next, Step

\* Everything keeps its type.
LEMMA WorldShape ==
  ASSUME Shape, Next, World \/ Rest
  PROVE  Shape'
<1>0. UNCHANGED <<asks, may>>
  BY DEF World, GoDown, ComeUp, CoolDown, ClearScan, ClearUnlink, Tick, Lapse, Damage, Rest,
         vars, scene
<1>1. /\ Keys' = Keys /\ Entries' = Entries /\ Kept' = Kept
  BY <1>0, AsksStay
<1>2. UNCHANGED calls
  BY DEF World, GoDown, ComeUp, CoolDown, ClearScan, ClearUnlink, Tick, Lapse, Damage, Rest, vars
<1>3. circuit' \in {"new", "open", "closed"}
  BY CircuitFacts
<1>4. store' \in [Keys -> Entries]
  <2>0. store \in [Keys -> Entries]
    BY DEF Shape, TypeOK
  <2>1. ASSUME NEW k \in Keys, Damage(k)
        PROVE  store' \in [Keys -> Entries]
    <3>1. store' = [store EXCEPT ![k] = [store[k] EXCEPT !.sound = FALSE]] /\ store[k] \in Kept
      BY <2>0, <2>1, EntryFacts DEF Damage, Has
    <3>2. [store[k] EXCEPT !.sound = FALSE] \in Entries
      BY <3>1, EntriesStay, EntryFacts
    <3> QED
      BY <2>0, <3>1, <3>2
  <2>2. CASE ClearUnlink
    <3>1. NoEntry \in Entries
      BY EntryFacts
    <3> QED
      BY <2>0, <2>2, <3>1 DEF ClearUnlink
  <2>3. CASE Tick
    <3>1. ASSUME NEW e \in Kept
          PROVE  Aged(e) \in Entries
      <4>1. CASE e.left = 1
        BY <4>1, EntryFacts DEF Aged
      <4>2. CASE e.left # 1
        <5> DEFINE n == IF e.left = NoTtl THEN NoTtl ELSE e.left - 1
        <5>1. n \in Nat /\ Aged(e) = [e EXCEPT !.left = n]
          BY <4>2, EntryFacts DEF Aged, NoTtl
        <5> QED
          BY <5>1, EntriesStay, EntryFacts
      <4> QED
        BY <4>1, <4>2
    <3>2. \A k \in Keys : (IF Has(k) THEN Aged(store[k]) ELSE NoEntry) \in Entries
      BY <2>0, <3>1, EntryFacts DEF Has
    <3> QED
      BY <2>3, <3>2 DEF Tick
  <2>4. CASE UNCHANGED store
    BY <2>0, <2>4
  <2> QED
    BY <2>1, <2>2, <2>3, <2>4
       DEF World, GoDown, ComeUp, CoolDown, ClearScan, Lapse, Rest, vars, redis
<1>5. /\ lock' \in [Keys -> Requests \cup {Nobody}] /\ up' \in BOOLEAN
      /\ now' \in Nat /\ faults' \in 0..MaxFaults /\ lapsed' \subseteq Requests
      /\ doomed' \subseteq Keys
  <2>1. /\ lock \in [Keys -> Requests \cup {Nobody}] /\ up \in BOOLEAN
        /\ now \in Nat /\ faults \in 0..MaxFaults /\ lapsed \subseteq Requests
        /\ doomed \subseteq Keys
    BY DEF Shape, TypeOK
  <2>2. ASSUME NEW k \in Keys, Lapse(k)
        PROVE  /\ lock' \in [Keys -> Requests \cup {Nobody}] /\ up' \in BOOLEAN
               /\ now' \in Nat /\ faults' \in 0..MaxFaults /\ lapsed' \subseteq Requests
               /\ doomed' \subseteq Keys
    BY <2>1, <2>2 DEF Lapse, Fault
  <2>3. ASSUME NEW k \in Keys, Damage(k)
        PROVE  /\ lock' \in [Keys -> Requests \cup {Nobody}] /\ up' \in BOOLEAN
               /\ now' \in Nat /\ faults' \in 0..MaxFaults /\ lapsed' \subseteq Requests
               /\ doomed' \subseteq Keys
    BY <2>1, <2>3 DEF Damage, Fault
  <2>4. CASE ClearScan
    BY <2>1, <2>4 DEF ClearScan, Fault, redis
  <2>5. CASE Tick
    BY <2>1, <2>5 DEF Tick
  <2>6. CASE GoDown
    <3>1. up' \in BOOLEAN
      BY <2>6 DEF GoDown
    <3>2. UNCHANGED <<lock, now, lapsed, doomed>> /\ Fault("outage")
      BY <2>6 DEF GoDown
    <3>3. faults' \in 0..MaxFaults
      BY <2>1, <3>2 DEF Fault
    <3> QED
      BY <2>1, <3>1, <3>2, <3>3
  <2>8. CASE ComeUp
    BY <2>1, <2>8 DEF ComeUp, world
  <2>9. CASE CoolDown
    BY <2>1, <2>9 DEF CoolDown, redis, world
  <2>10. CASE ClearUnlink
    BY <2>1, <2>10 DEF ClearUnlink
  <2>7. CASE Rest
    BY <2>1, <2>7 DEF Rest, vars, redis, world
  <2> QED
    BY <2>2, <2>3, <2>4, <2>5, <2>6, <2>7, <2>8, <2>9, <2>10 DEF World
<1> QED
  BY <1>0, <1>1, <1>2, <1>3, <1>4, <1>5 DEF Shape, TypeOK, calls

\* What a request leaves in the store, at its lock and in its hands is what may be there.
LEMMA StepShape ==
  ASSUME Shape, Next, NEW r \in Requests, Step(r)
  PROVE  Shape'
<1>0. /\ store \in [Keys -> Entries] /\ lock \in [Keys -> Requests \cup {Nobody}]
      /\ pc \in [Requests -> Labels] /\ owned \in [Requests -> BOOLEAN]
      /\ held \in [Requests -> Entries] /\ answer \in [Requests -> Requests \cup {Nobody}]
      /\ outcome \in [Requests -> {"none", "good", "refused", "raised"}]
      /\ born \in [Requests -> Nat] /\ now \in Nat
      /\ \A q \in Requests : pc[q] = "touchdoc" => held[q] \in Kept
  BY DEF Shape, TypeOK
<1>1. UNCHANGED <<asks, may, up, now, faults, lapsed, doomed>>
  BY DEF Step, Bypass, LoadHit, LoadInvalid, LoadMiss, PollMiss, Discard, Touch, SemanticHit,
         SemanticWeed, SemanticMiss, TouchDoc, Acquire, Ping, WaitOver, Compute, StoreSet,
         StoreTtl, Index, IndexTtl, Record, Release, Throw, scene, redis, world
<1>2. Keys' = Keys /\ Entries' = Entries /\ Kept' = Kept
  BY <1>1, AsksStay
<1>3. KeyOf(r) \in Keys /\ DocKey(asks[r]) \in Keys
  BY KeyFacts
<1>4. \/ UNCHANGED pc
      \/ \E l \in Labels : Goto(r, l) /\ (l = "touchdoc" => SemanticHit(r))
  BY DEF Step, Bypass, LoadHit, LoadInvalid, LoadMiss, PollMiss, Discard, Touch, SemanticHit,
         SemanticWeed, SemanticMiss, TouchDoc, Acquire, Ping, WaitOver, Compute, StoreSet,
         StoreTtl, Index, IndexTtl, Record, Release, Throw, AfterStore, AfterBreak, Labels, calls
<1>5. store' \in [Keys -> Entries]
  <2>1. NoEntry \in Entries
    BY EntryFacts
  <2>2. ASSUME NEW k \in Keys, NEW n \in Nat, Has(k)
        PROVE  [store EXCEPT ![k].left = n] \in [Keys -> Entries]
    <3>1. store[k] \in Kept
      BY <1>0, <2>2, EntryFacts DEF Has
    <3>2. [store[k] EXCEPT !.left = n] \in Entries
      BY <3>1, EntriesStay, EntryFacts
    <3>3. [store EXCEPT ![k].left = n] = [store EXCEPT ![k] = [store[k] EXCEPT !.left = n]]
      OBVIOUS
    <3> QED
      BY <1>0, <3>2, <3>3
  <2>3. CASE StoreTtl(r)
    BY <1>0, <1>3, <2>2, <2>3 DEF StoreTtl
  <2>4. CASE IndexTtl(r)
    BY <1>0, <1>3, <2>2, <2>4 DEF IndexTtl
  <2>5. CASE Discard(r)
    BY <1>0, <1>3, <2>1, <2>5 DEF Discard
  <2>6. CASE SemanticWeed(r)
    BY <1>0, <2>1, <2>6 DEF SemanticWeed
  <2>7. CASE StoreSet(r) \/ Index(r)
    BY <1>0, <1>3, <2>7 DEF StoreSet, Index
  <2>8. CASE UNCHANGED store
    BY <1>0, <2>8
  <2> QED
    BY <2>3, <2>4, <2>5, <2>6, <2>7, <2>8
       DEF Step, Bypass, LoadHit, LoadInvalid, LoadMiss, PollMiss, Touch, SemanticHit,
           SemanticMiss, TouchDoc, Acquire, Ping, WaitOver, Compute, Record, Release, Throw, redis
<1>6. lock' \in [Keys -> Requests \cup {Nobody}]
  BY <1>0, <1>3
     DEF Step, Bypass, LoadHit, LoadInvalid, LoadMiss, PollMiss, Discard, Touch, SemanticHit,
         SemanticWeed, SemanticMiss, TouchDoc, Acquire, Ping, WaitOver, Compute, StoreSet,
         StoreTtl, Index, IndexTtl, Record, Release, Throw, Freed, redis
<1>7. owned' \in [Requests -> BOOLEAN]
  <2>1. \/ UNCHANGED owned
        \/ owned' = [owned EXCEPT ![r] = TRUE]
        \/ owned' = [owned EXCEPT ![r] = FALSE]
    BY DEF Step, Bypass, LoadHit, LoadInvalid, LoadMiss, PollMiss, Discard, Touch, SemanticHit,
         SemanticWeed, SemanticMiss, TouchDoc, Acquire, Ping, WaitOver, Compute, StoreSet,
         StoreTtl, Index, IndexTtl, Record, Release, Throw, calls
  <2> QED
    BY <1>0, <2>1
<1>8. held' \in [Requests -> Entries] /\ (SemanticHit(r) => held'[r] \in Kept)
      /\ \A q \in Requests \ {r} : held'[q] = held[q]
  <2>1. CASE SemanticHit(r)
    <3>1. PICK k \in Documents : held' = [held EXCEPT ![r] = [store[k] EXCEPT !.key = k]]
      BY <2>1 DEF SemanticHit
    <3>2. k \in Keys /\ store[k] \in Kept
      BY <1>0, EntryFacts, KeyFacts DEF Documents, Has
    <3>3. [store[k] EXCEPT !.key = k] \in Kept
      BY <3>2, EntriesStay
    <3> QED
      BY <1>0, <3>1, <3>3, EntryFacts
  <2>2. CASE TouchDoc(r) /\ ~SemanticHit(r)
    <3>1. held' = [held EXCEPT ![r] = Promoted(held[r], r)] /\ held[r] \in Kept
      BY <1>0, <2>2 DEF TouchDoc
    <3>2. Promoted(held[r], r) \in Entries
      BY <3>1, EntriesStay, EntryFacts
    <3> QED
      BY <1>0, <2>2, <3>1, <3>2
  <2>3. CASE Compute(r) /\ ~SemanticHit(r)
    <3>1. Entry(asks[r], r) \in Entries
      BY EntriesStay, EntryFacts
    <3>2. UNCHANGED held \/ held' = [held EXCEPT ![r] = Entry(asks[r], r)]
      BY <2>3 DEF Compute
    <3> QED
      BY <1>0, <2>3, <3>1, <3>2
  <2>4. CASE UNCHANGED held /\ ~SemanticHit(r)
    BY <1>0, <2>4
  <2> QED
    BY <2>1, <2>2, <2>3, <2>4
       DEF Step, Bypass, LoadHit, LoadInvalid, LoadMiss, PollMiss, Discard, Touch, SemanticWeed,
           SemanticMiss, Acquire, Ping, WaitOver, StoreSet, StoreTtl, Index, IndexTtl, Record, Release, Throw,
           calls
<1>9. answer' \in [Requests -> Requests \cup {Nobody}]
  <2>1. \/ UNCHANGED answer
        \/ \E a \in Requests : answer' = [answer EXCEPT ![r] = a]
    <3>1. CASE SemanticHit(r)
      <4>1. PICK k \in Documents : answer' = [answer EXCEPT ![r] = store[k].by]
        BY <3>1 DEF SemanticHit
      <4>2. store[k] \in Kept
        BY <1>0, EntryFacts, KeyFacts DEF Documents, Has
      <4> QED
        BY <4>1, <4>2, EntryFacts
    <3>2. CASE LoadHit(r)
      <4>1. store[KeyOf(r)] \in Kept
        BY <1>0, <1>3, <3>2, EntryFacts DEF LoadHit, Has
      <4> QED
        BY <3>2, <4>1, EntryFacts DEF LoadHit
    <3>3. CASE Bypass(r) \/ Compute(r)
      BY <3>3 DEF Bypass, Compute
    <3> QED
      BY <3>1, <3>2, <3>3
         DEF Step, LoadInvalid, LoadMiss, PollMiss, Discard, Touch, SemanticWeed, SemanticMiss,
             TouchDoc, Acquire, Ping, WaitOver, StoreSet, StoreTtl, Index, IndexTtl, Record, Release, Throw,
             calls
  <2> QED
    BY <1>0, <2>1
<1>10. /\ outcome' \in [Requests -> {"none", "good", "refused", "raised"}]
       /\ born' \in [Requests -> Nat]
  BY <1>0
     DEF Step, Bypass, LoadHit, LoadInvalid, LoadMiss, PollMiss, Discard, Touch, SemanticHit,
         SemanticWeed, SemanticMiss, TouchDoc, Acquire, Ping, WaitOver, Compute, StoreSet,
         StoreTtl, Index, IndexTtl, Record, Release, Throw, calls
<1>11. pc' \in [Requests -> Labels] /\ \A q \in Requests : pc'[q] = "touchdoc" => held'[q] \in Kept
  <2>1. CASE UNCHANGED pc /\ UNCHANGED held
    BY <1>0, <2>1
  <2>2. CASE \E l \in Labels : Goto(r, l) /\ (l = "touchdoc" => SemanticHit(r))
    BY <1>0, <1>8, <2>2, GotoFacts
  <2>3. UNCHANGED pc => \/ UNCHANGED held
                        \/ \E l \in Labels : Goto(r, l) /\ (l = "touchdoc" => SemanticHit(r))
    BY DEF Step, Bypass, LoadHit, LoadInvalid, LoadMiss, PollMiss, Discard, Touch, SemanticHit,
         SemanticWeed, SemanticMiss, TouchDoc, Acquire, Ping, WaitOver, Compute, StoreSet,
         StoreTtl, Index, IndexTtl, Record, Release, Throw, Labels, calls
  <2> QED
    BY <1>4, <2>1, <2>2, <2>3
<1> QED
  BY <1>1, <1>2, <1>5, <1>6, <1>7, <1>8, <1>9, <1>10, <1>11, CircuitFacts DEF Shape, TypeOK

LEMMA IInvStays ==
  ASSUME IInv, [Next]_vars
  PROVE  IInv'
<1>1. CASE Next
  BY <1>1, HoldingStays, LifetimesStay, StepShape, WorldShape DEF IInv, Next
<1>2. CASE UNCHANGED vars
  <2>1. UNCHANGED <<asks, may, store, lock, up, circuit, pc, owned, held, answer, outcome, born,
                    now, faults, lapsed, doomed>>
    BY <1>2 DEF vars, scene, redis, calls, world
  <2>2. Keys' = Keys /\ Entries' = Entries /\ Kept' = Kept
        /\ \A r \in Requests : KeyOf(r)' = KeyOf(r) /\ DocKey(asks[r])' = DocKey(asks[r])
    BY <2>1, AsksStay
  <2>3. Shape'
    BY <2>1, <2>2 DEF IInv, Shape, TypeOK
  <2>4. Holding' /\ NoOrphanLock'
    BY <2>1, <2>2 DEF IInv, Holding, NoOrphanLock
  <2>5. NoImmortalEntry'
    BY <2>1, <2>2 DEF IInv, NoImmortalEntry, Has, Lifetimed
  <2> QED
    BY <2>3, <2>4, <2>5 DEF IInv
<1> QED
  BY <1>1, <1>2

\* Nobody has asked anything yet.
LEMMA InitHolds == Init => IInv
<1> SUFFICES ASSUME Init
             PROVE  IInv
  OBVIOUS
<1>1. Shape
  BY EntryFacts DEF Init, Shape, TypeOK, Labels
<1>2. Holding
  BY DEF Init, Holding
<1>3. NoOrphanLock /\ NoImmortalEntry
  BY DEF Init, NoOrphanLock, NoImmortalEntry, Has
<1> QED
  BY <1>1, <1>2, <1>3 DEF IInv

\* Who owns the lock of a key and did not lose it is its holder: there is only one.
LEMMA HoldersAlone == Holding => OneOwner
<1> SUFFICES ASSUME Holding, NEW k \in Keys
             PROVE  Cardinality(Owners(k) \ lapsed) <= 1
  BY DEF OneOwner
<1>1. Owners(k) \ lapsed \subseteq {lock[k]}
  BY DEF Owners, Holding
<1>2. IsFiniteSet({lock[k]}) /\ Cardinality({lock[k]}) = 1
  BY FS_Singleton
<1>3. Cardinality(Owners(k) \ lapsed) <= Cardinality({lock[k]})
  BY <1>1, <1>2, FS_Subset
<1>4. Cardinality(Owners(k) \ lapsed) \in Nat
  BY <1>1, <1>2, FS_Subset, FS_CardinalityType
<1> QED
  BY <1>2, <1>3, <1>4

LEMMA IInvAlways == Spec => []IInv
<1>1. Init => IInv
  BY InitHolds
<1>2. IInv /\ [Next]_vars => IInv'
  BY IInvStays
<1> QED
  BY <1>1, <1>2, PTL DEF Spec

-----------------------------------------------------------------------------
(* The theorems.                                                           *)

\* Everything that is kept, held or answered is of its type (service.py:286-420).
THEOREM SingleFlightTyped == Spec => []TypeOK
<1>1. IInv => TypeOK
  BY DEF IInv, Shape
<1> QED
  BY <1>1, IInvAlways, PTL

\* Whatever fails, no key has two owners whose lock has not run out; and as long as no call to
\* Redis has failed, every lock has an owner and every entry gets a lifetime (locks.py:28-62,
\* service.py:384-420): a late release frees nobody else's lock.
THEOREM SingleFlightCorrect == Spec => []NothingStaysBehind
<1>1. IInv => NothingStaysBehind
  BY HoldersAlone DEF IInv, NothingStaysBehind
<1> QED
  BY <1>1, IInvAlways, PTL

-----------------------------------------------------------------------------
(* What is served is right.                                                *)

\* A request that computed has nothing left to look up.
Past == {"store", "expire", "index", "indexTtl", "record", "release", "abandon", "done", "unavailable"}
ComputeOnce == \A r \in Requests : outcome[r] # "none" => pc[r] \in Past

\* An entry is what its author computed, and may be kept; if it was given to another identity, that
\* one has the author's signature.
True(e) == /\ outcome[e.by] = "good"
           /\ e.version = asks[e.by].version /\ e.model = asks[e.by].model
           /\ e.signature = asks[e.by].signature
           /\ e.identity = asks[e.by].identity \/ e.signature # NoSignature
           /\ \A q \in Requests : asks[q].identity = e.identity => asks[q].signature = e.signature
\* It carries the exact key of its identity, also as a document under a key without the model.
Keyed(e) == e.key = <<"cache", e.identity, e.version, e.model>>
Same(e, f) == /\ f.by = e.by /\ f.key = e.key /\ f.identity = e.identity /\ f.version = e.version
              /\ f.model = e.model /\ f.signature = e.signature

EntriesTrue == \A k \in Keys, e \in Kept : store[k] = e => True(e) /\ Keyed(e)
HeldTrue == \A r \in Requests, e \in Kept : held[r] = e =>
               True(e) /\ IF pc[r] = "touchdoc" THEN Reusable(e, r)
                          ELSE pc[r] # "unavailable" => Keyed(e)
Told == ComputeOnce /\ EntriesTrue /\ HeldTrue /\ RightAnswer

\* A good value stays good: what it says of an entry stays true.
GoodStays == \A o \in Requests : outcome[o] = "good" => outcome'[o] = "good"
LEMMA TrueStays ==
  ASSUME UNCHANGED asks, GoodStays
  PROVE  /\ \A e \in Kept : True(e) => True(e)'
         /\ \A e \in Kept, r \in Requests : Reusable(e, r)' <=> Reusable(e, r)
         /\ \A o, r \in Requests : Fits(o, r) => Fits(o, r)'
<1>1. \A e \in Kept : e.by \in Requests
  BY EntryFacts
<1> QED
  BY <1>1 DEF True, GoodStays, Reusable, SameAnalysis, Fits

LEMMA SameIsTrue ==
  ASSUME NEW e \in Kept, NEW f \in Kept, Same(e, f)
  PROVE  /\ True(e) => True(f)
         /\ Keyed(e) => Keyed(f)
BY DEF Same, True, Keyed

\* Damage and lifetimes leave what an entry says alone.
LEMMA SameFacts ==
  /\ \A e \in Kept : Same(e, e)
  /\ \A e \in Kept : Same(e, [e EXCEPT !.sound = FALSE])
  /\ \A e \in Kept, n \in Nat : Same(e, [e EXCEPT !.left = n])
BY DEF Same, Kept

LEMMA ToldStays ==
  ASSUME Shape, Told, UNCHANGED asks, GoodStays,
         \A o \in Requests : outcome'[o] # "none" => pc'[o] \in Past,
         \A k \in Keys, f \in Kept : store'[k] = f =>
            \E e \in Kept : Same(e, f) /\ True(e) /\ Keyed(e),
         \A q \in Requests, f \in Kept : held'[q] = f =>
            True(f)' /\ IF pc'[q] = "touchdoc" THEN Reusable(f, q)
                      ELSE pc'[q] # "unavailable" => Keyed(f),
         \A q, o \in Requests : answer'[q] = o /\ o # q => answer[q] = o \/ Fits(o, q),
         answer' \in [Requests -> Requests \cup {Nobody}]
  PROVE  Told'
<1>1. Keys' = Keys /\ Kept' = Kept
  BY AsksStay
<1>2. ComputeOnce'
  BY DEF ComputeOnce
<1>3. EntriesTrue'
  <2> SUFFICES ASSUME NEW k \in Keys, NEW f \in Kept, store'[k] = f
               PROVE  True(f)' /\ Keyed(f)'
    BY <1>1 DEF EntriesTrue
  <2> PICK e \in Kept : Same(e, f) /\ True(e) /\ Keyed(e)
    OBVIOUS
  <2>1. True(f) /\ Keyed(f)
    BY SameIsTrue
  <2> QED
    BY <2>1, TrueStays DEF Keyed
<1>4. HeldTrue'
  <2> SUFFICES ASSUME NEW q \in Requests, NEW f \in Kept, held'[q] = f
               PROVE  True(f)' /\ IF pc'[q] = "touchdoc" THEN Reusable(f, q)'
                            ELSE pc'[q] # "unavailable" => Keyed(f)'
    BY <1>1 DEF HeldTrue
  <2>1. True(f)' /\ IF pc'[q] = "touchdoc" THEN Reusable(f, q)
                            ELSE pc'[q] # "unavailable" => Keyed(f)
    OBVIOUS
  <2> QED
    BY <2>1, TrueStays DEF Keyed
<1>5. RightAnswer'
  <2>1. ASSUME NEW q \in Requests, NEW o \in Requests, answer'[q] = o, o # q
        PROVE  Fits(o, q)'
    <3>1. Nobody \notin Requests
      OBVIOUS
    <3>2. answer[q] = o => Fits(o, q)
      BY <2>1, <3>1 DEF Told, RightAnswer
    <3> QED
      BY <2>1, <3>2, TrueStays
  <2>2. \A q, o \in Requests : answer'[q] = o /\ o # q =>
           /\ outcome'[o] = "good"
           /\ asks'[o].version = asks'[q].version /\ asks'[o].model = asks'[q].model
           /\ \/ asks'[o].identity = asks'[q].identity
              \/ asks'[q].signature \in {asks'[o].signature} \ {NoSignature}
    BY <2>1 DEF Fits
  <2>3. \A q \in Requests : answer'[q] \in Requests \cup {Nobody}
    OBVIOUS
  <2> QED
    BY <2>2, <2>3 DEF RightAnswer, Fits
<1> QED
  BY <1>2, <1>3, <1>4, <1>5 DEF Told

\* An entry that is found under the exact key answers the request.
LEMMA ExactFits ==
  ASSUME NEW r \in Requests, NEW e \in Kept, True(e), Keyed(e), About(e, r)
  PROVE  Fits(e.by, r)
<1>1. e.key = <<"cache", asks[r].identity, asks[r].version, asks[r].model>>
  BY DEF About, KeyOf, ExactKey
<1>2. e.model = asks[r].model
  BY <1>1 DEF Keyed
<1>3. e.identity = asks[r].identity /\ e.version = asks[r].version
  BY DEF About
<1>4. asks[r].signature = e.signature
  BY <1>3 DEF True
<1> QED
  BY <1>2, <1>3, <1>4 DEF True, Fits

LEMMA LikeFits ==
  ASSUME NEW r \in Requests, NEW e \in Kept, True(e), Reusable(e, r)
  PROVE  Fits(e.by, r)
BY DEF True, Reusable, SameAnalysis, Fits

\* Promotion keeps an entry true, and gives it the key of its new identity.
LEMMA PromotedIsTrue ==
  ASSUME CacheAssumption, \E s \in Scenes : asks = s.asks,
         NEW r \in Requests, NEW e \in Kept, True(e), Reusable(e, r)
  PROVE  True(Promoted(e, r)) /\ Keyed(Promoted(e, r)) /\ Promoted(e, r).by = e.by
<1> DEFINE p == Promoted(e, r)
<1>1. /\ p.by = e.by /\ p.version = e.version /\ p.model = e.model /\ p.signature = e.signature
      /\ p.identity = asks[r].identity /\ p.key = KeyOf(r)
  BY DEF Promoted, Kept
<1> HIDE DEF p
<1>2. e.version = asks[r].version /\ e.signature = asks[r].signature /\ e.model = asks[r].model
      /\ e.signature # NoSignature
  BY DEF Reusable, SameAnalysis
<1>3. \A q \in Requests : asks[q].identity = asks[r].identity => asks[q].signature = asks[r].signature
  BY DEF CacheAssumption
<1>4. True(p)
  BY <1>1, <1>2, <1>3 DEF True
<1>5. Keyed(p)
  BY <1>1, <1>2 DEF Keyed, KeyOf, ExactKey
<1> QED
  BY <1>1, <1>4, <1>5 DEF p

-----------------------------------------------------------------------------
(* How old it is.                                                          *)

\* Less than the documents' lifetime has passed since an entry was computed; or what has passed
\* and what is left to it are at most that.
Within(e, n) == now + n <= born[e.by] + SemanticTtl
Fresh(e)   == Within(e, 1)
DocOK(e)   == Fresh(e) /\ Within(e, e.left)
ExactOK(e) == IF e.left = NoTtl THEN Fresh(e)
              ELSE now + e.left + 1 <= born[e.by] + SemanticTtl + ExactTtl
DocKeys == {DocKey(asks[r]) : r \in Requests}

StoreYoung ==
    /\ \A k \in Keys, e \in Kept : store[k] = e => IF k \in DocKeys THEN DocOK(e) ELSE ExactOK(e)
    /\ \A r \in Requests, e \in Kept : pc[r] = "expire" /\ store[KeyOf(r)] = e => Fresh(e)
    /\ \A r \in Requests, e \in Kept :
          pc[r] = "indexTtl" /\ store[DocKey(asks[r])] = e => born[e.by] = now
    /\ \A r \in Requests, e \in Kept :
          pc[r] \in {"touchdoc", "store", "expire", "index"} /\ held[r] = e => Fresh(e)
Young == circuit = "new" => StoreYoung

\* What a request computed it stores in the same breath; only that becomes a document.
Storing == {"store", "expire", "index", "indexTtl"}
OwnIsNew == \A r \in Requests :
               /\ pc[r] \in Storing /\ held[r].by = r => born[r] = now
               /\ pc[r] \in {"index", "indexTtl"} => held[r].by = r
               /\ \A e \in Kept : pc[r] \in Storing /\ held[r] = e => e.left = NoTtl

RInv == Told /\ Young /\ OwnIsNew

LEMMA StepMoves ==
  ASSUME Shape, NEW r \in Requests, Step(r)
  PROVE  /\ UNCHANGED <<asks, now>>
         /\ UNCHANGED pc \/ \E l \in Labels : Goto(r, l)
         /\ \A q \in Requests \ {r} : pc'[q] = pc[q] /\ held'[q] = held[q] /\ born'[q] = born[q]
                                      /\ outcome'[q] = outcome[q] /\ answer'[q] = answer[q]
         /\ ~Compute(r) => UNCHANGED <<born, outcome>>
         /\ ~SemanticHit(r) /\ ~TouchDoc(r) /\ ~Compute(r) => UNCHANGED held
<1>1. UNCHANGED <<asks, now>> /\ (UNCHANGED pc \/ \E l \in Labels : Goto(r, l))
  BY DEF Step, Bypass, LoadHit, LoadInvalid, LoadMiss, PollMiss, Discard, Touch, SemanticHit,
         SemanticWeed, SemanticMiss, TouchDoc, Acquire, Ping, WaitOver, Compute, StoreSet,
         StoreTtl, Index, IndexTtl, Record, Release, Throw, AfterStore, AfterBreak, Labels, calls, scene, world
<1>2. \A q \in Requests \ {r} : pc'[q] = pc[q]
  BY <1>1, GotoFacts
<1>3. /\ ~Compute(r) => UNCHANGED <<born, outcome>>
      /\ ~SemanticHit(r) /\ ~TouchDoc(r) /\ ~Compute(r) => UNCHANGED held
  BY DEF Step, Bypass, LoadHit, LoadInvalid, LoadMiss, PollMiss, Discard, Touch, SemanticHit,
         SemanticWeed, SemanticMiss, TouchDoc, Acquire, Ping, WaitOver, StoreSet,
         StoreTtl, Index, IndexTtl, Record, Release, Throw, calls
<1>4. \A q \in Requests \ {r} : born'[q] = born[q] /\ outcome'[q] = outcome[q]
  BY <1>3 DEF Compute, Shape, TypeOK
<1>5. \A q \in Requests \ {r} : held'[q] = held[q]
  BY <1>3 DEF Compute, SemanticHit, TouchDoc, Shape, TypeOK
<1>6. \A q \in Requests \ {r} : answer'[q] = answer[q]
  <2>1. CASE SemanticHit(r)
    BY <2>1 DEF SemanticHit, Shape, TypeOK
  <2>2. CASE LoadHit(r) \/ Bypass(r) \/ Compute(r)
    BY <2>2 DEF LoadHit, Bypass, Compute, Shape, TypeOK
  <2> QED
    BY <2>1, <2>2
       DEF Step, LoadInvalid, LoadMiss, PollMiss, Discard, Touch, SemanticWeed, SemanticMiss,
           TouchDoc, Acquire, Ping, WaitOver, StoreSet, StoreTtl, Index, IndexTtl, Record, Release, Throw, calls
<1> QED
  BY <1>1, <1>2, <1>3, <1>4, <1>5, <1>6

\* Where an entry comes from.
LEMMA StoreMoves ==
  ASSUME Shape, NEW r \in Requests, Step(r), NEW k \in Keys, NEW f \in Kept, store'[k] = f
  PROVE  \/ store[k] = f
         \/ StoreSet(r) /\ k = KeyOf(r) /\ held[r] = f
         \/ Index(r) /\ k = DocKey(asks[r]) /\ held[r] = f
         \/ StoreTtl(r) /\ k = KeyOf(r) /\ \E e \in Kept : store[k] = e /\ f = [e EXCEPT !.left = ExactTtl]
         \/ IndexTtl(r) /\ k = DocKey(asks[r])
            /\ \E e \in Kept : store[k] = e /\ f = [e EXCEPT !.left = SemanticTtl]
<1>0. store \in [Keys -> {NoEntry} \cup Kept] /\ NoEntry \notin Kept
      /\ KeyOf(r) \in Keys /\ DocKey(asks[r]) \in Keys
  BY EntryFacts, KeyFacts DEF Shape, TypeOK
<1>1. CASE StoreSet(r)
  BY <1>0, <1>1 DEF StoreSet
<1>2. CASE Index(r)
  BY <1>0, <1>2 DEF Index
<1>3. CASE StoreTtl(r)
  <2> DEFINE j == KeyOf(r)
  <2>1. store' = IF up /\ Has(j) THEN [store EXCEPT ![j].left = ExactTtl] ELSE store
    BY <1>3 DEF StoreTtl
  <2>2. j \in Keys
    BY <1>0
  <2> HIDE DEF j
  <2>3. CASE up /\ Has(j) /\ k = j
    <3>1. store[j] \in Kept /\ store'[j] = [store[j] EXCEPT !.left = ExactTtl]
      BY <1>0, <2>1, <2>2, <2>3 DEF Has
    <3> QED
      BY <1>3, <2>3, <3>1 DEF j
  <2>4. CASE ~(up /\ Has(j) /\ k = j)
    BY <1>0, <2>1, <2>2, <2>4
  <2> QED
    BY <2>3, <2>4
<1>4. CASE IndexTtl(r)
  <2> DEFINE j == DocKey(asks[r])
  <2>1. store' = IF up /\ Has(j) THEN [store EXCEPT ![j].left = SemanticTtl] ELSE store
    BY <1>4 DEF IndexTtl
  <2>2. j \in Keys
    BY <1>0
  <2> HIDE DEF j
  <2>3. CASE up /\ Has(j) /\ k = j
    <3>1. store[j] \in Kept /\ store'[j] = [store[j] EXCEPT !.left = SemanticTtl]
      BY <1>0, <2>1, <2>2, <2>3 DEF Has
    <3> QED
      BY <1>4, <2>3, <3>1 DEF j
  <2>4. CASE ~(up /\ Has(j) /\ k = j)
    BY <1>0, <2>1, <2>2, <2>4
  <2> QED
    BY <2>3, <2>4
<1>5. CASE Discard(r)
  BY <1>0, <1>5 DEF Discard
<1>6. CASE SemanticWeed(r)
  <2>1. PICK j \in Documents : store' = [store EXCEPT ![j] = NoEntry]
    BY <1>6 DEF SemanticWeed
  <2> QED
    BY <1>0, <2>1
<1>7. CASE UNCHANGED store
  BY <1>7
<1> QED
  BY <1>1, <1>2, <1>3, <1>4, <1>5, <1>6, <1>7
     DEF Step, Bypass, LoadHit, LoadInvalid, LoadMiss, PollMiss, Touch, SemanticHit,
         SemanticMiss, TouchDoc, Acquire, Ping, WaitOver, Compute, Record, Release, Throw, redis

\* A request computes once, and what is good is not computed again.
LEMMA GoodIsKept ==
  ASSUME Shape, Told, NEW r \in Requests, Step(r)
  PROVE  /\ GoodStays
         /\ \A o \in Requests : outcome[o] = "good" => born'[o] = born[o]
         /\ \A o \in Requests : outcome'[o] # "none" => pc'[o] \in Past
<1>1. CASE Compute(r)
  <2>1. pc[r] = "compute" /\ pc'[r] \in Past
    BY <1>1 DEF Compute, Goto, Past, Shape, TypeOK
  <2>2. outcome[r] = "none"
    BY <2>1 DEF Told, ComputeOnce, Past
  <2> QED
    BY <2>1, <2>2, StepMoves DEF GoodStays, Told, ComputeOnce
<1>2. CASE ~Compute(r)
  <2>1. UNCHANGED <<born, outcome>> /\ \A q \in Requests \ {r} : pc'[q] = pc[q]
    BY <1>2, StepMoves
  <2>2. pc[r] \in Past => pc'[r] \in Past
    BY <1>2 DEF Step, Bypass, LoadHit, LoadInvalid, LoadMiss, PollMiss, Discard, Touch, SemanticHit,
         SemanticWeed, SemanticMiss, TouchDoc, Acquire, Ping, WaitOver, StoreSet,
         StoreTtl, Index, IndexTtl, Record, Release, Throw, AfterStore, AfterBreak, calls, Goto, Past, Shape, TypeOK
  <2> QED
    BY <2>1, <2>2 DEF GoodStays, Told, ComputeOnce
<1> QED
  BY <1>1, <1>2

LEMMA StepTold ==
  ASSUME Shape, Shape', Told, NEW r \in Requests, Step(r)
  PROVE  Told'
<1>1. UNCHANGED asks /\ GoodStays /\ Keys' = Keys /\ Kept' = Kept
  BY StepMoves, GoodIsKept, AsksStay
<1>2. \A o \in Requests : outcome'[o] # "none" => pc'[o] \in Past
  BY GoodIsKept
<1>3. ASSUME NEW k \in Keys, NEW f \in Kept, store'[k] = f
      PROVE  \E e \in Kept : Same(e, f) /\ True(e) /\ Keyed(e)
  <2>1. CASE store[k] = f
    BY <2>1, SameFacts DEF Told, EntriesTrue
  <2>2. CASE (StoreSet(r) \/ Index(r)) /\ held[r] = f
    <3>1. pc[r] # "touchdoc" /\ pc[r] # "unavailable"
      BY <2>2 DEF StoreSet, Index
    <3> QED
      BY <2>2, <3>1, SameFacts DEF Told, HeldTrue
  <2>3. CASE \E e \in Kept, n \in {ExactTtl, SemanticTtl} : store[k] = e /\ f = [e EXCEPT !.left = n]
    <3>1. PICK e \in Kept, n \in {ExactTtl, SemanticTtl} : store[k] = e /\ f = [e EXCEPT !.left = n]
      BY <2>3
    <3>2. n \in Nat
      OBVIOUS
    <3>3. Same(e, f) /\ True(e) /\ Keyed(e)
      BY <3>1, <3>2, SameFacts DEF Told, EntriesTrue
    <3> QED
      BY <3>3
  <2> QED
    BY <1>3, <2>1, <2>2, <2>3, StoreMoves
<1> DEFINE StaysHeld(q) == \/ pc'[q] = "unavailable"
                           \/ (pc'[q] = "touchdoc" <=> pc[q] = "touchdoc") /\ pc[q] # "unavailable"
                           \/ pc'[q] = pc[q]
<1>4. ASSUME NEW q \in Requests, NEW f \in Kept, held'[q] = f
      PROVE  True(f)' /\ IF pc'[q] = "touchdoc" THEN Reusable(f, q)
                            ELSE pc'[q] # "unavailable" => Keyed(f)
  <2>1. CASE held[q] = f /\ StaysHeld(q)
    BY <1>1, <2>1, TrueStays DEF Told, HeldTrue
  <2>2. CASE q = r /\ SemanticHit(r)
    <3>1. PICK k \in Documents : /\ Reusable(store[k], r)
                                 /\ held' = [held EXCEPT ![r] = [store[k] EXCEPT !.key = k]]
      BY <2>2 DEF SemanticHit
    <3>2. k \in Keys /\ store[k] \in Kept
      BY EntryFacts, KeyFacts DEF Documents, Has, Shape, TypeOK
    <3> DEFINE e == store[k]
    <3>3. True(e) /\ e \in Kept /\ f = [e EXCEPT !.key = k] /\ Reusable(e, r)
      BY <1>4, <2>2, <3>1, <3>2 DEF Told, EntriesTrue, Shape, TypeOK
    <3> HIDE DEF e
    <3>4. /\ f.by = e.by /\ f.identity = e.identity /\ f.version = e.version /\ f.model = e.model
          /\ f.signature = e.signature
      BY <3>3 DEF Kept
    <3>5. True(f) /\ Reusable(f, r)
      BY <3>3, <3>4 DEF True, Reusable, SameAnalysis
    <3>6. pc'[r] = "touchdoc"
      BY <2>2 DEF SemanticHit, Goto, Shape, TypeOK
    <3> QED
      BY <1>1, <2>2, <3>5, <3>6, TrueStays
  <2>3. CASE q = r /\ TouchDoc(r)
    <3>1. /\ held' = [held EXCEPT ![r] = Promoted(held[r], r)] /\ held[r] \in Kept
          /\ pc[r] = "touchdoc" /\ pc'[r] = "store"
      BY <2>3 DEF TouchDoc, Goto, Shape, TypeOK
    <3>2. True(held[r]) /\ Reusable(held[r], r)
      BY <3>1 DEF Told, HeldTrue
    <3>3. f = Promoted(held[r], r)
      BY <1>4, <2>3, <3>1 DEF Shape, TypeOK
    <3>4. True(f) /\ Keyed(f)
      BY <3>1, <3>2, <3>3, PromotedIsTrue DEF Shape, TypeOK
    <3> QED
      BY <1>1, <2>3, <3>1, <3>4, TrueStays
  <2>4. CASE q = r /\ Compute(r) /\ held'[r] # held[r]
    <3>1. /\ held' = [held EXCEPT ![r] = Entry(asks[r], r)] /\ pc' = [pc EXCEPT ![r] = "store"]
          /\ outcome' = [outcome EXCEPT ![r] = "good"]
      BY <2>4 DEF Compute, Goto
    <3>2. f = Entry(asks[r], r) /\ pc'[r] = "store" /\ outcome'[r] = "good"
      BY <1>4, <2>4, <3>1 DEF Shape, TypeOK
    <3>3. /\ f.by = r /\ f.version = asks[r].version /\ f.model = asks[r].model
          /\ f.signature = asks[r].signature /\ f.identity = asks[r].identity
          /\ f.key = ExactKey(asks[r])
      BY <3>2 DEF Entry
    <3>4. \A p \in Requests : asks[p].identity = asks[r].identity => asks[p].signature = asks[r].signature
      BY CacheAssumption DEF Shape, TypeOK
    <3>5. True(f)'
      BY <1>1, <3>2, <3>3, <3>4 DEF True
    <3>6. Keyed(f)
      BY <3>3 DEF Keyed, ExactKey
    <3> QED
      BY <2>4, <3>2, <3>5, <3>6
  <2>5. \/ held[q] = f /\ StaysHeld(q)
        \/ q = r /\ SemanticHit(r)
        \/ q = r /\ TouchDoc(r)
        \/ q = r /\ Compute(r) /\ held'[r] # held[r]
    <3>1. CASE q # r
      BY <1>4, <3>1, StepMoves
    <3>2. CASE q = r /\ Compute(r)
      <4>1. pc[r] = "compute" /\ pc'[r] # "touchdoc"
        BY <3>2 DEF Compute, Goto, Shape, TypeOK
      <4> QED
        BY <1>4, <3>2, <4>1
    <3>3. CASE q = r /\ ~SemanticHit(r) /\ ~TouchDoc(r) /\ ~Compute(r)
      <4>1. held' = held
        BY <3>3, StepMoves
      <4>2. StaysHeld(r)
        <5>1. CASE Throw(r)
          <6>1. /\ pc'[r] = "unavailable" \/ (pc'[r] = "abandon" /\ outcome[r] # "none")
                /\ pc[r] # "unavailable"
            BY <5>1, ThrowFacts DEF Goto, Shape, TypeOK
          <6>2. outcome[r] # "none" => pc[r] # "touchdoc"
            BY DEF Told, ComputeOnce, Past
          <6> QED
            BY <6>1, <6>2
        <5>2. CASE ~Throw(r)
          BY <3>3, <5>2
             DEF Step, Bypass, LoadHit, LoadInvalid, LoadMiss, PollMiss, Discard, Touch,
                 SemanticWeed, SemanticMiss, Acquire, Ping, WaitOver, StoreSet, StoreTtl, Index,
                 IndexTtl, Record, Release, AfterStore, AfterBreak, calls, Goto, Shape, TypeOK
        <5> QED
          BY <5>1, <5>2
      <4> QED
        BY <1>4, <3>3, <4>1, <4>2
    <3> QED
      BY <3>1, <3>2, <3>3
  <2> QED
    BY <2>1, <2>2, <2>3, <2>4, <2>5
<1>5. ASSUME NEW q \in Requests, NEW o \in Requests, answer'[q] = o, o # q
      PROVE  answer[q] = o \/ Fits(o, q)
  <2>1. CASE answer'[q] = answer[q]
    BY <1>5, <2>1
  <2>2. CASE q = r /\ LoadHit(r)
    <3>1. store[KeyOf(r)] \in Kept /\ KeyOf(r) \in Keys
      BY <2>2, EntryFacts, KeyFacts DEF LoadHit, Has, Shape, TypeOK
    <3> DEFINE e == store[KeyOf(r)]
    <3>2. e \in Kept /\ True(e) /\ Keyed(e) /\ About(e, r) /\ o = e.by
      BY <1>5, <2>2, <3>1 DEF LoadHit, Valid, Told, EntriesTrue, Shape, TypeOK
    <3> HIDE DEF e
    <3> QED
      BY <2>2, <3>2, ExactFits
  <2>3. CASE q = r /\ SemanticHit(r)
    <3>1. PICK k \in Documents : Reusable(store[k], r) /\ answer' = [answer EXCEPT ![r] = store[k].by]
      BY <2>3 DEF SemanticHit
    <3>2. k \in Keys /\ store[k] \in Kept
      BY EntryFacts, KeyFacts DEF Documents, Has, Shape, TypeOK
    <3> DEFINE e == store[k]
    <3>3. e \in Kept /\ True(e) /\ Reusable(e, r) /\ o = e.by
      BY <1>5, <2>3, <3>1, <3>2 DEF Told, EntriesTrue, Shape, TypeOK
    <3> HIDE DEF e
    <3> QED
      BY <2>3, <3>3, LikeFits
  <2>4. CASE q = r /\ (Bypass(r) \/ Compute(r))
    BY <1>5, <2>4 DEF Bypass, Compute, Shape, TypeOK
  <2> QED
    BY <2>1, <2>2, <2>3, <2>4, StepMoves
       DEF Step, LoadInvalid, LoadMiss, PollMiss, Discard, Touch, SemanticWeed, SemanticMiss,
           TouchDoc, Acquire, Ping, WaitOver, StoreSet, StoreTtl, Index, IndexTtl, Record, Release, Throw, calls
<1>6. answer' \in [Requests -> Requests \cup {Nobody}]
  BY DEF Shape, TypeOK
<1> QED
  BY <1>1, <1>2, <1>3, <1>4, <1>5, <1>6, ToldStays

\* A step of a request takes no time, and what it says of an entry's age is as it was.
LEMMA AgeStays ==
  ASSUME Shape, Told, NEW r \in Requests, Step(r), NEW e \in Kept, True(e)
  PROVE  /\ born'[e.by] = born[e.by] /\ UNCHANGED now
         /\ Fresh(e)' <=> Fresh(e)
         /\ DocOK(e)' <=> DocOK(e)
         /\ ExactOK(e)' <=> ExactOK(e)
<1>1. e.by \in Requests /\ outcome[e.by] = "good"
  BY EntryFacts DEF True
<1>2. born'[e.by] = born[e.by] /\ UNCHANGED now
  BY <1>1, StepMoves, GoodIsKept
<1> QED
  BY <1>2 DEF Fresh, DocOK, ExactOK, Within

\* Age is its author's: another key or lifetime changes nothing.
LEMMA AgeIsOfTheAuthor ==
  ASSUME NEW e \in Kept, NEW f \in Kept, f.by = e.by
  PROVE  Fresh(e) => Fresh(f)
BY DEF Fresh, Within

LEMMA StepOwn ==
  ASSUME Shape, Shape', OwnIsNew, Told, NEW r \in Requests, Step(r)
  PROVE  OwnIsNew'
<1>1. UNCHANGED <<asks, now>> /\ Kept' = Kept /\ pc \in [Requests -> Labels]
  BY StepMoves, AsksStay DEF Shape, TypeOK
<1>2. ASSUME NEW q \in Requests, q # r
      PROVE  /\ pc'[q] \in Storing /\ held'[q].by = q => born'[q] = now'
             /\ pc'[q] \in {"index", "indexTtl"} => held'[q].by = q
             /\ \A e \in Kept : pc'[q] \in Storing /\ held'[q] = e => e.left = NoTtl
  BY <1>1, <1>2, StepMoves DEF OwnIsNew
<1>3. /\ pc'[r] \in Storing /\ held'[r].by = r => born'[r] = now'
      /\ pc'[r] \in {"index", "indexTtl"} => held'[r].by = r
      /\ \A e \in Kept : pc'[r] \in Storing /\ held'[r] = e => e.left = NoTtl
  <2>1. CASE SemanticHit(r)
    <3>1. pc'[r] = "touchdoc"
      BY <2>1 DEF SemanticHit, Goto, Shape, TypeOK
    <3> QED
      BY <3>1 DEF Storing
  <2>2. CASE TouchDoc(r)
    <3>1. pc[r] = "touchdoc" /\ pc'[r] = "store" /\ held'[r] = Promoted(held[r], r) /\ held[r] \in Kept
      BY <2>2 DEF TouchDoc, Goto, Shape, TypeOK
    <3>2. held'[r].by = held[r].by /\ held'[r].left = NoTtl
      BY <3>1 DEF Promoted, Kept
    <3>3. outcome[held[r].by] = "good" /\ outcome[r] = "none"
      BY <3>1, <2>2 DEF Told, HeldTrue, True, ComputeOnce, Past
    <3> QED
      BY <3>1, <3>2, <3>3
  <2>3. CASE Compute(r)
    <3>1. CASE pc' = [pc EXCEPT ![r] = "store"] /\ held' = [held EXCEPT ![r] = Entry(asks[r], r)]
      <4>1. pc'[r] = "store" /\ held'[r] = Entry(asks[r], r) /\ born'[r] = now
        BY <2>3, <3>1 DEF Compute, Shape, TypeOK
      <4>2. held'[r].by = r /\ held'[r].left = NoTtl
        BY <4>1 DEF Entry
      <4> QED
        BY <1>1, <4>1, <4>2
    <3>2. CASE \E l \in {"record", "release"} : pc' = [pc EXCEPT ![r] = l]
      <4>1. pc'[r] \in {"record", "release"}
        BY <1>1, <3>2
      <4> QED
        BY <4>1 DEF Storing
    <3> QED
      BY <2>3, <3>1, <3>2 DEF Compute, Goto
  <2>4. CASE ~SemanticHit(r) /\ ~TouchDoc(r) /\ ~Compute(r)
    <3>1. UNCHANGED <<held, born>>
      BY <2>4, StepMoves
    <3>2. pc'[r] \in Storing => pc[r] \in Storing
      BY <1>1, <2>4
         DEF Step, Bypass, LoadHit, LoadInvalid, LoadMiss, PollMiss, Discard, Touch,
             SemanticWeed, SemanticMiss, Acquire, Ping, WaitOver, StoreSet,
             StoreTtl, Index, IndexTtl, Record, Release, Throw, AfterStore, AfterBreak, calls, Goto, Storing
    <3>3. pc'[r] \in {"index", "indexTtl"} =>
             pc[r] \in {"index", "indexTtl"} \/ held[r].by = r
      BY <1>1, <2>4
         DEF Step, Bypass, LoadHit, LoadInvalid, LoadMiss, PollMiss, Discard, Touch,
             SemanticWeed, SemanticMiss, Acquire, Ping, WaitOver, StoreSet,
             StoreTtl, Index, IndexTtl, Record, Release, Throw, AfterStore, AfterBreak, calls, Goto
    <3> QED
      BY <1>1, <3>1, <3>2, <3>3 DEF OwnIsNew
  <2> QED
    BY <2>1, <2>2, <2>3, <2>4
<1> QED
  BY <1>1, <1>2, <1>3 DEF OwnIsNew, Storing

LEMMA StepYoung ==
  ASSUME Shape, Told, Young, OwnIsNew, NEW r \in Requests, Step(r)
  PROVE  Young'
<1> SUFFICES ASSUME circuit' = "new"
             PROVE  StoreYoung'
  BY DEF Young
<1>0. StoreYoung
  <2>1. Next
    BY DEF Next
  <2> QED
    BY <2>1, CircuitFacts DEF Young
<1>1. /\ UNCHANGED <<asks, now>> /\ Kept' = Kept /\ Keys' = Keys /\ DocKeys' = DocKeys
      /\ pc \in [Requests -> Labels]
      /\ \A q \in Requests : /\ KeyOf(q)' = KeyOf(q) /\ KeyOf(q) \in Keys \ DocKeys
                             /\ DocKey(asks[q])' = DocKey(asks[q])
                             /\ DocKey(asks[q]) \in Keys \cap DocKeys
  BY StepMoves, AsksStay, KeyFacts DEF Shape, TypeOK, DocKeys
<1>2. /\ \A k \in Keys, e \in Kept : store[k] = e => True(e)
      /\ \A q \in Requests, e \in Kept : held[q] = e => True(e)
  BY DEF Told, EntriesTrue, HeldTrue
<1>3. \A e \in Kept, n \in Nat : /\ [e EXCEPT !.left = n] \in Kept /\ [e EXCEPT !.left = n].left = n
                                 /\ [e EXCEPT !.left = n].by = e.by
                                 /\ True(e) => True([e EXCEPT !.left = n])
  <2> SUFFICES ASSUME NEW e \in Kept, NEW n \in Nat, NEW f, f = [e EXCEPT !.left = n]
               PROVE  f \in Kept /\ f.left = n /\ f.by = e.by /\ (True(e) => True(f))
    OBVIOUS
  <2>1. f = [e EXCEPT !.left = n]
    OBVIOUS
  <2>2. f \in Kept /\ f.left = n
    BY ONLY <2>1, EntriesStay
  <2>3. Same(e, f)
    BY ONLY <2>1, SameFacts
  <2>4. f.by = e.by
    BY ONLY <2>3 DEF Same
  <2>5. True(e) => True(f)
    BY ONLY <2>2, <2>3, SameIsTrue
  <2> QED
    BY ONLY <2>2, <2>4, <2>5
<1>4. now \in Nat /\ \A e \in Kept : e.left \in Nat /\ born[e.by] \in Nat /\ e.by \in Requests
  BY EntryFacts DEF Shape, TypeOK
<1>5. \* what is put into the store
      \A k \in Keys, f \in Kept : store'[k] = f =>
         /\ True(f)
         /\ \/ store[k] = f
            \/ /\ pc[r] = "store" /\ StoreSet(r) /\ k = KeyOf(r) /\ held[r] = f
               /\ Fresh(f) /\ f.left = NoTtl
            \/ /\ pc[r] = "index" /\ Index(r) /\ k = DocKey(asks[r]) /\ held[r] = f
               /\ Fresh(f) /\ f.left = NoTtl /\ born[f.by] = now
            \/ /\ pc[r] = "expire" /\ k = KeyOf(r) /\ Fresh(f) /\ f.left = ExactTtl
            \/ /\ pc[r] = "indexTtl" /\ k = DocKey(asks[r]) /\ born[f.by] = now
               /\ f.left = SemanticTtl
  <2> SUFFICES ASSUME NEW k \in Keys, NEW f \in Kept, store'[k] = f
               PROVE  /\ True(f)
                      /\ \/ store[k] = f
                         \/ /\ pc[r] = "store" /\ StoreSet(r) /\ k = KeyOf(r) /\ held[r] = f
                            /\ Fresh(f) /\ f.left = NoTtl
                         \/ /\ pc[r] = "index" /\ Index(r) /\ k = DocKey(asks[r]) /\ held[r] = f
                            /\ Fresh(f) /\ f.left = NoTtl /\ born[f.by] = now
                         \/ /\ pc[r] = "expire" /\ k = KeyOf(r) /\ Fresh(f) /\ f.left = ExactTtl
                         \/ /\ pc[r] = "indexTtl" /\ k = DocKey(asks[r]) /\ born[f.by] = now
                            /\ f.left = SemanticTtl
    OBVIOUS
  <2>1. CASE store[k] = f
    BY <1>2, <2>1
  <2>2. CASE StoreSet(r) /\ k = KeyOf(r) /\ held[r] = f
    <3>1. pc[r] = "store"
      BY <2>2 DEF StoreSet
    <3>2. Fresh(f) /\ f.left = NoTtl /\ True(f)
      BY <1>0, <1>2, <2>2, <3>1 DEF StoreYoung, OwnIsNew, Storing
    <3> QED
      BY <2>2, <3>1, <3>2
  <2>3. CASE Index(r) /\ k = DocKey(asks[r]) /\ held[r] = f
    <3>1. pc[r] = "index"
      BY <2>3 DEF Index
    <3>2. Fresh(f) /\ f.left = NoTtl /\ True(f) /\ f.by = r /\ born[r] = now
      BY <1>0, <1>2, <2>3, <3>1 DEF StoreYoung, OwnIsNew, Storing
    <3> QED
      BY <2>3, <3>1, <3>2
  <2>4. CASE StoreTtl(r) /\ k = KeyOf(r) /\ \E e \in Kept : store[k] = e /\ f = [e EXCEPT !.left = ExactTtl]
    <3>1. PICK e \in Kept : store[k] = e /\ f = [e EXCEPT !.left = ExactTtl]
      BY <2>4
    <3>2. pc[r] = "expire" /\ ExactTtl \in Nat
      BY <2>4 DEF StoreTtl
    <3>3. True(e) /\ Fresh(e)
      BY <1>0, <1>2, <2>4, <3>1, <3>2 DEF StoreYoung
    <3>4. f.left = ExactTtl /\ f.by = e.by /\ True(f)
      BY <1>3, <3>1, <3>2, <3>3
    <3>5. Fresh(f)
      BY <3>3, <3>4, AgeIsOfTheAuthor
    <3> QED
      BY <2>4, <3>2, <3>4, <3>5
  <2>5. CASE IndexTtl(r) /\ k = DocKey(asks[r])
             /\ \E e \in Kept : store[k] = e /\ f = [e EXCEPT !.left = SemanticTtl]
    <3>1. PICK e \in Kept : store[k] = e /\ f = [e EXCEPT !.left = SemanticTtl]
      BY <2>5
    <3>2. pc[r] = "indexTtl" /\ SemanticTtl \in Nat
      BY <2>5 DEF IndexTtl
    <3>3. True(e) /\ born[e.by] = now
      BY <1>0, <1>2, <2>5, <3>1, <3>2 DEF StoreYoung
    <3>4. f.left = SemanticTtl /\ f.by = e.by /\ True(f)
      BY <1>3, <3>1, <3>2, <3>3
    <3> QED
      BY <2>5, <3>2, <3>3, <3>4
  <2> QED
    BY <2>1, <2>2, <2>3, <2>4, <2>5, StoreMoves
<1>6. ASSUME NEW k \in Keys, NEW f \in Kept, store'[k] = f
      PROVE  IF k \in DocKeys THEN DocOK(f)' ELSE ExactOK(f)'
  <2>1. True(f)
    BY <1>5, <1>6
  <2>2. IF k \in DocKeys THEN DocOK(f) ELSE ExactOK(f)
    <3>1. CASE store[k] = f
      BY <1>0, <3>1 DEF StoreYoung
    <3>2. CASE k \notin DocKeys /\ Fresh(f) /\ f.left = NoTtl
      BY <3>2 DEF ExactOK
    <3>3. CASE k \notin DocKeys /\ Fresh(f) /\ f.left = ExactTtl
      BY <1>4, <3>3 DEF ExactOK, Fresh, Within
    <3>4. CASE k \in DocKeys /\ Fresh(f) /\ f.left = NoTtl
      BY <1>4, <3>4 DEF DocOK, Fresh, Within, NoTtl
    <3>5. CASE k \in DocKeys /\ born[f.by] = now /\ f.left = SemanticTtl
      BY <1>4, <3>5 DEF DocOK, Fresh, Within
    <3> QED
      BY <1>1, <1>5, <1>6, <3>1, <3>2, <3>3, <3>4, <3>5
  <2> QED
    BY <2>1, <2>2, AgeStays
<1>7. ASSUME NEW q \in Requests, NEW f \in Kept, pc'[q] = "expire", store'[KeyOf(q)] = f
      PROVE  Fresh(f)'
  <2>1. CASE pc[q] = "expire" /\ store[KeyOf(q)] = f
    <3>1. Fresh(f)
      BY <1>0, <2>1 DEF StoreYoung
    <3> QED
      BY <1>1, <1>2, <2>1, <3>1, AgeStays
  <2>2. CASE store[KeyOf(q)] # f
    <3>1. True(f) /\ Fresh(f)
      BY <1>1, <1>5, <1>7, <2>2
    <3> QED
      BY <3>1, AgeStays
  <2>3. CASE pc[q] # "expire"
    <3>1. q = r /\ StoreSet(r) /\ pc[r] = "store"
      <4>1. q = r
        BY <1>7, <2>3, StepMoves
      <4> QED
        BY <1>1, <1>7, <2>3, <4>1
           DEF Step, Bypass, LoadHit, LoadInvalid, LoadMiss, PollMiss, Discard, Touch, SemanticHit,
               SemanticWeed, SemanticMiss, TouchDoc, Acquire, Ping, WaitOver, Compute, StoreSet,
               StoreTtl, Index, IndexTtl, Record, Release, Throw, AfterStore, AfterBreak, calls, Goto
    <3>2. Reached /\ store' = [store EXCEPT ![KeyOf(r)] = held[r]]
      BY <1>1, <1>7, <3>1 DEF StoreSet, AfterStore, AfterBreak, Goto
    <3>3. held[r] = f
      BY <1>1, <1>7, <3>1, <3>2 DEF Shape, TypeOK
    <3>4. Fresh(f) /\ True(f)
      BY <1>0, <1>2, <3>1, <3>3 DEF StoreYoung
    <3> QED
      BY <3>4, AgeStays
  <2> QED
    BY <2>1, <2>2, <2>3
<1>8. ASSUME NEW q \in Requests, NEW f \in Kept, pc'[q] = "indexTtl", store'[DocKey(asks[q])] = f
      PROVE  born'[f.by] = now'
  <2>1. CASE pc[q] = "indexTtl" /\ store[DocKey(asks[q])] = f
    <3>1. born[f.by] = now
      BY <1>0, <2>1 DEF StoreYoung
    <3>2. True(f)
      BY <1>1, <1>2, <2>1
    <3> QED
      BY <3>1, <3>2, AgeStays
  <2>2. CASE store[DocKey(asks[q])] # f
    <3>1. DocKey(asks[q]) # KeyOf(r) /\ DocKey(asks[q]) \in Keys
      BY <1>1
    <3>2. True(f) /\ born[f.by] = now
      BY <1>5, <1>8, <2>2, <3>1
    <3> QED
      BY <3>2, AgeStays
  <2>3. CASE pc[q] # "indexTtl"
    <3>1. q = r /\ Index(r) /\ pc[r] = "index"
      <4>1. q = r
        BY <1>8, <2>3, StepMoves
      <4> QED
        BY <1>1, <1>8, <2>3, <4>1
           DEF Step, Bypass, LoadHit, LoadInvalid, LoadMiss, PollMiss, Discard, Touch, SemanticHit,
               SemanticWeed, SemanticMiss, TouchDoc, Acquire, Ping, WaitOver, Compute, StoreSet,
               StoreTtl, Index, IndexTtl, Record, Release, Throw, AfterStore, AfterBreak, calls, Goto
    <3>2. store' = [store EXCEPT ![DocKey(asks[r])] = held[r]]
      BY <1>1, <1>8, <3>1 DEF Index, Goto
    <3>3. held[r] = f
      BY <1>1, <1>8, <3>1, <3>2 DEF Shape, TypeOK
    <3>4. True(f) /\ f.by = r /\ born[r] = now
      BY <1>2, <3>1, <3>3 DEF OwnIsNew, Storing
    <3> QED
      BY <3>4, AgeStays
  <2> QED
    BY <2>1, <2>2, <2>3
<1>9. ASSUME NEW q \in Requests, NEW f \in Kept,
             pc'[q] \in {"touchdoc", "store", "expire", "index"}, held'[q] = f
      PROVE  Fresh(f)'
  <2>1. CASE pc[q] \in {"touchdoc", "store", "expire", "index"} /\ held[q] = f
    <3>1. Fresh(f)
      BY <1>0, <2>1 DEF StoreYoung
    <3> QED
      BY <1>2, <2>1, <3>1, AgeStays
  <2>2. CASE q = r /\ SemanticHit(r)
    <3>1. PICK k \in Documents : held' = [held EXCEPT ![r] = [store[k] EXCEPT !.key = k]]
      BY <2>2 DEF SemanticHit
    <3>2. k \in Keys \cap DocKeys /\ store[k] \in Kept
      BY EntryFacts, KeyFacts DEF Documents, Has, Shape, TypeOK, DocKeys
    <3>3. f = [store[k] EXCEPT !.key = k]
      BY <1>9, <2>2, <3>1 DEF Shape, TypeOK
    <3> PICK e \in Kept : store[k] = e
      BY <3>2
    <3>5. True(e) /\ Fresh(e) /\ f = [e EXCEPT !.key = k]
      BY <1>0, <1>2, <3>2, <3>3 DEF StoreYoung, DocOK
    <3>4. f.by = e.by /\ Fresh(e)'
      BY <3>5, AgeStays DEF Kept
    <3> QED
      BY <3>4 DEF Fresh, Within
  <2>3. CASE q = r /\ TouchDoc(r)
    <3>1. held' = [held EXCEPT ![r] = Promoted(held[r], r)] /\ held[r] \in Kept /\ pc[r] = "touchdoc"
      BY <2>3 DEF TouchDoc, Shape, TypeOK
    <3>2. PICK e \in Kept : held[r] = e
      BY <3>1
    <3>3. True(e) /\ Fresh(e)
      BY <1>0, <1>2, <3>1, <3>2 DEF StoreYoung
    <3>4. f = Promoted(e, r)
      BY <1>9, <2>3, <3>1, <3>2 DEF Shape, TypeOK
    <3>5. f.by = e.by /\ Fresh(e)'
      BY <3>3, <3>4, AgeStays DEF Promoted, Kept
    <3> QED
      BY <3>5 DEF Fresh, Within
  <2>4. CASE q = r /\ Compute(r) /\ pc'[r] = "store"
    <3>1. /\ held' = [held EXCEPT ![r] = Entry(asks[r], r)]
          /\ born' = [born EXCEPT ![r] = now]
      BY <1>1, <2>4 DEF Compute, Goto
    <3>2. f.by = r /\ born'[r] = now
      BY <1>9, <2>4, <3>1 DEF Entry, Shape, TypeOK
    <3> QED
      BY <1>1, <1>4, <3>2 DEF Fresh, Within
  <2>5. \/ pc[q] \in {"touchdoc", "store", "expire", "index"} /\ held[q] = f
        \/ q = r /\ SemanticHit(r)
        \/ q = r /\ TouchDoc(r)
        \/ q = r /\ Compute(r) /\ pc'[r] = "store"
    <3>1. CASE q # r
      BY <1>9, <3>1, StepMoves
    <3>2. CASE q = r /\ Compute(r)
      BY <1>1, <1>9, <3>2 DEF Compute, Goto
    <3>3. CASE q = r /\ ~SemanticHit(r) /\ ~TouchDoc(r) /\ ~Compute(r)
      <4>1. held' = held
        BY <3>3, StepMoves
      <4>2. pc[r] \in {"touchdoc", "store", "expire", "index"}
        BY <1>1, <1>9, <3>3
           DEF Step, Bypass, LoadHit, LoadInvalid, LoadMiss, PollMiss, Discard, Touch,
               SemanticWeed, SemanticMiss, Acquire, Ping, WaitOver, StoreSet,
               StoreTtl, Index, IndexTtl, Record, Release, Throw, AfterStore, AfterBreak, calls, Goto
      <4> QED
        BY <1>9, <3>3, <4>1, <4>2
    <3> QED
      BY <3>1, <3>2, <3>3
  <2> QED
    BY <2>1, <2>2, <2>3, <2>4, <2>5
<1> QED
  BY <1>1, <1>6, <1>7, <1>8, <1>9 DEF StoreYoung

\* The world changes no request, and of an entry only whether it is whole and what is left to it.
LEMMA WorldMoves ==
  ASSUME Shape, World
  PROVE  /\ UNCHANGED <<asks, pc, held, answer, outcome, born>>
         /\ ~Tick => UNCHANGED now
         /\ \A k \in Keys, f \in Kept : store'[k] = f => \E e \in Kept :
               /\ store[k] = e /\ Same(e, f)
               /\ IF Tick THEN e.left # 1 /\ f.left = IF e.left = NoTtl THEN NoTtl ELSE e.left - 1
                          ELSE f.left = e.left
<1>0. store \in [Keys -> {NoEntry} \cup Kept] /\ NoEntry \notin Kept
  BY EntryFacts DEF Shape, TypeOK
<1>1. UNCHANGED <<asks, pc, held, answer, outcome, born>> /\ (~Tick => UNCHANGED now)
  BY DEF World, GoDown, ComeUp, CoolDown, ClearScan, ClearUnlink, Tick, Lapse, Damage,
         Fault, scene, redis, calls, world
<1>2. ASSUME NEW k \in Keys, NEW f \in Kept, store'[k] = f
      PROVE  \E e \in Kept :
                /\ store[k] = e /\ Same(e, f)
                /\ IF Tick THEN e.left # 1 /\ f.left = IF e.left = NoTtl THEN NoTtl ELSE e.left - 1
                           ELSE f.left = e.left
  <2>1. CASE Tick
    <3>1. Has(k) /\ f = Aged(store[k])
      BY <1>0, <1>2, <2>1 DEF Tick, Has
    <3>2. PICK e \in Kept : store[k] = e
      BY <1>0, <3>1 DEF Has
    <3>3. f = Aged(e) /\ e.left \in Nat
      BY <3>1, <3>2, EntryFacts
    <3>4. e.left # 1 /\ f = [e EXCEPT !.left = IF e.left = NoTtl THEN NoTtl ELSE e.left - 1]
      BY <1>0, <3>3 DEF Aged, Kept
    <3> DEFINE n == IF e.left = NoTtl THEN NoTtl ELSE e.left - 1
    <3>5. n \in Nat
      BY <3>3 DEF NoTtl
    <3>6. f = [e EXCEPT !.left = n]
      BY <3>4
    <3> HIDE DEF n
    <3>7. f.left = n /\ Same(e, f)
      BY <3>5, <3>6, EntriesStay, SameFacts
    <3> QED
      BY <2>1, <3>2, <3>4, <3>7 DEF n
  <2>2. CASE ~Tick /\ store'[k] = store[k]
    BY <1>2, <2>2, SameFacts
  <2>3. CASE ~Tick /\ \E j \in Keys : Damage(j)
    <3>1. PICK j \in Keys : Has(j) /\ store' = [store EXCEPT ![j].sound = FALSE]
      BY <2>3 DEF Damage
    <3>2. CASE j = k
      <4>1. store[k] \in Kept /\ f = [store[k] EXCEPT !.sound = FALSE]
        BY <1>0, <1>2, <3>1, <3>2 DEF Has
      <4>2. PICK e \in Kept : store[k] = e
        BY <4>1
      <4>3. f = [e EXCEPT !.sound = FALSE]
        BY <4>1, <4>2
      <4>4. Same(e, f) /\ f.left = e.left
        BY <4>3, SameFacts DEF Kept
      <4> QED
        BY <2>3, <4>2, <4>4
    <3>3. CASE j # k
      BY <1>0, <1>2, <2>3, <3>1, <3>3, SameFacts
    <3> QED
      BY <3>2, <3>3
  <2>4. store'[k] = store[k] \/ Tick \/ \E j \in Keys : Damage(j)
    BY <1>0, <1>2 DEF World, GoDown, ComeUp, CoolDown, ClearScan, ClearUnlink, Lapse, redis
  <2> QED
    BY <2>1, <2>2, <2>3, <2>4
<1> QED
  BY <1>1, <1>2

LEMMA WorldTold ==
  ASSUME Shape, Shape', Told, World
  PROVE  Told'
<1>1. UNCHANGED <<asks, pc, held, answer, outcome, born>> /\ GoodStays
  BY WorldMoves DEF GoodStays
<1>2. \A k \in Keys, f \in Kept : store'[k] = f => \E e \in Kept : Same(e, f) /\ True(e) /\ Keyed(e)
  BY WorldMoves DEF Told, EntriesTrue
<1>3. \A q \in Requests, f \in Kept : held'[q] = f =>
         True(f)' /\ IF pc'[q] = "touchdoc" THEN Reusable(f, q)
                            ELSE pc'[q] # "unavailable" => Keyed(f)
  BY <1>1, TrueStays DEF Told, HeldTrue
<1>4. /\ \A o \in Requests : outcome'[o] # "none" => pc'[o] \in Past
      /\ \A q, o \in Requests : answer'[q] = o /\ o # q => answer[q] = o \/ Fits(o, q)
      /\ answer' \in [Requests -> Requests \cup {Nobody}]
  BY <1>1 DEF Told, ComputeOnce, Shape, TypeOK
<1> QED
  BY <1>1, <1>2, <1>3, <1>4, ToldStays

\* While the clock moves nobody is storing, so that no entry is without a lifetime: each has one
\* unit of it less, or is gone.
LEMMA WorldYoung ==
  ASSUME Shape, Young, OwnIsNew, NoImmortalEntry, World
  PROVE  Young' /\ OwnIsNew'
<1>1. /\ UNCHANGED <<asks, pc, held, born>> /\ Kept' = Kept /\ Keys' = Keys /\ DocKeys' = DocKeys
      /\ \A q \in Requests : KeyOf(q)' = KeyOf(q) /\ DocKey(asks[q])' = DocKey(asks[q])
                             /\ KeyOf(q) \in Keys /\ DocKey(asks[q]) \in Keys
  BY WorldMoves, AsksStay, KeyFacts DEF DocKeys
<1>2. now \in Nat /\ (\A e \in Kept : e.left \in Nat /\ born[e.by] \in Nat /\ e.by \in Requests)
      /\ SemanticTtl \in Nat /\ ExactTtl \in Nat
  BY EntryFacts DEF Shape, TypeOK
<1>3. circuit' = "new" => circuit = "new" /\ StoreYoung
  <2>1. Next
    BY DEF Next
  <2> QED
    BY <2>1, CircuitFacts DEF Young
<1>4. CASE Tick
  <2>1. now' = now + 1 /\ \A q \in Requests : pc[q] \in {"load", "wait", "compute", "done", "unavailable"}
    BY <1>4 DEF Tick
  <2>2. OwnIsNew'
    BY <1>1, <2>1 DEF OwnIsNew, Storing
  <2>3. ASSUME circuit' = "new", NEW k \in Keys, NEW f \in Kept, store'[k] = f
        PROVE  IF k \in DocKeys THEN DocOK(f)' ELSE ExactOK(f)'
    <3>1. PICK e \in Kept : /\ store[k] = e /\ Same(e, f) /\ e.left # 1
                            /\ f.left = IF e.left = NoTtl THEN NoTtl ELSE e.left - 1
      BY <1>4, <2>3, WorldMoves
    <3>2. Has(k)
      BY <3>1, EntryFacts DEF Has
    <3>3. e.left # NoTtl
      <4>1. ~Lifetimed(k)
        BY <2>1 DEF Lifetimed
      <4> QED
        BY <1>3, <2>3, <3>1, <3>2, <4>1 DEF NoImmortalEntry
    <3>4. f.by = e.by /\ f.left = e.left - 1 /\ e.left \in Nat /\ e.left > 1
      BY <1>2, <3>1, <3>3 DEF Same, NoTtl
    <3>5. IF k \in DocKeys THEN DocOK(e) ELSE ExactOK(e)
      BY <1>3, <2>3, <3>1 DEF StoreYoung
    <3>6. CASE k \in DocKeys
      BY <1>1, <1>2, <2>1, <3>4, <3>5, <3>6 DEF DocOK, Fresh, Within
    <3>7. CASE k \notin DocKeys
      BY <1>1, <1>2, <2>1, <3>4, <3>5, <3>7 DEF ExactOK, NoTtl
    <3> QED
      BY <3>6, <3>7
  <2>4. circuit' = "new" => StoreYoung'
    BY <1>1, <2>1, <2>3 DEF StoreYoung
  <2> QED
    BY <2>2, <2>4 DEF Young
<1>5. CASE ~Tick
  <2>1. UNCHANGED now
    BY <1>5, WorldMoves
  <2>2. \A e \in Kept : /\ Fresh(e)' <=> Fresh(e)
                        /\ DocOK(e)' <=> DocOK(e)
                        /\ ExactOK(e)' <=> ExactOK(e)
    BY <1>1, <2>1 DEF Fresh, DocOK, ExactOK, Within
  <2>3. \A k \in Keys, f \in Kept : store'[k] = f =>
           \E e \in Kept : store[k] = e /\ f.left = e.left /\ f.by = e.by
    BY <1>5, WorldMoves DEF Same
  <2>4. \A e, f \in Kept : f.left = e.left /\ f.by = e.by =>
           /\ Fresh(e) => Fresh(f)
           /\ DocOK(e) => DocOK(f)
           /\ ExactOK(e) => ExactOK(f)
    BY DEF Fresh, DocOK, ExactOK, Within
  <2>5. OwnIsNew'
    BY <1>1, <2>1 DEF OwnIsNew
  <2>6. ASSUME circuit' = "new"
        PROVE  StoreYoung'
    <3>1. StoreYoung
      BY <1>3, <2>6
    <3>2. \A k \in Keys, f \in Kept : store'[k] = f => IF k \in DocKeys THEN DocOK(f)' ELSE ExactOK(f)'
      BY <2>2, <2>3, <2>4, <3>1 DEF StoreYoung
    <3>3. \A q \in Requests, f \in Kept : pc[q] = "expire" /\ store'[KeyOf(q)] = f => Fresh(f)'
      BY <1>1, <2>2, <2>3, <2>4, <3>1 DEF StoreYoung
    <3>4. \A q \in Requests, f \in Kept :
             pc[q] = "indexTtl" /\ store'[DocKey(asks[q])] = f => born'[f.by] = now'
      BY <1>1, <2>1, <2>3, <3>1 DEF StoreYoung
    <3>5. \A q \in Requests, e \in Kept :
             pc[q] \in {"touchdoc", "store", "expire", "index"} /\ held[q] = e => Fresh(e)'
      BY <2>2, <3>1 DEF StoreYoung
    <3> QED
      BY <1>1, <3>2, <3>3, <3>4, <3>5 DEF StoreYoung
  <2> QED
    BY <2>5, <2>6 DEF Young
<1> QED
  BY <1>4, <1>5

LEMMA RInvStays ==
  ASSUME IInv, IInv', RInv, [Next]_vars
  PROVE  RInv'
<1>1. ASSUME NEW r \in Requests, Step(r)
      PROVE  RInv'
  BY <1>1, StepTold, StepYoung, StepOwn DEF IInv, RInv
<1>2. CASE World
  BY <1>2, WorldTold, WorldYoung DEF IInv, RInv
<1>3. CASE UNCHANGED vars
  <2>1. UNCHANGED <<asks, store, circuit, pc, held, answer, outcome, born, now>>
    BY <1>3 DEF vars, scene, redis, calls, world
  <2>2. /\ Keys' = Keys /\ Kept' = Kept /\ DocKeys' = DocKeys
        /\ \A r \in Requests : KeyOf(r)' = KeyOf(r) /\ DocKey(asks[r])' = DocKey(asks[r])
    BY <2>1, AsksStay DEF DocKeys
  <2>3. Told'
    <3>1. \A e : (True(e)' <=> True(e)) /\ (Keyed(e)' <=> Keyed(e))
      BY ONLY <2>1 DEF True, Keyed
    <3>2. \A e, r : Reusable(e, r)' <=> Reusable(e, r)
      BY ONLY <2>1 DEF Reusable, SameAnalysis
    <3>3. \A o, r : Fits(o, r)' <=> Fits(o, r)
      BY ONLY <2>1 DEF Fits
    <3>4. ComputeOnce' /\ RightAnswer'
      BY <2>1, <3>3 DEF RInv, Told, ComputeOnce, RightAnswer
    <3>5. EntriesTrue' /\ HeldTrue'
      BY <2>1, <2>2, <3>1, <3>2 DEF RInv, Told, EntriesTrue, HeldTrue
    <3> QED
      BY <3>4, <3>5 DEF Told
  <2>4. Young' /\ OwnIsNew'
    BY <2>1, <2>2 DEF RInv, Young, StoreYoung, OwnIsNew, DocOK, ExactOK, Fresh, Within
  <2> QED
    BY <2>3, <2>4 DEF RInv
<1> QED
  BY <1>1, <1>2, <1>3 DEF Next, Rest

LEMMA InitRight == Init => RInv
<1> SUFFICES ASSUME Init
             PROVE  RInv
  OBVIOUS
<1>1. NoEntry \notin Kept
  BY EntryFacts
<1>2. Told
  BY <1>1 DEF Init, Told, ComputeOnce, EntriesTrue, HeldTrue, RightAnswer
<1>3. Young /\ OwnIsNew
  BY <1>1 DEF Init, Young, StoreYoung, OwnIsNew, Storing, KeyOf, Keys, ExactKey, DocKey
<1> QED
  BY <1>2, <1>3 DEF RInv

\* What is served was found under the exact key, or is a document.
LEMMA ServedIsYoung ==
  ASSUME Shape, Told, Young, Next, circuit' = "new", NEW r \in Requests, Served(r)
  PROVE  now - born[answer'[r]] < ExactTtl + SemanticTtl - 1
<1>0. StoreYoung
  BY CircuitFacts DEF Young
<1>1. now \in Nat /\ \A e \in Kept : e.left \in Nat /\ born[e.by] \in Nat
  BY EntryFacts DEF Shape, TypeOK
<1>2. /\ \A e \in Kept : ExactOK(e) => now - born[e.by] < ExactTtl + SemanticTtl - 1
      /\ \A e \in Kept : DocOK(e) => now - born[e.by] < ExactTtl + SemanticTtl - 1
  BY <1>1 DEF ExactOK, DocOK, Fresh, Within, NoTtl
<1>3. CASE LoadHit(r)
  <2>1. KeyOf(r) \in Keys \ DocKeys /\ store[KeyOf(r)] \in Kept /\ answer'[r] = store[KeyOf(r)].by
    BY <1>3, EntryFacts, KeyFacts DEF LoadHit, Has, Shape, TypeOK, DocKeys
  <2>2. PICK e \in Kept : store[KeyOf(r)] = e
    BY <2>1
  <2>3. ExactOK(e)
    BY <1>0, <2>1, <2>2 DEF StoreYoung
  <2> QED
    BY <1>2, <2>1, <2>2, <2>3
<1>4. CASE SemanticHit(r)
  <2>1. PICK k \in Documents : answer' = [answer EXCEPT ![r] = store[k].by]
    BY <1>4 DEF SemanticHit
  <2>2. k \in Keys \cap DocKeys /\ store[k] \in Kept /\ answer'[r] = store[k].by
    BY <2>1, EntryFacts, KeyFacts DEF Documents, Has, Shape, TypeOK, DocKeys
  <2>3. PICK e \in Kept : store[k] = e
    BY <2>2
  <2>4. DocOK(e)
    BY <1>0, <2>2, <2>3 DEF StoreYoung
  <2> QED
    BY <1>2, <2>2, <2>3, <2>4
<1>5. LoadHit(r) \/ SemanticHit(r)
  <2>1. ASSUME NEW q \in Requests, Step(q)
        PROVE  LoadHit(r) \/ SemanticHit(r)
    <3>1. q = r
      BY <2>1, StepMoves DEF Served
    <3>2. ~Bypass(r) /\ ~Compute(r)
      BY DEF Bypass, Compute, Served, Shape, TypeOK
    <3> QED
      BY <2>1, <3>1, <3>2
         DEF Served, Step, LoadInvalid, LoadMiss, PollMiss, Discard, Touch, SemanticWeed,
             SemanticMiss, TouchDoc, Acquire, Ping, WaitOver, StoreSet, StoreTtl, Index, IndexTtl,
             Record, Release, Throw, calls
  <2>2. ~World
    BY WorldMoves DEF Served
  <2>3. ~Rest
    BY DEF Rest, vars, calls, Served
  <2> QED
    BY <2>1, <2>2, <2>3 DEF Next
<1> QED
  BY <1>3, <1>4, <1>5

\* Whoever is answered with what another computed asked for the same thing, of the same prompts,
\* schemas and model, and it may be kept; and as long as no call to Redis has failed it is younger
\* than both lifetimes together, though promotion gives it a second one (service.py:286-420).
THEOREM ServedRightAlways == Spec => ServedRight
<1>1. Init => RInv
  BY InitRight
<1>2. IInv /\ IInv' /\ RInv /\ [Next]_vars => RInv'
  BY RInvStays
<1>3. IInv /\ RInv => TypeOK /\ RightAnswer
  BY DEF IInv, Shape, RInv, Told
<1>4. IInv /\ RInv /\ [Next]_vars =>
        [circuit' = "new" => \A r \in Requests : Served(r) =>
            now - born[answer'[r]] < ExactTtl + SemanticTtl - 1]_vars
  <2> SUFFICES ASSUME IInv, RInv, Next, circuit' = "new", NEW r \in Requests, Served(r)
               PROVE  now - born[answer'[r]] < ExactTtl + SemanticTtl - 1
    OBVIOUS
  <2> QED
    BY ServedIsYoung DEF IInv, RInv
<1> QED
  BY <1>1, <1>2, <1>3, <1>4, IInvAlways, PTL DEF Spec, ServedRight, FreshEnough

-----------------------------------------------------------------------------
(* The statistics of a run (telemetry.py, rate_limit.py).                  *)

HIDE CacheAssumption
USE RedisStatsAssumption

Places == {"start", "record", "merge", "write", "complete", "close", "done"}
Events == {e \in [agent : Specialists \cup {"none"}, status : {"hit", "miss", "none"},
                  called : BOOLEAN, saved : BOOLEAN] : ~(e.called /\ e.saved)}
Written == [called : Nat, saved : Nat, result : {"working", "answered"},
            cache : [Specialists -> {"", "hit", "miss", "none"}]]
StatsShape ==
    /\ window \in [Windows -> Nat] /\ admitted \in [Windows -> Nat]
    /\ stream \in Nat /\ merged \subseteq Workers
    /\ counters \in [hits : Nat, misses : Nat, called : Nat, avoided : Nat]
    /\ summary \in Written \cup {None} /\ runLock \in Workers \cup {"free"}
    /\ worker \in [Workers -> [at : Places, event : Events, copy : Written \cup {None}]]
    /\ failures \in 0..MaxFailures

\* Whoever read the summary and has not written it back holds the lock, and what it read is still
\* what is there.
Base   == IF summary = None THEN NoRun ELSE summary
Locked == \A w \in Workers :
    /\ worker[w].at \in {"write", "close"} <=> runLock = w
    /\ worker[w].at \in {"write", "close"} => worker[w].copy = Base

\* What was written into the summary is in it, what waits to be written is not.
MergedOnce == /\ \A w \in merged : worker[w].at = "done"
              /\ summary = None => merged = {}
Calls == {w \in merged : worker[w].event.called}
Saves == {w \in merged : worker[w].event.saved}
AddsUp == summary # None => summary.called = Cardinality(Calls) /\ summary.saved = Cardinality(Saves)

SInv == StatsShape /\ Locked /\ MergedOnce /\ AddsUp /\ StreamLeads /\ LimitsAreExact

LEMMA StartFacts ==
  /\ NoEvent \in Events /\ NoRun \in Written /\ None \notin Written /\ Base # None
  /\ \A a \in Specialists, b \in BOOLEAN : Uncached(a, b) \in Events
  /\ \A a \in Specialists : [agent |-> a, status |-> "hit", called |-> FALSE, saved |-> TRUE] \in Events
  /\ StatsShape => Base \in Written
BY DEF NoEvent, Events, NoRun, Written, None, Uncached, Base, StatsShape

\* How the steps write about a worker.
LEMMA WorkerMoves ==
  ASSUME StatsShape, NEW w \in Workers
  PROVE  /\ \A at \in Places : Goes(w, at) =>
               /\ worker' \in [Workers -> [at : Places, event : Events, copy : Written \cup {None}]]
               /\ worker'[w].at = at /\ worker'[w].event = worker[w].event
               /\ \A v \in Workers \ {w} : worker'[v] = worker[v]
         /\ \A e \in Events : Records(w, e) =>
               /\ worker' \in [Workers -> [at : Places, event : Events, copy : Written \cup {None}]]
               /\ worker'[w].at = "record" /\ worker'[w].event = e
               /\ \A v \in Workers \ {w} : worker'[v] = worker[v]
         /\ \A at \in Places, s \in Written : Reads(w, at, s) =>
               /\ worker' \in [Workers -> [at : Places, event : Events, copy : Written \cup {None}]]
               /\ worker'[w].at = at /\ worker'[w].event = worker[w].event /\ worker'[w].copy = s
               /\ \A v \in Workers \ {w} : worker'[v] = worker[v]
<1> DEFINE Rec == [at : Places, event : Events, copy : Written \cup {None}]
<1>0. worker \in [Workers -> Rec] /\ worker[w] \in Rec
  BY DEF StatsShape
<1>1. ASSUME NEW at \in Places, Goes(w, at)
      PROVE  /\ worker' \in [Workers -> Rec] /\ worker'[w].at = at
             /\ worker'[w].event = worker[w].event
             /\ \A v \in Workers \ {w} : worker'[v] = worker[v]
  BY <1>0, <1>1 DEF Goes
<1>2. ASSUME NEW e \in Events, Records(w, e)
      PROVE  /\ worker' \in [Workers -> Rec] /\ worker'[w].at = "record" /\ worker'[w].event = e
             /\ \A v \in Workers \ {w} : worker'[v] = worker[v]
  <2>1. worker' = [worker EXCEPT ![w] = [at |-> "record", event |-> e, copy |-> worker[w].copy]]
    BY <1>2 DEF Records
  <2> QED
    BY <1>0, <2>1 DEF Places
<1>3. ASSUME NEW at \in Places, NEW s \in Written, Reads(w, at, s)
      PROVE  /\ worker' \in [Workers -> Rec] /\ worker'[w].at = at
             /\ worker'[w].event = worker[w].event /\ worker'[w].copy = s
             /\ \A v \in Workers \ {w} : worker'[v] = worker[v]
  <2>1. worker' = [worker EXCEPT ![w] = [at |-> at, event |-> worker[w].event, copy |-> s]]
    BY <1>3 DEF Reads
  <2> QED
    BY <1>0, <2>1
<1> QED
  BY <1>1, <1>2, <1>3

\* The limits: the script takes from both windows or from none.
LEMMA LimitsStay ==
  ASSUME StatsShape, LimitsAreExact,
         \/ UNCHANGED <<window, admitted>>
         \/ \E a \in Specialists : window' = Taken(a) /\ admitted' = Passed(a)
         \/ \E k \in Windows : /\ window' = [window EXCEPT ![k] = 0]
                               /\ admitted' = [admitted EXCEPT ![k] = 0]
  PROVE  /\ window' \in [Windows -> Nat] /\ admitted' \in [Windows -> Nat]
         /\ LimitsAreExact'
<1>0. window \in [Windows -> Nat] /\ admitted \in [Windows -> Nat]
  BY DEF StatsShape
<1>1. CASE UNCHANGED <<window, admitted>>
  BY <1>0, <1>1 DEF LimitsAreExact
<1>2. ASSUME NEW a \in Specialists, window' = Taken(a), admitted' = Passed(a)
      PROVE  /\ window' \in [Windows -> Nat] /\ admitted' \in [Windows -> Nat]
             /\ LimitsAreExact'
  <2>1. CASE Allowed(a)
    <3>1. /\ window' = [k \in Windows |-> IF k \in {"global", a} /\ Limited(k)
                                          THEN window[k] + 1 ELSE window[k]]
          /\ admitted' = [k \in Windows |-> IF k \in {"global", a} THEN admitted[k] + 1 ELSE admitted[k]]
      BY <1>2, <2>1 DEF Taken, Passed, Allowed
    <3>2. window' \in [Windows -> Nat] /\ admitted' \in [Windows -> Nat]
      BY <1>0, <3>1
    <3>3. ASSUME NEW k \in Windows, Limited(k)
          PROVE  /\ admitted'[k] = window'[k]
                 /\ window'[k] <= IF k = "global" THEN GlobalLimit ELSE AgentLimit[k]
      <4>1. /\ admitted[k] = window[k]
            /\ window[k] <= IF k = "global" THEN GlobalLimit ELSE AgentLimit[k]
        BY <3>3 DEF LimitsAreExact
      <4>2. CASE k \in {"global", a}
        <5>1. Room(k)
          BY <2>1, <3>3, <4>2 DEF Allowed
        <5>2. window'[k] = window[k] + 1 /\ admitted'[k] = admitted[k] + 1
          BY <3>1, <3>3, <4>2
        <5>3. (IF k = "global" THEN GlobalLimit ELSE AgentLimit[k]) \in Nat
          BY DEF Windows
        <5> QED
          BY <1>0, <4>1, <5>1, <5>2, <5>3 DEF Room
      <4>3. CASE k \notin {"global", a}
        BY <3>1, <4>1, <4>3
      <4> QED
        BY <4>2, <4>3
    <3> QED
      BY <3>2, <3>3 DEF LimitsAreExact, Limited
  <2>2. CASE ~Allowed(a)
    <3>1. window' = window
      BY <1>2, <2>2 DEF Taken, Allowed
    <3>2. admitted' = admitted
      <4>1. admitted' = [k \in Windows |-> admitted[k]]
        BY <1>2, <2>2 DEF Passed
      <4> QED
        BY <1>0, <4>1
    <3> QED
      BY <1>0, <3>1, <3>2 DEF LimitsAreExact
  <2> QED
    BY <2>1, <2>2
<1>3. ASSUME NEW k \in Windows, window' = [window EXCEPT ![k] = 0], admitted' = [admitted EXCEPT ![k] = 0]
      PROVE  /\ window' \in [Windows -> Nat] /\ admitted' \in [Windows -> Nat]
             /\ LimitsAreExact'
  <2>1. \A j \in Windows : (IF j = "global" THEN GlobalLimit ELSE AgentLimit[j]) \in Nat
    BY DEF Windows
  <2> QED
    BY <1>0, <1>3, <2>1 DEF LimitsAreExact, Limited
<1> QED
  BY <1>1, <1>2, <1>3

\* An event is written once: what is counted of it grows the set by whoever wrote it.
LEMMA MergedByOne ==
  ASSUME StatsShape, MergedOnce, NEW w \in Workers, worker[w].at = "write", merged' = merged \cup {w},
         \A v \in Workers : worker'[v].event = worker[v].event
  PROVE  /\ Cardinality(Calls)' = Cardinality(Calls) + One(worker[w].event.called)
         /\ Cardinality(Saves)' = Cardinality(Saves) + One(worker[w].event.saved)
         /\ Cardinality(Calls) \in Nat /\ Cardinality(Saves) \in Nat
<1>1. w \notin merged
  BY DEF MergedOnce
<1>2. /\ Calls' = IF worker[w].event.called THEN Calls \cup {w} ELSE Calls
      /\ Saves' = IF worker[w].event.saved THEN Saves \cup {w} ELSE Saves
      /\ w \notin Calls /\ w \notin Saves
  BY <1>1 DEF Calls, Saves, StatsShape
<1>3. /\ IsFiniteSet(Calls) /\ Cardinality(Calls) \in Nat
      /\ IsFiniteSet(Saves) /\ Cardinality(Saves) \in Nat
  <2>1. Calls \subseteq Workers /\ Saves \subseteq Workers
    BY DEF Calls, Saves, StatsShape
  <2> QED
    BY <2>1, FS_Subset, FS_CardinalityType
<1>4. /\ Cardinality(Calls \cup {w}) = Cardinality(Calls) + 1
      /\ Cardinality(Saves \cup {w}) = Cardinality(Saves) + 1
  BY <1>2, <1>3, FS_AddElement
<1>5. /\ Cardinality(Calls') = Cardinality(Calls) + One(worker[w].event.called)
      /\ Cardinality(Saves') = Cardinality(Saves) + One(worker[w].event.saved)
  BY <1>2, <1>3, <1>4 DEF One
<1> QED
  BY <1>3, <1>5

\* Nothing is written into the summary, and nobody whose event is in it changes.
LEMMA SummaryRests ==
  ASSUME SInv, UNCHANGED <<summary, merged>>, NEW w \in Workers, w \notin merged,
         \A v \in Workers \ {w} : worker'[v] = worker[v]
  PROVE  MergedOnce' /\ AddsUp' /\ Base' = Base
<1>1. \A v \in merged : v \in Workers /\ worker'[v] = worker[v]
  BY DEF SInv, StatsShape
<1>2. Calls' = Calls /\ Saves' = Saves
  BY <1>1 DEF Calls, Saves
<1> QED
  BY <1>1, <1>2 DEF SInv, MergedOnce, AddsUp, Base

LEMMA StreamGrows ==
  ASSUME SInv, NEW w \in Workers, stream' \in Xadd,
         counters' \in {counters, Counted(worker[w].event)}
  PROVE  /\ StreamLeads' /\ stream' \in Nat
         /\ counters' \in [hits : Nat, misses : Nat, called : Nat, avoided : Nat]
<1>1. stream \in Nat
  BY DEF SInv, StatsShape
<1>2. /\ stream' \in Nat /\ stream \in Nat
      /\ stream' = stream + 1 \/ stream' >= StreamMaxlen
  BY <1>1 DEF Xadd
<1>3. /\ counters.hits \in Nat /\ counters.misses \in Nat
      /\ counters.called \in Nat /\ counters.avoided \in Nat
  BY DEF SInv, StatsShape
<1>4. /\ One(worker[w].event.status = "hit") + One(worker[w].event.status = "miss") <= 1
      /\ One(worker[w].event.called) + One(worker[w].event.saved) <= 1
      /\ \A b \in BOOLEAN : One(b) \in 0..1
  <2>1. worker[w].event \in Events
    BY DEF SInv, StatsShape
  <2>2. ~(worker[w].event.called /\ worker[w].event.saved)
    BY <2>1 DEF Events
  <2> QED
    BY <2>2 DEF One
<1>5. worker[w].event.called \in BOOLEAN /\ worker[w].event.saved \in BOOLEAN
  BY DEF SInv, StatsShape, Events
<1> DEFINE h == One(worker[w].event.status = "hit")
           m == One(worker[w].event.status = "miss")
           c == One(worker[w].event.called)
           s == One(worker[w].event.saved)
<1>6. h \in 0..1 /\ m \in 0..1 /\ c \in 0..1 /\ s \in 0..1 /\ h + m <= 1 /\ c + s <= 1
  <2>1. h \in 0..1 /\ m \in 0..1
    BY DEF One
  <2>2. c \in 0..1 /\ s \in 0..1
    BY DEF One
  <2> QED
    BY <1>4, <2>1, <2>2
<1>7. Counted(worker[w].event) = [hits |-> counters.hits + h, misses |-> counters.misses + m,
                                  called |-> counters.called + c, avoided |-> counters.avoided + s]
  BY DEF Counted
<1> HIDE DEF h, m, c, s
<1>8. /\ counters.hits + counters.misses <= stream \/ stream >= StreamMaxlen
      /\ counters.called + counters.avoided <= stream \/ stream >= StreamMaxlen
  BY DEF SInv, StreamLeads
<1> DEFINE l == stream
           k == stream'
<1>11. ASSUME NEW n \in Nat, NEW m0 \in Nat, n <= l \/ l >= StreamMaxlen, m0 <= n + 1
       PROVE  m0 <= k \/ k >= StreamMaxlen
  BY ONLY <1>2, <1>11, RedisStatsAssumption
<1> HIDE DEF l, k
<1>9. CASE counters' = counters
  <2>1. /\ counters'.hits + counters'.misses <= k \/ k >= StreamMaxlen
        /\ counters'.called + counters'.avoided <= k \/ k >= StreamMaxlen
    BY <1>3, <1>8, <1>9, <1>11 DEF l
  <2> QED
    BY <1>2, <1>9, <2>1 DEF StreamLeads, SInv, StatsShape, k
<1>10. CASE counters' = Counted(worker[w].event)
  <2>1. /\ counters'.hits = counters.hits + h /\ counters'.misses = counters.misses + m
        /\ counters'.called = counters.called + c /\ counters'.avoided = counters.avoided + s
    BY <1>7, <1>10
  <2>2. counters' \in [hits : Nat, misses : Nat, called : Nat, avoided : Nat]
    BY <1>3, <1>6, <1>7, <1>10
  <2>3. /\ counters'.hits + counters'.misses \in Nat
        /\ counters'.hits + counters'.misses <= (counters.hits + counters.misses) + 1
        /\ counters'.called + counters'.avoided \in Nat
        /\ counters'.called + counters'.avoided <= (counters.called + counters.avoided) + 1
    BY ONLY <1>3, <1>6, <2>1
  <2>4. /\ counters'.hits + counters'.misses <= k \/ k >= StreamMaxlen
        /\ counters'.called + counters'.avoided <= k \/ k >= StreamMaxlen
    BY <1>3, <1>8, <1>11, <2>3 DEF l
  <2>5. StreamLeads'
    BY <2>4 DEF StreamLeads, k
  <2> QED
    BY <1>2, <2>2, <2>5
<1> QED
  BY <1>9, <1>10

LEMMA SInvStays ==
  ASSUME SInv, [StatsNext]_statsVars
  PROVE  SInv' /\ (summary.result = "answered" /\ summary' # None => summary'.result = "answered")
<1>0. /\ StatsShape /\ worker \in [Workers -> [at : Places, event : Events, copy : Written \cup {None}]]
      /\ \A w \in Workers : worker[w].event \in Events
  BY DEF SInv, StatsShape
<1>1. ASSUME NEW w \in Workers,
             \E a \in Specialists : Allow(w, a) \/ AllowOpen(w, a) \/ Reuse(w, a)
      PROVE  SInv' /\ UNCHANGED summary
  <2>1. PICK a \in Specialists : Allow(w, a) \/ AllowOpen(w, a) \/ Reuse(w, a)
    BY <1>1
  <2>2. (\E e \in Events : Records(w, e)) \/ Goes(w, "done")
    <3>1. Allowed(a) \in BOOLEAN
      BY DEF Allowed
    <3>2. /\ \A b \in BOOLEAN : Uncached(a, b) \in Events
          /\ [agent |-> a, status |-> "hit", called |-> FALSE, saved |-> TRUE] \in Events
      BY StartFacts
    <3>3. CASE Allow(w, a)
      BY <3>1, <3>2, <3>3 DEF Allow
    <3>4. CASE AllowOpen(w, a)
      BY <3>2, <3>4 DEF AllowOpen
    <3>5. CASE Reuse(w, a)
      BY <3>2, <3>5 DEF Reuse
    <3> QED
      BY <2>1, <3>3, <3>4, <3>5
  <2>3. /\ worker[w].at = "start" /\ UNCHANGED <<stream, counters, summary, merged, runLock>>
        /\ failures' \in 0..MaxFailures
    <3>1. failures \in 0..MaxFailures
      BY DEF SInv, StatsShape
    <3>2. CASE Allow(w, a) \/ Reuse(w, a)
      BY <3>1, <3>2 DEF Allow, Reuse
    <3>3. CASE AllowOpen(w, a)
      <4>1. failures' \in 0..MaxFailures
        BY <3>1, <3>3 DEF AllowOpen, Fails
      <4> QED
        BY <3>3, <4>1 DEF AllowOpen
    <3> QED
      BY <2>1, <3>2, <3>3
  <2>4. /\ worker' \in [Workers -> [at : Places, event : Events, copy : Written \cup {None}]]
        /\ worker'[w].at \in {"record", "done"} /\ \A v \in Workers \ {w} : worker'[v] = worker[v]
    <3>1. CASE Goes(w, "done")
      <4>1. "done" \in Places
        BY DEF Places
      <4> QED
        BY <1>0, <3>1, <4>1, WorkerMoves
    <3>2. ASSUME NEW e \in Events, Records(w, e)
          PROVE  /\ worker' \in [Workers -> [at : Places, event : Events, copy : Written \cup {None}]]
                 /\ worker'[w].at = "record" /\ \A v \in Workers \ {w} : worker'[v] = worker[v]
      BY <1>0, <3>2, WorkerMoves
    <3> QED
      BY <2>2, <3>1, <3>2
  <2>5. window' \in [Windows -> Nat] /\ admitted' \in [Windows -> Nat] /\ LimitsAreExact'
    BY <2>1, LimitsStay DEF Allow, AllowOpen, Reuse, SInv
  <2>6. w \notin merged
    BY <2>3 DEF SInv, MergedOnce
  <2>7. MergedOnce' /\ AddsUp' /\ Base' = Base
    BY <2>3, <2>4, <2>6, SummaryRests
  <2>8. StatsShape' /\ StreamLeads'
    BY <2>3, <2>4, <2>5 DEF SInv, StatsShape, StreamLeads
  <2>9. Locked'
    BY <2>3, <2>4, <2>6, <2>7 DEF SInv, StatsShape, Locked
  <2> QED
    BY <2>3, <2>5, <2>7, <2>8, <2>9 DEF SInv
<1>2. ASSUME NEW k \in Windows, WindowEnds(k)
      PROVE  SInv' /\ UNCHANGED summary
  <2>1. UNCHANGED <<stream, counters, summary, merged, runLock, worker, failures>>
    BY <1>2 DEF WindowEnds
  <2>2. window' \in [Windows -> Nat] /\ admitted' \in [Windows -> Nat] /\ LimitsAreExact'
    BY <1>2, LimitsStay DEF WindowEnds, SInv
  <2> QED
    BY <2>1, <2>2 DEF SInv, StatsShape, Locked, Base, MergedOnce, AddsUp, Calls, Saves,
                      StreamLeads
<1>3. ASSUME NEW w \in Workers, RecordOperation(w) \/ RecordBreaks(w)
      PROVE  SInv' /\ UNCHANGED summary
  <2>1. /\ worker[w].at = "record" /\ UNCHANGED <<window, admitted, summary, merged, runLock>>
        /\ failures' \in 0..MaxFailures
        /\ \/ UNCHANGED <<stream, counters>>
           \/ stream' \in Xadd /\ counters' \in {counters, Counted(worker[w].event)}
    BY <1>3 DEF RecordOperation, RecordBreaks, Fails, SInv, StatsShape
  <2>2. PICK p \in {"merge", "done"} : Goes(w, p)
    BY <1>3 DEF RecordOperation, RecordBreaks
  <2>3. /\ worker' \in [Workers -> [at : Places, event : Events, copy : Written \cup {None}]]
        /\ worker'[w].at \in {"merge", "done"} /\ \A v \in Workers \ {w} : worker'[v] = worker[v]
    <3>1. p \in Places
      BY DEF Places
    <3> QED
      BY <1>0, <2>2, <3>1, WorkerMoves
  <2>8. w \notin merged
    BY <2>1 DEF SInv, MergedOnce
  <2>4. MergedOnce' /\ AddsUp' /\ Base' = Base
    BY <2>1, <2>3, <2>8, SummaryRests
  <2>5. /\ StreamLeads' /\ stream' \in Nat
        /\ counters' \in [hits : Nat, misses : Nat, called : Nat, avoided : Nat]
    <3>1. CASE UNCHANGED <<stream, counters>>
      BY <3>1 DEF SInv, StreamLeads, StatsShape
    <3>2. CASE stream' \in Xadd /\ counters' \in {counters, Counted(worker[w].event)}
      BY <3>2, StreamGrows
    <3> QED
      BY <2>1, <3>1, <3>2
  <2>6. StatsShape' /\ LimitsAreExact'
    BY <2>1, <2>3, <2>5 DEF SInv, StatsShape, LimitsAreExact
  <2>7. Locked'
    BY <2>1, <2>3, <2>4 DEF SInv, StatsShape, Locked
  <2> QED
    BY <2>1, <2>4, <2>5, <2>6, <2>7 DEF SInv
<1>4. ASSUME NEW w \in Workers, MergeRead(w)
      PROVE  SInv' /\ UNCHANGED summary
  <2> DEFINE l == IF worker[w].at = "merge" THEN "write" ELSE "close"
  <2>1. /\ worker[w].at \in {"merge", "complete"} /\ runLock = "free" /\ runLock' = w
        /\ Reads(w, l, Base) /\ l \in Places /\ l \in {"write", "close"}
        /\ UNCHANGED <<window, admitted, stream, counters, summary, merged, failures>>
    BY <1>4 DEF MergeRead, Base, Places
  <2> HIDE DEF l
  <2>2. Base \in Written
    BY <1>0, StartFacts
  <2>3. /\ worker' \in [Workers -> [at : Places, event : Events, copy : Written \cup {None}]]
        /\ worker'[w].at = l /\ worker'[w].copy = Base
        /\ \A v \in Workers \ {w} : worker'[v] = worker[v]
    <3>1. \A b \in Written : Reads(w, l, b) =>
             /\ worker' \in [Workers -> [at : Places, event : Events, copy : Written \cup {None}]]
             /\ worker'[w].at = l /\ worker'[w].copy = b
             /\ \A v \in Workers \ {w} : worker'[v] = worker[v]
      BY <1>0, <2>1, WorkerMoves
    <3> QED
      BY <2>1, <2>2, <3>1
  <2>4. w \notin merged
    BY <2>1 DEF SInv, MergedOnce
  <2>5. MergedOnce' /\ AddsUp' /\ Base' = Base
    BY <2>1, <2>3, <2>4, SummaryRests
  <2>6. StatsShape' /\ LimitsAreExact' /\ StreamLeads'
    BY <2>1, <2>3 DEF SInv, StatsShape, LimitsAreExact, StreamLeads
  <2>7. Locked'
    BY <2>1, <2>3, <2>5 DEF SInv, StatsShape, Locked
  <2> QED
    BY <2>1, <2>5, <2>6, <2>7 DEF SInv
<1>5. ASSUME NEW w \in Workers, Merge(w)
      PROVE  SInv' /\ (summary.result = "answered" => summary'.result = "answered")
  <2>1. /\ worker[w].at = "write" /\ Goes(w, "done") /\ "done" \in Places
        /\ summary' = Patched(worker[w].copy, worker[w].event)
        /\ merged' = merged \cup {w} /\ runLock' = "free"
        /\ UNCHANGED <<window, admitted, stream, counters, failures>>
    BY <1>5 DEF Merge, Places
  <2>2. /\ worker' \in [Workers -> [at : Places, event : Events, copy : Written \cup {None}]]
        /\ worker'[w].at = "done" /\ worker'[w].event = worker[w].event
        /\ \A v \in Workers \ {w} : worker'[v] = worker[v]
    BY <1>0, <2>1, WorkerMoves
  <2>3. worker[w].copy = Base /\ runLock = w
    BY <2>1 DEF SInv, Locked
  <2>4. PICK b \in Written : b = Base
    BY <1>0, StartFacts
  <2>5. PICK e \in Events : e = worker[w].event
    BY <1>0
  <2>6. /\ summary' \in Written /\ summary'.result = b.result
        /\ summary'.called = b.called + One(e.called) /\ summary'.saved = b.saved + One(e.saved)
    <3>1. summary' = [b EXCEPT !.called = @ + One(e.called), !.saved = @ + One(e.saved),
                               !.cache[e.agent] = e.status]
      BY <2>1, <2>3, <2>4, <2>5 DEF Patched
    <3>2. One(e.called) \in Nat /\ One(e.saved) \in Nat
      BY DEF One
    <3>3. [b.cache EXCEPT ![e.agent] = e.status] \in [Specialists -> {"", "hit", "miss", "none"}]
      BY DEF Written, Events
    <3>4. summary' = [called |-> b.called + One(e.called), saved |-> b.saved + One(e.saved),
                      result |-> b.result, cache |-> [b.cache EXCEPT ![e.agent] = e.status]]
      <4>1. b = [called |-> b.called, saved |-> b.saved, result |-> b.result, cache |-> b.cache]
        BY DEF Written
      <4> QED
        BY <3>1, <4>1 DEF Written
    <3>5. b.called + One(e.called) \in Nat /\ b.saved + One(e.saved) \in Nat
          /\ b.result \in {"working", "answered"}
      <4>1. b.called \in Nat /\ b.saved \in Nat /\ b.result \in {"working", "answered"}
        BY DEF Written
      <4>2. \A m, n \in Nat : m + n \in Nat
        OBVIOUS
      <4> HIDE DEF One
      <4> QED
        BY <3>2, <4>1, <4>2
    <3> DEFINE c == b.called + One(e.called)
               s == b.saved + One(e.saved)
               h == [b.cache EXCEPT ![e.agent] = e.status]
    <3>6. /\ summary' = [called |-> c, saved |-> s, result |-> b.result, cache |-> h]
          /\ c \in Nat /\ s \in Nat /\ h \in [Specialists -> {"", "hit", "miss", "none"}]
          /\ b.result \in {"working", "answered"}
      BY <3>3, <3>4, <3>5
    <3> HIDE DEF c, s, h
    <3>7. summary' \in Written /\ summary'.result = b.result /\ summary'.called = c /\ summary'.saved = s
      BY <3>6 DEF Written
    <3> QED
      BY <3>7 DEF c, s
  <2>7. /\ Cardinality(Calls)' = Cardinality(Calls) + One(e.called)
        /\ Cardinality(Saves)' = Cardinality(Saves) + One(e.saved)
        /\ Cardinality(Calls) \in Nat /\ Cardinality(Saves) \in Nat
    BY <2>1, <2>2, <2>5, MergedByOne DEF SInv
  <2>8. b.called = Cardinality(Calls) /\ b.saved = Cardinality(Saves)
    <3>1. CASE summary = None
      <4>1. merged = {}
        BY <3>1 DEF SInv, MergedOnce
      <4>2. Calls = {} /\ Saves = {} /\ b = NoRun
        BY <2>4, <3>1, <4>1 DEF Calls, Saves, Base
      <4> QED
        BY <4>2, FS_EmptySet DEF NoRun
    <3>2. CASE summary # None
      BY <2>4, <3>2 DEF SInv, AddsUp, Base
    <3> QED
      BY <3>1, <3>2
  <2>9. AddsUp'
    BY <2>6, <2>7, <2>8 DEF AddsUp
  <2>10. MergedOnce'
    <3>1. summary' # None
      BY <2>6, StartFacts
    <3> QED
      BY <2>1, <2>2, <3>1 DEF SInv, StatsShape, MergedOnce
  <2>11. StatsShape' /\ LimitsAreExact' /\ StreamLeads'
    BY <2>1, <2>2, <2>6 DEF SInv, StatsShape, LimitsAreExact, StreamLeads
  <2>12. Locked'
    BY <2>1, <2>2, <2>3 DEF SInv, StatsShape, Locked
  <2>13. summary.result = "answered" => summary'.result = "answered"
    <3>1. None.result = "none"
      BY DEF None
    <3>2. summary.result = "answered" => summary # None
      BY <3>1
    <3> QED
      BY <2>4, <2>6, <3>2 DEF Base
  <2> QED
    BY <2>9, <2>10, <2>11, <2>12, <2>13 DEF SInv
<1>6. ASSUME NEW w \in Workers, MergeBreaks(w)
      PROVE  SInv' /\ UNCHANGED summary
  <2>1. /\ worker[w].at \in {"write", "close"} /\ Goes(w, "done") /\ "done" \in Places
        /\ runLock' = "free" /\ failures' \in 0..MaxFailures
        /\ UNCHANGED <<window, admitted, stream, counters, summary, merged>>
    BY <1>6 DEF MergeBreaks, Fails, SInv, StatsShape, Places
  <2>2. /\ worker' \in [Workers -> [at : Places, event : Events, copy : Written \cup {None}]]
        /\ worker'[w].at = "done" /\ \A v \in Workers \ {w} : worker'[v] = worker[v]
    BY <1>0, <2>1, WorkerMoves
  <2>3. w \notin merged /\ runLock = w
    BY <2>1 DEF SInv, MergedOnce, Locked
  <2>4. MergedOnce' /\ AddsUp' /\ Base' = Base
    BY <2>1, <2>2, <2>3, SummaryRests
  <2>5. StatsShape' /\ LimitsAreExact' /\ StreamLeads'
    BY <2>1, <2>2 DEF SInv, StatsShape, LimitsAreExact, StreamLeads
  <2>6. Locked'
    BY <2>1, <2>2, <2>3 DEF SInv, StatsShape, Locked
  <2> QED
    BY <2>1, <2>4, <2>5, <2>6 DEF SInv
<1>7. ASSUME NEW w \in Workers, Complete(w)
      PROVE  SInv' /\ UNCHANGED summary
  <2>1. /\ worker[w].at = "start" /\ Goes(w, "complete") /\ "complete" \in Places
        /\ UNCHANGED <<window, admitted, stream, counters, summary, merged, runLock, failures>>
    BY <1>7 DEF Complete, Places
  <2>2. /\ worker' \in [Workers -> [at : Places, event : Events, copy : Written \cup {None}]]
        /\ worker'[w].at = "complete" /\ \A v \in Workers \ {w} : worker'[v] = worker[v]
    BY <1>0, <2>1, WorkerMoves
  <2>3. w \notin merged
    BY <2>1 DEF SInv, MergedOnce
  <2>4. MergedOnce' /\ AddsUp' /\ Base' = Base
    BY <2>1, <2>2, <2>3, SummaryRests
  <2>5. StatsShape' /\ LimitsAreExact' /\ StreamLeads'
    BY <2>1, <2>2 DEF SInv, StatsShape, LimitsAreExact, StreamLeads
  <2>6. Locked'
    BY <2>1, <2>2, <2>4 DEF SInv, StatsShape, Locked
  <2> QED
    BY <2>1, <2>4, <2>5, <2>6 DEF SInv
<1>8. ASSUME NEW w \in Workers, CompleteWrite(w)
      PROVE  SInv' /\ summary'.result = "answered"
  <2>1. /\ worker[w].at = "close" /\ Goes(w, "done") /\ "done" \in Places
        /\ summary' = [worker[w].copy EXCEPT !.result = "answered"] /\ runLock' = "free"
        /\ UNCHANGED <<window, admitted, stream, counters, merged, failures>>
    BY <1>8 DEF CompleteWrite, Places
  <2>2. /\ worker' \in [Workers -> [at : Places, event : Events, copy : Written \cup {None}]]
        /\ worker'[w].at = "done" /\ \A v \in Workers \ {w} : worker'[v] = worker[v]
    BY <1>0, <2>1, WorkerMoves
  <2>3. worker[w].copy = Base /\ runLock = w /\ w \notin merged
    BY <2>1 DEF SInv, Locked, MergedOnce
  <2>4. PICK b \in Written : b = Base
    BY <1>0, StartFacts
  <2>5. /\ summary' \in Written /\ summary'.result = "answered"
        /\ summary'.called = b.called /\ summary'.saved = b.saved
    BY <2>1, <2>3, <2>4 DEF Written
  <2>6. Calls' = Calls /\ Saves' = Saves
    <3>1. \A v \in merged : v \in Workers /\ worker'[v] = worker[v]
      BY <2>2, <2>3 DEF SInv, StatsShape
    <3> QED
      BY <2>1, <3>1 DEF Calls, Saves
  <2>7. b.called = Cardinality(Calls) /\ b.saved = Cardinality(Saves)
    <3>1. CASE summary = None
      <4>1. merged = {}
        BY <3>1 DEF SInv, MergedOnce
      <4>2. Calls = {} /\ Saves = {} /\ b = NoRun
        BY <2>4, <3>1, <4>1 DEF Calls, Saves, Base
      <4> QED
        BY <4>2, FS_EmptySet DEF NoRun
    <3>2. CASE summary # None
      BY <2>4, <3>2 DEF SInv, AddsUp, Base
    <3> QED
      BY <3>1, <3>2
  <2>8. AddsUp' /\ MergedOnce'
    <3>1. summary' # None
      BY <2>5, StartFacts
    <3>2. AddsUp'
      BY <2>5, <2>6, <2>7 DEF AddsUp
    <3>3. MergedOnce'
      BY <2>1, <2>2, <2>3, <3>1 DEF SInv, StatsShape, MergedOnce
    <3> QED
      BY <3>2, <3>3
  <2>9. StatsShape' /\ LimitsAreExact' /\ StreamLeads'
    BY <2>1, <2>2, <2>5 DEF SInv, StatsShape, LimitsAreExact, StreamLeads
  <2>10. Locked'
    BY <2>1, <2>2, <2>3 DEF SInv, StatsShape, Locked
  <2> QED
    BY <2>5, <2>8, <2>9, <2>10 DEF SInv
<1>9. CASE UNCHANGED statsVars
  BY <1>9 DEF statsVars, SInv, StatsShape, Locked, Base, MergedOnce, AddsUp, Calls, Saves,
              StreamLeads, LimitsAreExact, Limited
<1> QED
  BY <1>1, <1>2, <1>3, <1>4, <1>5, <1>6, <1>7, <1>8, <1>9 DEF StatsNext, StatsRest

LEMMA StatsBegin == StatsInit => SInv
<1> SUFFICES ASSUME StatsInit
             PROVE  SInv
  OBVIOUS
<1>1. StatsShape
  BY StartFacts DEF StatsInit, StatsShape, Places
<1>2. Locked /\ MergedOnce /\ AddsUp
  BY DEF StatsInit, Locked, MergedOnce, AddsUp
<1>3. StreamLeads
  BY DEF StatsInit, StreamLeads
<1>4. LimitsAreExact
  <2>1. \A k \in Windows : (IF k = "global" THEN GlobalLimit ELSE AgentLimit[k]) \in Nat
    BY DEF Windows
  <2> QED
    BY <2>1 DEF StatsInit, LimitsAreExact
<1> QED
  BY <1>1, <1>2, <1>3, <1>4 DEF SInv

LEMMA SInvTells == SInv => StatsTypeOK /\ LimitsAreExact /\ RunAddsUp /\ StreamLeads
<1> SUFFICES ASSUME SInv
             PROVE  StatsTypeOK /\ RunAddsUp
  BY DEF SInv
<1>1. StatsTypeOK
  BY DEF SInv, StatsShape, Locked, StatsTypeOK
<1>2. RunAddsUp
  <2>1. /\ Quantify(merged, LAMBDA w : worker[w].event.called) = Cardinality(Calls)
        /\ Quantify(merged, LAMBDA w : worker[w].event.saved) = Cardinality(Saves)
    BY DEF Quantify, Calls, Saves
  <2> QED
    BY <2>1 DEF SInv, AddsUp, RunAddsUp
<1> QED
  BY <1>1, <1>2

\* For any threads, limits and failing commands: a window lets through as many calls as it counts
\* and never more than its limit, the summary of a run counts every event written into it exactly
\* once, the counters run ahead of the stream only when it is full and its oldest events may have
\* been trimmed, and a completed run stays completed (telemetry.py:111-140 and 371-418,
\* rate_limit.py:9-77).
THEOREM StatsAlwaysHold == StatsInit /\ [][StatsNext]_statsVars => StatsHold
<1>1. StatsInit => SInv
  BY StatsBegin
<1>2. SInv /\ [StatsNext]_statsVars => SInv'
  BY SInvStays
<1>3. SInv => StatsTypeOK /\ LimitsAreExact /\ RunAddsUp /\ StreamLeads
  BY SInvTells
<1>4. SInv /\ [StatsNext]_statsVars =>
        [summary.result = "answered" /\ summary' # None => summary'.result = "answered"]_summary
  BY SInvStays
<1> QED
  BY <1>1, <1>2, <1>3, <1>4, PTL DEF StatsHold, CompletionStays
=============================================================================
