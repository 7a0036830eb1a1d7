---------------------------- MODULE SingleFlight ----------------------------
(***************************************************************************)
(* RedisIntelligence.cached (agents/cache/service.py): requests look an    *)
(* answer up by exact key, then by likeness, then take the key's lock and  *)
(* compute.  Redis is shared by processes, may be unreachable, forgets     *)
(* locks and entries when their time is over, and every call to it goes    *)
(* through a circuit breaker (agents/cache/client.py) that answers with a  *)
(* default for five seconds after a failure.  Where REDIS_REQUIRED is set  *)
(* the failing call itself raises RedisUnavailable.                        *)
(* A tick is long against a round trip to Redis: it passes only while      *)
(* nobody is between two calls.                                            *)
(***************************************************************************)
EXTENDS Naturals, FiniteSets

CONSTANTS Requests,      \* calls of `cached`, each made once
          Scenes,        \* what the requests may ask for, and what may go wrong meanwhile
          Nobody,        \* no request
          NoSignature,   \* the signature of a question without a metric
          ExactTtl, SemanticTtl,
          MaxFaults,     \* bound: outages, lapsed locks, damaged entries, clears
          MaxTicks       \* bound: the clock

ASSUME CacheAssumption ==
    /\ Nobody \notin Requests
    /\ ExactTtl \in Nat \ {0} /\ SemanticTtl \in Nat \ {0}
    /\ MaxFaults \in Nat /\ MaxTicks \in Nat
    /\ \A s \in Scenes, r \in Requests :
          DOMAIN s.asks[r] = {"identity", "version", "model", "signature", "cached"}
    \* analytical_signature reads what the identity is made of (domain_expert_agent.py:731-747).
    /\ \A s \in Scenes, r, q \in Requests :
          s.asks[r].identity = s.asks[q].identity => s.asks[r].signature = s.asks[q].signature

VARIABLES asks,    \* what each request asks for, and whether the policy and the redaction
                   \* let it be cached; never changes
          may,     \* what may happen: "time", "lapse", "outage", "damage", "clear"; and "strict",
                   \* that REDIS_REQUIRED is set; never changes
          store,   \* what Redis holds under each key
          lock,    \* the holder of each key's lock
          up,      \* Redis can be reached
          circuit, \* "new": no call has failed yet; "open"; "closed": again
          pc, owned, held, answer, outcome,  \* the requests
          born,    \* when each request's value was computed
          now, faults, lapsed, doomed

redis == <<store, lock, up>>
calls == <<pc, owned, held, answer, outcome, born>>
world == <<now, faults, lapsed, doomed>>
scene == <<asks, may>>
vars  == <<scene, redis, circuit, calls, world>>

-----------------------------------------------------------------------------
(* Keys, entries and what makes an entry usable.                           *)

ExactKey(q) == <<"cache", q.identity, q.version, q.model>>
DocKey(q)   == <<"semantic", q.identity, q.version>>
KeyOf(r)    == ExactKey(asks[r])
Keys        == {ExactKey(asks[r]) : r \in Requests} \cup {DocKey(asks[r]) : r \in Requests}

NoTtl   == 0
NoEntry == [by |-> Nobody]
Entry(q, r) ==
    [key |-> ExactKey(q), identity |-> q.identity, version |-> q.version, model |-> q.model,
     signature |-> q.signature, by |-> r, sound |-> TRUE, left |-> NoTtl]

\* validate_envelope: the entry is about this request; load_result: its result is whole.
About(e, r) == /\ e.key = KeyOf(r) /\ e.identity = asks[r].identity
               /\ e.version = asks[r].version
Whole(e)    == e.sound
Valid(e, r) == About(e, r) /\ Whole(e)

\* is_semantic_cache_reuse_safe
SameAnalysis(e, r) == /\ asks[r].signature # NoSignature
                      /\ e.version = asks[r].version /\ e.signature = asks[r].signature
\* ... and what _load_semantic adds to it
ReusableAnyModel(e, r) == SameAnalysis(e, r)
Reusable(e, r) == SameAnalysis(e, r) /\ e.model = asks[r].model

\* _promote_semantic: the candidate under the key and the identity of this request
Promoted(e, r) == [e EXCEPT !.key = KeyOf(r), !.identity = asks[r].identity, !.left = NoTtl]

Reached == up /\ circuit # "open"
Closed  == IF circuit = "open" THEN "closed" ELSE circuit

\* RedisConnection.call: with an open circuit nothing is tried; a failure opens it, and is
\* raised in strict mode.
Throws(worked)  == "strict" \in may /\ circuit # "open" /\ ~worked
Tried(worked)   == circuit' = IF circuit = "open" \/ ~worked THEN "open" ELSE circuit
Returns(worked) == ~Throws(worked) /\ Tried(worked)
Call            == Returns(up)
Goto(r, l) == pc' = [pc EXCEPT ![r] = l]
Has(k)  == store[k] # NoEntry
Documents == {k \in {DocKey(asks[q]) : q \in Requests} : Has(k)}   \* _semantic_documents

Init == /\ \E s \in Scenes : asks = s.asks /\ may = s.may
        /\ store = [k \in Keys |-> NoEntry]
        /\ lock = [k \in Keys |-> Nobody]
        /\ up = TRUE /\ circuit = "new"
        /\ pc = [r \in Requests |-> "load"]
        /\ owned = [r \in Requests |-> FALSE]
        /\ held = [r \in Requests |-> NoEntry]
        /\ answer = [r \in Requests |-> Nobody]
        /\ outcome = [r \in Requests |-> "none"]
        /\ born = [r \in Requests |-> 0]
        /\ now = 0 /\ faults = 0 /\ lapsed = {} /\ doomed = {}

-----------------------------------------------------------------------------
(* Reading.                                                                *)

\* An operation the policy does not list, or sensitive words: nothing is asked of Redis.
Bypass(r) == /\ pc[r] = "load" /\ ~asks[r].cached
             /\ answer' = [answer EXCEPT ![r] = r]
             /\ Goto(r, "done")
             /\ UNCHANGED <<scene, redis, circuit, owned, held, outcome, born, world>>

\* _load_exact, before the lock is asked for and again and again while waiting for it
LoadHit(r) == /\ pc[r] \in {"load", "wait"} /\ asks[r].cached
              /\ Reached /\ Has(KeyOf(r)) /\ Valid(store[KeyOf(r)], r)
              /\ answer' = [answer EXCEPT ![r] = store[KeyOf(r)].by]
              /\ Goto(r, "touch") /\ Call
              /\ UNCHANGED <<scene, redis, owned, held, outcome, born, world>>

LoadInvalid(r) == /\ pc[r] \in {"load", "wait"} /\ asks[r].cached
                  /\ Reached /\ Has(KeyOf(r)) /\ ~Valid(store[KeyOf(r)], r)
                  /\ Goto(r, IF pc[r] = "load" THEN "discard" ELSE "drop") /\ Call
                  /\ UNCHANGED <<scene, redis, owned, held, answer, outcome, born, world>>

LoadMiss(r) == /\ pc[r] = "load" /\ asks[r].cached
               /\ ~(Reached /\ Has(KeyOf(r)))
               /\ Goto(r, "semantic") /\ Call
               /\ UNCHANGED <<scene, redis, owned, held, answer, outcome, born, world>>

\* A poll that finds nothing: only the circuit may change.
PollMiss(r) == /\ pc[r] = "wait"
               /\ ~(Reached /\ Has(KeyOf(r)))
               /\ Call
               /\ UNCHANGED <<scene, redis, calls, world>>

\* _delete: by name, whatever is there by now
Discard(r) == /\ pc[r] \in {"discard", "drop"}
              /\ store' = IF Reached THEN [store EXCEPT ![KeyOf(r)] = NoEntry] ELSE store
              /\ Goto(r, IF pc[r] = "discard" THEN "semantic" ELSE "wait") /\ Call
              /\ UNCHANGED <<scene, lock, up, owned, held, answer, outcome, born, world>>

\* _touch: counting a hit on a key that is gone is an error, and opens the circuit.
Touch(r) == /\ pc[r] = "touch"
            /\ Returns(up /\ Has(KeyOf(r)))
            /\ Goto(r, "done")
            /\ UNCHANGED <<scene, redis, owned, held, answer, outcome, born, world>>

\* _load_semantic: the search proposes documents, in any order and as many as are alike
\* enough; the first that may be used for this request is.
SemanticHit(r) ==
    /\ pc[r] = "semantic" /\ Reached
    /\ \E k \in Documents : LET e == store[k] IN
          /\ Reusable(e, r) /\ Whole(e)
          /\ answer' = [answer EXCEPT ![r] = e.by]
          /\ held' = [held EXCEPT ![r] = [e EXCEPT !.key = k]]
    /\ Goto(r, "touchdoc") /\ Call
    /\ UNCHANGED <<scene, redis, owned, outcome, born, world>>

\* A document that is not whole is deleted, and the next one looked at.
SemanticWeed(r) ==
    /\ pc[r] = "semantic" /\ Reached
    /\ \E k \in Documents :
          /\ Reusable(store[k], r) /\ ~Whole(store[k])
          /\ store' = [store EXCEPT ![k] = NoEntry]
    /\ Call
    /\ UNCHANGED <<scene, lock, up, calls, world>>

SemanticMiss(r) == /\ pc[r] = "semantic"
                   /\ Goto(r, "acquire") /\ Call
                   /\ UNCHANGED <<scene, redis, owned, held, answer, outcome, born, world>>

\* _touch_semantic, then _promote_semantic begins
TouchDoc(r) == /\ pc[r] = "touchdoc"
               /\ Returns(up /\ Has(held[r].key))
               /\ held' = [held EXCEPT ![r] = Promoted(@, r)]
               /\ Goto(r, "store")
               /\ UNCHANGED <<scene, redis, owned, answer, outcome, born, world>>

-----------------------------------------------------------------------------
(* The lock, and waiting for its holder.                                   *)

\* SET key token NX PX.  A call that fails may have been carried out all the same.
Acquire(r) ==
    LET k == KeyOf(r) IN
    /\ pc[r] = "acquire"
    /\ \/ /\ Reached /\ lock[k] = Nobody
          /\ lock' = [lock EXCEPT ![k] = r]
          /\ owned' = [owned EXCEPT ![r] = TRUE]
          /\ Goto(r, "compute")
       \/ /\ Reached /\ lock[k] # Nobody
          /\ Goto(r, "ping") /\ UNCHANGED <<lock, owned>>
       \/ /\ ~Reached
          /\ \/ UNCHANGED lock
             \/ /\ circuit # "open" /\ lock[k] = Nobody
                /\ lock' = [lock EXCEPT ![k] = r]
          /\ Goto(r, "ping") /\ UNCHANGED owned
    /\ Call
    /\ UNCHANGED <<scene, store, up, held, answer, outcome, born, world>>

\* ping goes round the circuit, and closes it when it is answered.
Ping(r) == /\ pc[r] = "ping"
           /\ IF up THEN circuit' = Closed /\ Goto(r, "wait")
                    ELSE UNCHANGED circuit /\ Goto(r, "compute")
           /\ UNCHANGED <<scene, redis, owned, held, answer, outcome, born, world>>

WaitOverForOwner(r) == /\ pc[r] = "wait" /\ lock[KeyOf(r)] = Nobody
                       /\ Goto(r, "compute")
                       /\ UNCHANGED <<scene, redis, circuit, owned, held, answer, outcome,
                                      born, world>>

WaitOver(r) == /\ pc[r] = "wait"
               /\ Goto(r, "compute")
               /\ UNCHANGED <<scene, redis, circuit, owned, held, answer, outcome, born, world>>

\* The value is computed: fit to be kept, refused by cache_if, sensitive or impossible to
\* serialise, or an exception that leaves through the `finally`.
Compute(r) == /\ pc[r] = "compute"
              /\ born' = [born EXCEPT ![r] = now]
              /\ \/ /\ outcome' = [outcome EXCEPT ![r] = "good"]
                    /\ answer' = [answer EXCEPT ![r] = r]
                    /\ held' = [held EXCEPT ![r] = Entry(asks[r], r)]
                    /\ Goto(r, "store")
                 \/ /\ outcome' = [outcome EXCEPT ![r] = "refused"]
                    /\ answer' = [answer EXCEPT ![r] = r]
                    /\ Goto(r, "record") /\ UNCHANGED held
                 \/ /\ outcome' = [outcome EXCEPT ![r] = "raised"]
                    /\ Goto(r, "release") /\ UNCHANGED <<held, answer>>
              /\ UNCHANGED <<scene, redis, circuit, owned, world>>

AfterStoreIndex(r) == "index"

\* _store_exact: a pipeline without a transaction, first the entry and then its lifetime.  A
\* failure of a promotion is raised to the caller; one of a value computed here is swallowed
\* (`except Exception`), and the index is left out.
AfterStore(r)  == IF held[r].by = r THEN "index" ELSE "record"
AfterBreak(r)  == IF "strict" \notin may THEN AfterStore(r)
                  ELSE IF held[r].by = r THEN "record" ELSE "unavailable"
StoreSetWithoutTtl(r) ==
    /\ pc[r] = "store"
    /\ store' = IF Reached THEN [store EXCEPT ![KeyOf(r)] = held[r]] ELSE store
    /\ Goto(r, IF Throws(up) THEN AfterBreak(r)
               ELSE IF Reached /\ held[r].by = r THEN "expire" ELSE AfterStore(r))
    /\ Tried(up)
    /\ UNCHANGED <<scene, lock, up, owned, held, answer, outcome, born, world>>
StoreSet(r) == /\ pc[r] = "store"
               /\ store' = IF Reached THEN [store EXCEPT ![KeyOf(r)] = held[r]] ELSE store
               /\ Goto(r, IF Reached THEN "expire"
                          ELSE IF Throws(up) THEN AfterBreak(r) ELSE AfterStore(r))
               /\ Tried(up)
               /\ UNCHANGED <<scene, lock, up, owned, held, answer, outcome, born, world>>

StoreTtl(r) == /\ pc[r] = "expire"
               /\ store' = IF up /\ Has(KeyOf(r))
                           THEN [store EXCEPT ![KeyOf(r)].left = ExactTtl] ELSE store
               /\ circuit' = IF up THEN Closed ELSE "open"
               /\ Goto(r, IF up THEN AfterStore(r) ELSE AfterBreak(r))
               /\ UNCHANGED <<scene, lock, up, owned, held, answer, outcome, born, world>>

\* _store_semantic: the document under a key that does not name the model, and its lifetime
Index(r) == /\ pc[r] = "index"
            /\ store' = IF Reached /\ asks[r].signature # NoSignature
                        THEN [store EXCEPT ![DocKey(asks[r])] = held[r]] ELSE store
            /\ Goto(r, IF Reached /\ asks[r].signature # NoSignature
                       THEN "indexTtl" ELSE "record")
            /\ IF asks[r].signature # NoSignature THEN Tried(up) ELSE UNCHANGED circuit
            /\ UNCHANGED <<scene, lock, up, owned, held, answer, outcome, born, world>>

IndexTtl(r) == /\ pc[r] = "indexTtl"
               /\ store' = IF up /\ Has(DocKey(asks[r]))
                           THEN [store EXCEPT ![DocKey(asks[r])].left = SemanticTtl] ELSE store
               /\ circuit' = IF up THEN Closed ELSE "open"
               /\ Goto(r, "record")
               /\ UNCHANGED <<scene, lock, up, owned, held, answer, outcome, born, world>>

\* _record_compute_event before the `finally`, _record_cache_event behind a promotion
Record(r) == /\ pc[r] = "record"
             /\ Goto(r, IF outcome[r] # "none" THEN "release" ELSE "done") /\ Call
             /\ UNCHANGED <<scene, redis, owned, held, answer, outcome, born, world>>

FreedAnyway(l, k, r) == [l EXCEPT ![k] = Nobody]

FreedIfGood(l, k, r) == IF l[k] = r /\ outcome[r] = "good" THEN [l EXCEPT ![k] = Nobody] ELSE l

\* The release script compares the token before it deletes.
Freed(l, k, r) == IF l[k] = r THEN [l EXCEPT ![k] = Nobody] ELSE l
Release(r) == /\ pc[r] \in {"release", "abandon"}
              /\ lock' = IF owned[r] /\ Reached THEN Freed(lock, KeyOf(r), r) ELSE lock
              /\ IF owned[r] THEN Call ELSE UNCHANGED circuit
              /\ owned' = [owned EXCEPT ![r] = FALSE]
              /\ Goto(r, IF pc[r] = "release" THEN "done" ELSE "unavailable")
              /\ UNCHANGED <<scene, store, up, held, answer, outcome, born, world>>

\* In strict mode a failing call ends the request with RedisUnavailable: before the value is
\* computed at once, even if the lock was taken; behind it through the `finally`, or from it.
Throw(r) ==
    /\ asks[r].cached /\ circuit' = "open"
    /\ \/ /\ \/ pc[r] \in {"load", "wait", "discard", "drop", "semantic"} /\ Throws(up)
             \/ pc[r] = "touch" /\ Throws(up /\ Has(KeyOf(r)))
             \/ pc[r] = "touchdoc" /\ Throws(up /\ Has(held[r].key))
          /\ Goto(r, "unavailable") /\ UNCHANGED <<lock, owned>>
       \/ /\ pc[r] = "acquire" /\ Throws(up) /\ Goto(r, "unavailable")
          /\ \/ UNCHANGED lock
             \/ lock[KeyOf(r)] = Nobody /\ lock' = [lock EXCEPT ![KeyOf(r)] = r]
          /\ UNCHANGED owned
       \/ /\ pc[r] = "record" /\ Throws(up) /\ UNCHANGED <<lock, owned>>
          /\ Goto(r, IF outcome[r] # "none" THEN "abandon" ELSE "unavailable")
       \/ /\ pc[r] \in {"release", "abandon"} /\ owned[r] /\ Throws(up)
          /\ Goto(r, "unavailable") /\ owned' = [owned EXCEPT ![r] = FALSE] /\ UNCHANGED lock
    /\ UNCHANGED <<scene, store, up, held, answer, outcome, born, world>>

-----------------------------------------------------------------------------
(* Time, failures and the administrator.                                   *)

Fault(kind) == kind \in may /\ faults < MaxFaults /\ faults' = faults + 1

Lapse(k) == /\ lock[k] # Nobody /\ Fault("lapse")
            /\ lock' = [lock EXCEPT ![k] = Nobody]
            /\ lapsed' = lapsed \cup {lock[k]}
            /\ UNCHANGED <<scene, store, up, circuit, calls, now, doomed>>

GoDown == /\ up /\ Fault("outage") /\ up' = FALSE
          /\ UNCHANGED <<scene, store, lock, circuit, calls, now, lapsed, doomed>>
ComeUp == ~up /\ up' = TRUE /\ UNCHANGED <<scene, store, lock, circuit, calls, world>>
CoolDown == circuit = "open" /\ circuit' = "closed" /\ UNCHANGED <<scene, redis, calls, world>>

\* Another release of the program, or another hand, leaves an entry that is not valid here.
Damage(k) == /\ Has(k) /\ store[k].sound /\ Fault("damage")
             /\ store' = [store EXCEPT ![k].sound = FALSE]
             /\ UNCHANGED <<scene, lock, up, circuit, calls, now, lapsed, doomed>>

\* clear: first the names, then their removal
ClearScan == /\ doomed = {} /\ Fault("clear") /\ Reached
             /\ doomed' = {k \in Keys : Has(k)}
             /\ UNCHANGED <<scene, redis, circuit, calls, now, lapsed>>
ClearUnlink == /\ doomed # {}
               /\ store' = IF Reached THEN [k \in Keys |-> IF k \in doomed THEN NoEntry ELSE store[k]]
                                      ELSE store
               /\ doomed' = {} /\ Call
               /\ UNCHANGED <<scene, lock, up, calls, now, faults, lapsed>>

AgedWrong(e) == [e EXCEPT !.left = @ - 1]
Aged(e) == IF e.left = 1 THEN NoEntry ELSE [e EXCEPT !.left = IF @ = NoTtl THEN NoTtl ELSE @ - 1]
Tick == /\ "time" \in may /\ now < MaxTicks
        /\ \A r \in Requests : pc[r] \in {"load", "wait", "compute", "done", "unavailable"}
        /\ now' = now + 1
        /\ store' = [k \in Keys |-> IF Has(k) THEN Aged(store[k]) ELSE NoEntry]
        /\ UNCHANGED <<scene, lock, up, circuit, calls, faults, lapsed, doomed>>

Step(r) == \/ Bypass(r) \/ LoadHit(r) \/ LoadInvalid(r) \/ LoadMiss(r) \/ PollMiss(r)
           \/ Discard(r) \/ Touch(r) \/ SemanticHit(r) \/ SemanticWeed(r) \/ SemanticMiss(r)
           \/ TouchDoc(r) \/ Acquire(r) \/ Ping(r) \/ WaitOver(r) \/ Compute(r)
           \/ StoreSet(r) \/ StoreTtl(r) \/ Index(r) \/ IndexTtl(r) \/ Record(r) \/ Release(r)
           \/ Throw(r)
World == \/ GoDown \/ ComeUp \/ CoolDown \/ ClearScan \/ ClearUnlink \/ Tick
         \/ \E k \in Keys : Lapse(k) \/ Damage(k)
Rest  == (\A r \in Requests : pc[r] \in {"done", "unavailable"}) /\ UNCHANGED vars
Next  == (\E r \in Requests : Step(r)) \/ World \/ Rest

\* Every request has a thread; the wait of the lock is bounded.
Spec == Init /\ [][Next]_vars /\ \A r \in Requests : WF_vars(Step(r)) /\ WF_vars(WaitOver(r))

-----------------------------------------------------------------------------
(* What is checked.                                                        *)

Labels  == {"load", "discard", "touch", "semantic", "touchdoc", "acquire", "ping", "wait", "drop",
            "compute", "store", "expire", "index", "indexTtl", "record", "release", "abandon",
            "done", "unavailable"}
Entries == {NoEntry} \cup
           [key : Keys, identity : {a.identity : a \in {asks[r] : r \in Requests}},
            version : {asks[r].version : r \in Requests}, model : {asks[r].model : r \in Requests},
            signature : {asks[r].signature : r \in Requests}, by : Requests,
            sound : BOOLEAN, left : Nat]

TypeOK == /\ \E s \in Scenes : asks = s.asks /\ may = s.may
          /\ store \in [Keys -> Entries]
          /\ lock \in [Keys -> Requests \cup {Nobody}]
          /\ up \in BOOLEAN /\ circuit \in {"new", "open", "closed"}
          /\ pc \in [Requests -> Labels]
          /\ owned \in [Requests -> BOOLEAN]
          /\ held \in [Requests -> Entries]
          /\ answer \in [Requests -> Requests \cup {Nobody}]
          /\ outcome \in [Requests -> {"none", "good", "refused", "raised"}]
          /\ born \in [Requests -> Nat]
          /\ now \in Nat /\ faults \in 0..MaxFaults /\ lapsed \subseteq Requests
          /\ doomed \subseteq Keys

\* An answer that another request computed was allowed to be kept, comes from the same prompts,
\* schemas and model, and was asked for the same thing: by the same identity, or by questions
\* with the same analytical signature.  It holds across promotion, damage, clearing and lapsed
\* locks.
Fits(o, r) == /\ outcome[o] = "good"
              /\ asks[o].version = asks[r].version /\ asks[o].model = asks[r].model
              /\ \/ asks[o].identity = asks[r].identity
                 \/ asks[r].signature \in {asks[o].signature} \ {NoSignature}
RightAnswer == \A r \in Requests : answer[r] \notin {Nobody, r} => Fits(answer[r], r)

\* One owner per key, besides those whose lock ran out of time under them: a late release never
\* frees the lock of the next owner.
Owners(k) == {r \in Requests : owned[r] /\ KeyOf(r) = k}
OneOwner == \A k \in Keys : Cardinality(Owners(k) \ lapsed) <= 1

\* While no call has failed, a lock in Redis belongs to a request that still owns it, ...
NoOrphanLock == circuit = "new" => \A k \in Keys : lock[k] # Nobody => owned[lock[k]]

\* ... and an entry without a lifetime is about to get one: nothing stays for ever.
Lifetimed(k) ==
    \E r \in Requests : \/ pc[r] = "expire" /\ KeyOf(r) = k
                        \/ pc[r] = "indexTtl" /\ DocKey(asks[r]) = k
NoImmortalEntry ==
    circuit = "new" => \A k \in Keys : Has(k) /\ store[k].left = NoTtl => Lifetimed(k)

\* Promotion gives an answer a second life and not a third: as long as no call has failed it is
\* served for less than both lifetimes together after it was computed.
Served(r) == answer'[r] # answer[r] /\ answer'[r] # r
FreshEnough == [][circuit' = "new" => \A r \in Requests : Served(r) =>
                      now - born[answer'[r]] < ExactTtl + SemanticTtl - 1]_vars

\* Every request ends, whatever Redis does: with an answer or with the exception of its own work;
\* with RedisUnavailable only where Redis is required and a call to it has failed.
Ended(r) == \/ pc[r] = "done" /\ (answer[r] = Nobody => outcome[r] = "raised")
            \/ pc[r] = "unavailable" /\ "strict" \in may /\ circuit # "new"
Answered == <>(\A r \in Requests : Ended(r))

\* What is served was computed for the same thing and is not too old (service.py:286-420).
ServedRight == [](TypeOK /\ RightAnswer) /\ FreshEnough

\* Every lock and every entry has one owner or an end (locks.py, service.py:384).
NothingStaysBehind == OneOwner /\ NoOrphanLock /\ NoImmortalEntry
=============================================================================
