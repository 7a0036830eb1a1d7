----------------------------- MODULE McpBridge -----------------------------
(***************************************************************************)
(* backend/providers/mcp.py over mcp_servers/host: the threads of the      *)
(* agents share one bridge to the servers, an event loop in a thread of    *)
(* its own.  The bridge is started by the first thread that needs it, its  *)
(* calls time out on the side of the caller only, and a question a server  *)
(* raises is answered from, or recorded in, the relay of the block of work *)
(* in which the call was made.                                             *)
(***************************************************************************)
EXTENDS Naturals, FiniteSetsExt

CONSTANTS Threads,
          MaxBridges,  \* bound: the bridges ever started
          MaxWork,     \* bound: calls of all threads
          MaxScopes,   \* bound: blocks of work of a thread
          MaxRounds,   \* policy.max_rounds: 8
          Fields       \* the fields a server asks for

ASSUME McpBridgeAssumption == {MaxBridges, MaxWork, MaxScopes, MaxRounds} \subseteq Nat \ {0} /\ "none" \notin Threads

VARIABLES host,     \* of each bridge: the McpHost in its thread
          instance, \* _McpBridge._instance: 0 is None
          holder,   \* _McpBridge._lock
          thread,   \* the agent threads
          relays,   \* the ElicitationRelay of each block of work: thread, block
          inflight  \* the coroutines on the loop, those nobody waits for included
bridgeVars == <<host, instance, holder, thread, relays, inflight>>

Bridges == 1..MaxBridges
NoQuestion == [by |-> "none", call |-> 0]
Blank   == [answers |-> {}, pending |-> NoQuestion]
Scopes  == 1..MaxScopes

BridgeInit == /\ host = [b \in Bridges |-> "none"] /\ instance = 0 /\ holder = "none"
              /\ thread = [t \in Threads |-> [at |-> "new", bridge |-> 0, calls |-> 0, scope |-> 0,
                                              opened |-> 0, declined |-> {}, missed |-> FALSE]]
              /\ relays = [t \in Threads |-> [n \in Scopes |-> Blank]]
              /\ inflight = {}

Calls == MapThenSumSet(LAMBDA t : thread[t].calls, Threads)
Updated(r, changes) == [x \in DOMAIN r |-> IF x \in DOMAIN changes THEN changes[x] ELSE r[x]]
Set(t, changes) == thread' = [thread EXCEPT ![t] = Updated(@, changes)]

-----------------------------------------------------------------------------
(* instance() and the start: the class lock is held all the while.         *)

InstanceOfItsOwn(t) ==
    /\ thread[t].at = "new" /\ holder = "none"
    /\ \E b \in Bridges :
          /\ host[b] = "none" /\ \A c \in Bridges : host[c] = "none" => b <= c
          /\ host' = [host EXCEPT ![b] = "starting"] /\ holder' = t
          /\ Set(t, [at |-> "starting", bridge |-> b])
    /\ UNCHANGED <<instance, relays, inflight>>
Instance(t) ==
    /\ thread[t].at = "new" /\ holder = "none"
    /\ IF instance # 0
       THEN Set(t, [at |-> "ready", bridge |-> instance]) /\ UNCHANGED <<host, holder>>
       ELSE \E b \in Bridges :
               /\ host[b] = "none" /\ \A c \in Bridges : host[c] = "none" => b <= c
               /\ host' = [host EXCEPT ![b] = "starting"] /\ holder' = t
               /\ Set(t, [at |-> "starting", bridge |-> b])
    /\ UNCHANGED <<instance, relays, inflight>>
\* _serve: the servers are started and discovered one by one; _ready is set, or _run reports why not.
ComesUp(b)   == /\ host[b] = "starting" /\ host' = [host EXCEPT ![b] = "up"]
                /\ UNCHANGED <<instance, holder, thread, relays, inflight>>
StartFails(b)== /\ host[b] = "starting" /\ host' = [host EXCEPT ![b] = "failed"]
                /\ UNCHANGED <<instance, holder, thread, relays, inflight>>
Started(t)   == /\ thread[t].at = "starting" /\ host[thread[t].bridge] = "up"
                /\ instance' = thread[t].bridge /\ holder' = "none"
                /\ Set(t, [at |-> "ready"]) /\ UNCHANGED <<host, relays, inflight>>
NotStartedHeld(t) == /\ thread[t].at = "starting" /\ host[thread[t].bridge] \in {"starting", "failed"}
                     /\ Set(t, [at |-> "raised"])
                     /\ UNCHANGED <<host, instance, holder, relays, inflight>>
\* McpUnavailable, after the error or after 90 s: the lock is released and there is no instance,
\* but what has been started goes on and may come up later.
NotStarted(t)== /\ thread[t].at = "starting" /\ host[thread[t].bridge] \in {"starting", "failed"}
                /\ holder' = "none" /\ Set(t, [at |-> "raised"])
                /\ UNCHANGED <<host, instance, relays, inflight>>
\* The connection breaks: _serve ends with an exception, the loop is closed, and the coroutines die.
Dies(b)      == /\ host[b] = "up" /\ b = instance /\ host' = [host EXCEPT ![b] = "down"]
                /\ inflight' = {k \in inflight : k.bridge # b}
                /\ UNCHANGED <<instance, holder, thread, relays>>

NewCall(t) == [by |-> t, bridge |-> thread[t].bridge, call |-> thread[t].calls + 1,
               scope |-> thread[t].scope, round |-> 0, declined |-> FALSE, from |-> {}]

-----------------------------------------------------------------------------
(* input_scope: a block of work with a relay of its own, thread-local.        *)

OpenScope(t) ==
    /\ thread[t].at = "ready" /\ thread[t].scope = 0 /\ thread[t].opened < MaxScopes
    /\ \E answers \in SUBSET Fields :
          relays' = [relays EXCEPT ![t][thread[t].opened + 1].answers = answers]
    /\ Set(t, [scope |-> thread[t].opened + 1, opened |-> thread[t].opened + 1])
    /\ UNCHANGED <<host, instance, holder, inflight>>
\* The caller reads `pending` after the block.  (History: whether an answer the server gave to a
\* declined question goes by without it.)
CloseScope(t) ==
    /\ thread[t].at = "ready" /\ thread[t].scope > 0
    /\ LET n == thread[t].scope IN
       Set(t, [scope |-> 0, missed |-> thread[t].missed \/ (n \in thread[t].declined
                                          /\ relays[t][n].pending = NoQuestion)])
    /\ UNCHANGED <<host, instance, holder, relays, inflight>>

CallRawClears(t) ==
    /\ thread[t].at = "ready" /\ Calls < MaxWork /\ host[thread[t].bridge] = "up"
    /\ inflight' = inflight \cup {NewCall(t)}
    /\ relays' = [relays EXCEPT ![t] = [n \in DOMAIN @ |-> [@[n] EXCEPT !.pending = NoQuestion]]]
    /\ Set(t, [at |-> "calling", calls |-> thread[t].calls + 1])
    /\ UNCHANGED <<host, instance, holder>>
\* call_raw: the relay is installed inside the coroutine.
CallRaw(t) ==
    /\ thread[t].at = "ready" /\ Calls < MaxWork /\ host[thread[t].bridge] = "up"
    /\ inflight' = inflight \cup {NewCall(t)}
    /\ Set(t, [at |-> "calling", calls |-> thread[t].calls + 1])
    /\ UNCHANGED <<host, instance, holder, relays>>
\* The loop is closed by now.
CallRefused(t) ==
    /\ thread[t].at = "ready" /\ Calls < MaxWork /\ host[thread[t].bridge] = "down"
    /\ Set(t, [at |-> "raised", scope |-> 0])
    /\ UNCHANGED <<host, instance, holder, relays, inflight>>
Leave(t) == /\ thread[t].at = "ready" /\ thread[t].scope = 0 /\ Set(t, [at |-> "done"])
            /\ UNCHANGED <<host, instance, holder, relays, inflight>>

-----------------------------------------------------------------------------
(* call_with_input_required: rounds of questions until the tool is done.   *)

RelayOfLoop(k) == LET j == CHOOSE j \in inflight : \A i \in inflight : i.call <= j.call
                  IN <<j.by, j.scope>>
\* active_relay: the context variable of the coroutine
RelayOf(k) == <<k.by, k.scope>>

\* ElicitationRelay.answer_for: every field or nothing
AnswersAll(relay) == relay.answers = Fields
\* ElicitationRelay.record: the first question wins.
Recorded(relay, k) ==
    IF relay.pending = NoQuestion THEN [relay EXCEPT !.pending = [by |-> k.by, call |-> k.call]]
    ELSE relay
Continue(k, changes) == inflight' = (inflight \ {k}) \cup {Updated([k EXCEPT !.round = @ + 1], changes)}

ElicitForEver(k) ==
    /\ k.round <= MaxRounds
    /\ LET r == RelayOf(k) IN
       IF r[2] = 0 THEN Continue(k, [declined |-> TRUE]) /\ UNCHANGED relays
       ELSE IF AnswersAll(relays[r[1]][r[2]])
            THEN Continue(k, [from |-> k.from \cup {<<r, relays[r[1]][r[2]].answers>>}])
                 /\ UNCHANGED relays
       ELSE /\ Continue(k, [declined |-> TRUE])
            /\ relays' = [relays EXCEPT ![r[1]][r[2]] = Recorded(@, k)]
    /\ UNCHANGED <<host, instance, holder, thread>>
\* make_elicitation_callback in relay mode: accepted with the user's answer, or declined and
\* recorded; without a relay only declined.
Elicit(k) ==
    /\ k.round < MaxRounds
    /\ LET r == RelayOf(k) IN
       IF r[2] = 0 THEN Continue(k, [declined |-> TRUE]) /\ UNCHANGED relays
       ELSE IF AnswersAll(relays[r[1]][r[2]])
            THEN Continue(k, [from |-> k.from \cup {<<r, relays[r[1]][r[2]].answers>>}])
                 /\ UNCHANGED relays
       ELSE /\ Continue(k, [declined |-> TRUE])
            /\ relays' = [relays EXCEPT ![r[1]][r[2]] = Recorded(@, k)]
    /\ UNCHANGED <<host, instance, holder, thread>>
Awaited(k) == thread[k.by].at = "calling" /\ thread[k.by].calls = k.call
\* The tool is done, or has asked too often; what nobody waits for is dropped.
Return(k) ==
    /\ inflight' = inflight \ {k}
    /\ IF Awaited(k)
       THEN Set(k.by, [at |-> "ready",
                       declined |-> IF k.declined /\ k.scope # 0
                                    THEN thread[k.by].declined \cup {k.scope} ELSE thread[k.by].declined])
       ELSE UNCHANGED thread
    /\ UNCHANGED <<host, instance, holder, relays>>
\* future.result(120): the caller gives up, or the connection broke; the exception ends its blocks
\* of work, and the coroutine, if it lives, is not cancelled.
CallTimesOut(t) == /\ thread[t].at = "calling" /\ Set(t, [at |-> "raised", scope |-> 0])
                   /\ UNCHANGED <<host, instance, holder, relays, inflight>>
\* The next task of the thread, on the bridge it has (its first task is not tried again here)
Again(t) == /\ thread[t].at = "raised" /\ thread[t].calls > 0 /\ Set(t, [at |-> "ready"])
            /\ UNCHANGED <<host, instance, holder, relays, inflight>>

BridgeStep(t) == \/ Instance(t) \/ Started(t) \/ NotStarted(t) \/ CallTimesOut(t) \/ CallRefused(t)
                 \/ CloseScope(t) \/ Leave(t)
BridgeNext == \/ \E t \in Threads : BridgeStep(t) \/ OpenScope(t) \/ CallRaw(t) \/ Again(t)
              \/ \E b \in Bridges : ComesUp(b) \/ StartFails(b) \/ Dies(b)
              \/ \E k \in inflight : Return(k) \/ Elicit(k)

-----------------------------------------------------------------------------
(* What is checked.                                                        *)

\* A question waits in the relay of the block of work whose call raised it, and a call is answered
\* from its own relay alone and in full, however many threads share the loop and however long a
\* call outlives its caller's patience.
QuestionsStayApart ==
    /\ \A t \in Threads, n \in Scopes : relays[t][n].pending.by \in {t, "none"}
    /\ \A k \in inflight : \A a \in k.from : a = <<<<k.by, k.scope>>, Fields>>

\* An answer that a server gave after a declined question does not pass for the final one: the
\* question is there when the block of work ends.
DeclineIsReported == \A t \in Threads : ~thread[t].missed

\* All threads use one bridge, and it is one that has come up.
OneBridgeInUse ==
    /\ \A t \in Threads : thread[t].at \in {"ready", "calling", "done"} =>
          thread[t].bridge = instance /\ host[instance] \in {"up", "down"}
    /\ \A k \in inflight : k.bridge = instance
    /\ holder # "none" <=> \E t \in Threads : thread[t].at = "starting"

\* Whatever starts, fails to start, dies or never answers, no thread waits for ever.
NobodyWaits == \A t \in Threads :
    (\E u \in Threads : thread[u].at # "new") ~> thread[t].at \in {"ready", "raised", "done"}

BridgeTypeOK == /\ host \in [Bridges -> {"none", "starting", "up", "failed", "down"}]
                /\ instance \in {0} \cup Bridges /\ holder \in Threads \cup {"none"}
                /\ \A k \in inflight : k.round <= MaxRounds /\ k.scope \in 0..MaxScopes /\ k.call \in 1..thread[k.by].calls
                /\ \A j, k \in inflight : j.by = k.by /\ j.call = k.call => j = k

\* Many threads share one bridge: its questions stay apart, a declined one is told, and nobody
\* waits for ever (providers/mcp.py).
BridgeHolds == [](BridgeTypeOK /\ OneBridgeInUse /\ DeclineIsReported /\ QuestionsStayApart) /\ NobodyWaits
=============================================================================
