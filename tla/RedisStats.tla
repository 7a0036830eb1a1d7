---------------------------- MODULE RedisStats ----------------------------
(***************************************************************************)
(* agents/cache/rate_limit.py and telemetry.py: the window counters that   *)
(* admit a model call, and what the worker threads of one runtime write    *)
(* about a run: an event in the stream, counters beside it, and a summary  *)
(* that is read, changed and written back.  Redis may fail at any command; *)
(* the failure is swallowed, or raised where REDIS_REQUIRED is set.        *)
(***************************************************************************)
EXTENDS Naturals, FiniteSets, FiniteSetsExt

CONSTANTS Workers,      \* the threads of one runtime
          GlobalLimit,  \* redis.global_llm_rate_limit; 0 switches it off
          AgentLimit,   \* the limit of each specialist
          StreamMaxlen, \* redis.agent_stream_maxlen
          MaxFailures   \* bound: the commands that fail

Specialists == DOMAIN AgentLimit

ASSUME RedisStatsAssumption == /\ GlobalLimit \in Nat /\ \A a \in Specialists : AgentLimit[a] \in Nat
                               /\ StreamMaxlen \in Nat \ {0}
                               /\ MaxFailures \in Nat /\ IsFiniteSet(Workers) /\ "free" \notin Workers

VARIABLES window,   \* the counters of the windows: the global one and each specialist's
          admitted, \* history: the calls the script let through since each window began
          stream,   \* how many events the stream of agent events holds
          counters, \* stats:counters
          summary,  \* the JSON document of the run
          merged,   \* history: the workers whose events were written into the summary
          runLock,  \* TelemetryStore._run_lock
          worker,   \* each worker
          failures
statsVars == <<window, admitted, stream, counters, summary, merged, runLock, worker, failures>>

Windows == {"global"} \cup Specialists
NoEvent == [agent |-> "none", status |-> "none", called |-> FALSE, saved |-> FALSE]
NoRun == [called |-> 0, saved |-> 0, result |-> "working", cache |-> [a \in Specialists |-> ""]]
None  == [called |-> 0, saved |-> 0, result |-> "none",    cache |-> [a \in Specialists |-> ""]]

StatsInit == /\ window = [k \in Windows |-> 0] /\ admitted = [k \in Windows |-> 0]
             /\ stream = 0 /\ summary = None /\ merged = {} /\ runLock = "free" /\ failures = 0
             /\ counters = [hits |-> 0, misses |-> 0, called |-> 0, avoided |-> 0]
             /\ worker = [w \in Workers |-> [at |-> "start", event |-> NoEvent, copy |-> None]]

Goes(w, at)      == worker' = [worker EXCEPT ![w].at = at]
Records(w, e)    == worker' = [worker EXCEPT ![w] = [at |-> "record", event |-> e, copy |-> @.copy]]
Reads(w, at, s)  == worker' = [worker EXCEPT ![w] = [at |-> at, event |-> @.event, copy |-> s]]
Fails == failures < MaxFailures /\ failures' = failures + 1

-----------------------------------------------------------------------------
(* The two limits: one script, which Redis runs as a whole.                *)

Limited(k) == IF k = "global" THEN GlobalLimit > 0 ELSE AgentLimit[k] > 0
Room(k)    == window[k] < IF k = "global" THEN GlobalLimit ELSE AgentLimit[k]

TakenWithoutReturn(a) ==
    IF Limited("global") /\ ~Room("global") THEN window
    ELSE [k \in Windows |-> IF Limited(k) /\ (k = "global" \/ (k = a /\ Room(a)))
                            THEN window[k] + 1 ELSE window[k]]

\* A refusal by the second limit gives back what the first one took.
Taken(a) == IF \E k \in {"global", a} : Limited(k) /\ ~Room(k) THEN window
            ELSE [k \in Windows |-> IF k \in {"global", a} /\ Limited(k)
                                    THEN window[k] + 1 ELSE window[k]]
Allowed(a) == \A k \in {"global", a} : Limited(k) => Room(k)
\* allow: the model is called, or the operation goes on without it.
Passed(a) == [k \in Windows |-> IF Allowed(a) /\ k \in {"global", a} THEN admitted[k] + 1 ELSE admitted[k]]
Uncached(a, called) == [agent |-> a, status |-> "miss", called |-> called, saved |-> FALSE]
Allow(w, a) ==
    /\ worker[w].at = "start" /\ window' = Taken(a) /\ admitted' = Passed(a)
    /\ Records(w, Uncached(a, Allowed(a)))
    /\ UNCHANGED <<stream, counters, summary, merged, runLock, failures>>
\* Redis does not answer, whether the script ran or not: the limiter fails open, or the failure
\* is raised and nothing follows.
AllowOpen(w, a) ==
    /\ worker[w].at = "start" /\ Fails
    /\ \/ window' = Taken(a) /\ admitted' = Passed(a)
       \/ UNCHANGED <<window, admitted>>
    /\ Records(w, Uncached(a, TRUE)) \/ Goes(w, "done")
    /\ UNCHANGED <<stream, counters, summary, merged, runLock>>
\* An answer from the cache
Reuse(w, a) ==
    /\ worker[w].at = "start"
    /\ Records(w, [agent |-> a, status |-> "hit", called |-> FALSE, saved |-> TRUE])
    /\ UNCHANGED <<window, admitted, stream, counters, summary, merged, runLock, failures>>
\* EX ... ENX: a window ends by itself, each at its own time.
WindowEnds(k) == /\ window[k] > 0 /\ window' = [window EXCEPT ![k] = 0]
                 /\ admitted' = [admitted EXCEPT ![k] = 0]
                 /\ UNCHANGED <<stream, counters, summary, merged, runLock, worker, failures>>

-----------------------------------------------------------------------------
(* record_operation: a pipeline that is no transaction, then the summary.  *)

One(b) == IF b THEN 1 ELSE 0
Counted(e) == [hits |-> counters.hits + One(e.status = "hit"),
               misses |-> counters.misses + One(e.status = "miss"),
               called |-> counters.called + One(e.called), avoided |-> counters.avoided + One(e.saved)]
XaddTrimsMore == 1..(stream + 1)
\* XADD MAXLEN ~: the oldest events may go, the newest StreamMaxlen stay.
Xadd == {n \in 1..(stream + 1) : n = stream + 1 \/ n >= StreamMaxlen}
RecordOperation(w) ==
    /\ worker[w].at = "record" /\ stream' \in Xadd
    /\ counters' = Counted(worker[w].event) /\ Goes(w, "merge")
    /\ UNCHANGED <<window, admitted, summary, merged, runLock, failures>>
RecordBreaksBehind(w) ==
    /\ worker[w].at = "record" /\ Fails /\ counters' \in {counters, Counted(worker[w].event)}
    /\ Goes(w, "merge")
    /\ UNCHANGED <<window, admitted, stream, summary, merged, runLock>>

\* The connection breaks before the first command of the pipeline or behind the event; where the
\* failure is raised the summary is not written either.
RecordBreaks(w) ==
    /\ worker[w].at = "record" /\ Fails /\ stream' \in {stream} \cup Xadd
    /\ Goes(w, "merge") \/ Goes(w, "done")
    /\ UNCHANGED <<window, admitted, counters, summary, merged, runLock>>

MergeReadUnlocked(w) ==
    /\ worker[w].at \in {"merge", "complete"}
    /\ Reads(w, IF worker[w].at = "merge" THEN "write" ELSE "close",
             IF summary = None THEN NoRun ELSE summary)
    /\ UNCHANGED <<window, admitted, stream, counters, summary, merged, runLock, failures>>
\* _merge_run takes the lock and reads.
MergeRead(w) ==
    /\ worker[w].at \in {"merge", "complete"} /\ runLock = "free" /\ runLock' = w
    /\ Reads(w, IF worker[w].at = "merge" THEN "write" ELSE "close",
             IF summary = None THEN NoRun ELSE summary)
    /\ UNCHANGED <<window, admitted, stream, counters, summary, merged, failures>>
PatchedWhole(s, e) == [called |-> s.called + One(e.called), saved |-> s.saved + One(e.saved),
                       result |-> "completed", cache |-> [s.cache EXCEPT ![e.agent] = e.status]]
\* _update_run_from_event: what is added, and the specialist's last cache status.
Patched(s, e) == [s EXCEPT !.called = @ + One(e.called), !.saved = @ + One(e.saved),
                           !.cache[e.agent] = e.status]
Merge(w) ==
    /\ worker[w].at = "write" /\ summary' = Patched(worker[w].copy, worker[w].event)
    /\ merged' = merged \cup {w} /\ runLock' = "free" /\ Goes(w, "done")
    /\ UNCHANGED <<window, admitted, stream, counters, failures>>
\* The read or the write fails: the lock is released and the patch is lost.
MergeBreaks(w) ==
    /\ worker[w].at \in {"write", "close"} /\ Fails /\ runLock' = "free" /\ Goes(w, "done")
    /\ UNCHANGED <<window, admitted, stream, counters, summary, merged>>
\* complete_run, by the thread of the turn
Complete(w) ==
    /\ worker[w].at = "start" /\ \A v \in Workers : worker[v].at \notin {"complete", "close"}
    /\ summary.result \in {"none", "working"} /\ Goes(w, "complete")
    /\ UNCHANGED <<window, admitted, stream, counters, summary, merged, runLock, failures>>
CompleteWrite(w) ==
    /\ worker[w].at = "close" /\ summary' = [worker[w].copy EXCEPT !.result = "answered"]
    /\ runLock' = "free" /\ Goes(w, "done")
    /\ UNCHANGED <<window, admitted, stream, counters, merged, failures>>
\* The turn is over.
StatsRest == (\A w \in Workers : worker[w].at = "done") /\ UNCHANGED statsVars

StatsNext ==
    \/ \E w \in Workers :
          \/ \E a \in Specialists : Allow(w, a) \/ AllowOpen(w, a) \/ Reuse(w, a)
          \/ RecordOperation(w) \/ RecordBreaks(w) \/ MergeRead(w) \/ Merge(w) \/ MergeBreaks(w)
          \/ Complete(w) \/ CompleteWrite(w)
    \/ \E k \in Windows : WindowEnds(k)
    \/ StatsRest

-----------------------------------------------------------------------------
(* What is checked.                                                        *)

\* In every window as many calls are let through as its counter says, and never more than its
\* limit: a call that the specialist's limit refuses costs the others nothing.
LimitsAreExact == \A k \in Windows : Limited(k) =>
    /\ admitted[k] = window[k]
    /\ window[k] <= IF k = "global" THEN GlobalLimit ELSE AgentLimit[k]

\* The summary counts every event that was written into it, exactly once, whichever threads
\* write at a time.
RunAddsUp == summary # None =>
    /\ summary.called = Quantify(merged, LAMBDA w : worker[w].event.called)
    /\ summary.saved  = Quantify(merged, LAMBDA w : worker[w].event.saved)

\* A run that was completed stays so, whatever event arrives later.
CompletionStays == [][summary.result = "answered" /\ summary' # None =>
                         summary'.result = "answered"]_summary

\* Nothing is counted before it is in the stream, the authority: the counters, which are never
\* cut, run ahead of it only when it is full and its oldest events may have been trimmed.
StreamLeads == \A n \in {counters.hits + counters.misses, counters.called + counters.avoided} :
                  n <= stream \/ stream >= StreamMaxlen

StatsTypeOK == /\ \A k \in Windows : window[k] \in Nat
               /\ stream \in Nat /\ merged \subseteq Workers
               /\ runLock \in Workers \cup {"free"} /\ failures \in 0..MaxFailures
               /\ (runLock # "free" <=> \E w \in Workers : worker[w].at \in {"write", "close"})

\* What the counters say has happened, as often as they say (telemetry.py, rate_limit.py).
StatsHold == [](StatsTypeOK /\ LimitsAreExact /\ RunAddsUp /\ StreamLeads) /\ CompletionStays
=============================================================================
