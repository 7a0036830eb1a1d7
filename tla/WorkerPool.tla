----------------------------- MODULE WorkerPool -----------------------------
(***************************************************************************)
(* The threads of the A2A loop (agents/a2a/runtime.py, _LoopThread).       *)
(* Every skill is handled on a thread of one pool, and a handler that      *)
(* calls another agent keeps its thread while the callee waits for one.    *)
(* A call that has timed out releases the thread that waits for it; what   *)
(* was called runs on, or is taken out of the queue, as the server         *)
(* library decides.                                                        *)
(***************************************************************************)
EXTENDS Naturals, Sequences, FiniteSets, SequencesExt, TLC

CONSTANTS PoolTurns,   \* turns of users
          Threads,     \* WORKER_THREADS
          Depth,       \* agents one below the other: orchestrator, domain expert, MCP agent
          MaxJobs      \* bound: calls made altogether

ASSUME PoolAssumption == {Threads, Depth, MaxJobs} \subseteq Nat \ {0}

\* A job is a call, named by its path: its turn, then which call of its caller it is.
VARIABLES jobs,   \* job -> where it is, and whether its caller still waits for it
          queue   \* the jobs that wait for a thread
poolVars == <<jobs, queue>>

TurnOf(job)    == job[1]
Callees(job)   == {j \in DOMAIN jobs : Len(j) = Len(job) + 1 /\ Front(j) = job}
OnThread       == {j \in DOMAIN jobs : jobs[j].at = "running"}
Waits(job)     == \E j \in Callees(job) : jobs[j].awaited
JobsOf(t)      == {j \in DOMAIN jobs : TurnOf(j) = t}
Orphaned(t)    == \E j \in JobsOf(t) : ~jobs[j].awaited /\ jobs[j].at \in {"queued", "running"}
Set(job, at, awaited) ==
    jobs' = [j \in DOMAIN jobs \cup {job} |->
               IF j = job THEN [at |-> at, awaited |-> awaited] ELSE jobs[j]]

PoolInit == jobs = <<>> /\ queue = <<>>

Enqueue(job) == /\ Cardinality(DOMAIN jobs) < MaxJobs
                /\ Set(job, "queued", TRUE) /\ queue' = Append(queue, job)
UserAsks(t) == <<t>> \notin DOMAIN jobs /\ Enqueue(<<t>>)

CallsBeside(job) == job \in OnThread /\ Len(job) < Depth
                    /\ Enqueue(Append(job, Cardinality(Callees(job)) + 1))
\* dispatch: the handler's thread submits the call and waits for its result.
CallsAgent(job) == /\ job \in OnThread /\ ~Waits(job) /\ Len(job) < Depth
                   /\ Enqueue(Append(job, Cardinality(Callees(job)) + 1))

\* asyncio.to_thread: the first in the queue gets a thread that is free.
TakeThread == /\ queue # <<>> /\ Cardinality(OnThread) < Threads
              /\ Set(Head(queue), "running", jobs[Head(queue)].awaited) /\ queue' = Tail(queue)

HandlerReturns(job) == /\ job \in OnThread /\ ~Waits(job)
                       /\ Set(job, "done", FALSE) /\ UNCHANGED queue

GiveUpAtBoundary(job) == /\ Len(job) = 1 /\ jobs[job].awaited
                         /\ Set(job, jobs[job].at, FALSE) /\ UNCHANGED queue
\* The link's deadline: the caller hears of the failure; a job in the queue may go with it.
GiveUp(job) ==
    /\ jobs[job].awaited
    /\ \/ Set(job, jobs[job].at, FALSE) /\ UNCHANGED queue
       \/ /\ jobs[job].at = "queued"
          /\ Set(job, "dropped", FALSE)
          /\ \E n \in DOMAIN queue : queue[n] = job /\ queue' = RemoveAt(queue, n)

PoolNext == \/ \E t \in PoolTurns : UserAsks(t)
            \/ \E job \in DOMAIN jobs : CallsAgent(job) \/ HandlerReturns(job) \/ GiveUp(job)
            \/ TakeThread

\* Threads go on, handlers end (the model's and the tools' calls have timeouts of their own) and
\* deadlines come.
PoolFairness == /\ WF_poolVars(TakeThread)
                /\ WF_poolVars(\E job \in DOMAIN jobs : HandlerReturns(job))
                /\ WF_poolVars(\E job \in DOMAIN jobs : GiveUp(job))

-----------------------------------------------------------------------------
(* What is checked.                                                        *)

\* Nobody can go on, but for deadlines: every thread waits for a call that waits for a thread.
Stuck == queue # <<>> /\ Cardinality(OnThread) = Threads /\ \A j \in OnThread : Waits(j)
\* As long as no call was given up, that takes so many turns at once that two threads of each fill
\* the pool.
StuckTakesManyTurns ==
    Stuck /\ (\A t \in PoolTurns : ~Orphaned(t)) =>
        (Depth - 1) * Cardinality({TurnOf(j) : j \in OnThread}) >= Threads

\* The deadlines undo it: no call stays in the queue for ever.
QueueMovesOn == []<>(queue = <<>>)

\* The pool is brought to a halt by many turns only, and never for good (runtime.py:62).
PoolMoves == []StuckTakesManyTurns /\ QueueMovesOn
=============================================================================
