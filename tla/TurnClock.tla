------------------------------ MODULE TurnClock ------------------------------
(***************************************************************************)
(* The deadlines of one turn.  Every call is given what is left of the     *)
(* turn when its coroutine starts (TurnLedger.remaining_seconds, never     *)
(* below a floor), and the thread that made it waits a little longer for   *)
(* the event loop to deliver the result (dispatch, AgentNetwork._ask).     *)
(*                                                                         *)
(* Time is in ticks since the ledger was opened.  The event loop starts a  *)
(* coroutine at most Lag ticks after it was submitted, and fires a timer   *)
(* on the tick it is due; those two assumptions are made by Tick and       *)
(* nowhere else.  A call that expires releases its caller; the thread that *)
(* serves it is not stopped and may go on calling.                         *)
(***************************************************************************)
EXTENDS Naturals, Sequences

CONSTANTS
  Turn,      \* turn_timeout_s
  Floor,     \* the least a call is given
  Grace,     \* how much longer the bridge waits than the call may take
  Lag,       \* how long the loop may take to start a coroutine
  MaxCalls,  \* a bound on the calls made; the handoff limit stands behind it
  Horizon    \* a bound on time, for TLC; nothing in the code is like it

ASSUME ClockAssumption ==
  /\ Turn \in Nat /\ Floor \in Nat /\ Grace \in Nat /\ Lag \in Nat
  /\ MaxCalls \in Nat \ {0} /\ Horizon \in Nat
  /\ 0 < Floor /\ Floor <= Turn

VARIABLES
  now,
  requests,     \* the turn's calls in the order they were made
  busy       \* the calls whose worker thread is alive

clockVars == <<now, requests, busy>>

Stages == {"submitted", "open", "answered", "expired"}
Pending == {"submitted", "open"}

Request ==
  [parent : Nat, made : Nat, bridge : Nat, started : Nat, limit : Nat,
   stage : Stages, awaited : BOOLEAN]

MaxOf(a, b) == IF a >= b THEN a ELSE b

\* A flat allowance for every call, as before there was a turn budget.
RemainingFlatWrong == Turn

\* What is left of the turn, and the floor under it.  Truncated subtraction:
\* a negative rest is below the floor anyway.
Remaining == MaxOf(Floor, IF now <= Turn THEN Turn - now ELSE 0)

\* The caller's thread is blocked on a call as long as it awaits it.
Blocked(p) == \E n \in DOMAIN requests : requests[n].parent = p /\ requests[n].awaited

\* A bridge that waits no longer than the call it waits for.
SubmitWrong(p) ==
  /\ IF p = 0 THEN requests = <<>> ELSE p \in busy /\ ~Blocked(p)
  /\ Len(requests) < MaxCalls
  /\ requests' = Append(requests, [parent |-> p, made |-> now,
                             bridge |-> now + Remaining,
                             started |-> 0, limit |-> 0,
                             stage |-> "submitted", awaited |-> TRUE])
  /\ UNCHANGED <<now, busy>>

\* A thread makes a call: the boundary the first, a handler any other.
Submit(p) ==
  /\ IF p = 0 THEN requests = <<>> ELSE p \in busy /\ ~Blocked(p)
  /\ Len(requests) < MaxCalls
  /\ requests' = Append(requests, [parent |-> p, made |-> now,
                             bridge |-> now + Remaining + Grace,
                             started |-> 0, limit |-> 0,
                             stage |-> "submitted", awaited |-> TRUE])
  /\ UNCHANGED <<now, busy>>

\* The coroutine runs: the deadline is set and the callee's worker starts.
Start(n) ==
  /\ n \in DOMAIN requests /\ requests[n].stage = "submitted"
  /\ requests' = [requests EXCEPT ![n].stage = "open", ![n].started = now,
                            ![n].limit = now + Remaining]
  /\ busy' = busy \cup {n}
  /\ UNCHANGED now

\* A worker that is counted again when its answer comes.
ReturnTwiceWrong(n) ==
  /\ n \in busy /\ ~Blocked(n)
  /\ busy' = (busy \ {n}) \cup {n + 1}
  /\ requests' = IF requests[n].stage = "open"
              THEN [requests EXCEPT ![n].stage = "answered", ![n].awaited = FALSE]
              ELSE requests
  /\ UNCHANGED now

\* The callee's handler returns; if the call is still open, that is its answer.
Return(n) ==
  /\ n \in busy /\ ~Blocked(n)
  /\ busy' = busy \ {n}
  /\ requests' = IF requests[n].stage = "open"
              THEN [requests EXCEPT ![n].stage = "answered", ![n].awaited = FALSE]
              ELSE requests
  /\ UNCHANGED now

\* asyncio.timeout ends the call; its worker knows nothing of it.
Expire(n) ==
  /\ n \in DOMAIN requests /\ requests[n].stage = "open" /\ requests[n].limit <= now
  /\ requests' = [requests EXCEPT ![n].stage = "expired", ![n].awaited = FALSE]
  /\ UNCHANGED <<now, busy>>

\* future.result gives up on the loop; the coroutine is not cancelled.
Cut(n) ==
  /\ n \in DOMAIN requests /\ requests[n].awaited /\ requests[n].bridge <= now
  /\ requests' = [requests EXCEPT ![n].awaited = FALSE]
  /\ UNCHANGED <<now, busy>>

Tick ==
  /\ now < Horizon
  /\ \A n \in DOMAIN requests :
       /\ requests[n].stage = "open" => now < requests[n].limit
       /\ requests[n].stage = "submitted" => now < requests[n].made + Lag
  /\ now' = now + 1
  /\ UNCHANGED <<requests, busy>>

ClockInit == now = 0 /\ requests = <<>> /\ busy = {}

ClockNext ==
  \/ \E p \in 0..MaxCalls : Submit(p)
  \/ \E n \in 1..MaxCalls : Start(n) \/ Return(n) \/ Expire(n) \/ Cut(n)
  \/ Tick

ClockSpec == ClockInit /\ [][ClockNext]_clockVars

-----------------------------------------------------------------------------
(* Properties.                                                             *)

\* The calls, their workers and the clock have the shapes the code gives them.
ClockTypeOK ==
  /\ now \in Nat
  /\ requests \in Seq(Request)
  /\ Len(requests) <= MaxCalls
  /\ busy \subseteq DOMAIN requests

\* The loop was not later than the grace to start the call, so far.
OnTime(c) ==
  (IF c.stage = "submitted" THEN now ELSE c.started) < c.made + Grace

\* When the loop was on time for a call, the link settles the call before the
\* thread behind it gives up on the loop: the caller hears the link's own
\* failure, and the call does not go on behind the back of its caller.
BridgeOutlastsCall ==
  \A n \in DOMAIN requests :
    requests[n].stage \in Pending /\ OnTime(requests[n]) => requests[n].awaited

\* A call that starts while the call it serves is open may outlast it, but by
\* no more than the floor.
OutlastsByFloorOnly ==
  [][\A n \in DOMAIN requests :
       LET p == requests[n].parent IN
       /\ requests[n].stage = "submitted" /\ requests'[n].stage = "open"
       /\ p # 0 /\ requests[p].stage = "open"
       => requests'[n].limit <= requests[p].limit + Floor]_clockVars

\* Whatever its agents do and however late the loop is, the user has waited at
\* most the turn's budget, or the floor when the first coroutine started late.
AnsweredWithinBudget ==
  \A n \in DOMAIN requests :
    requests[n].parent = 0 /\ requests[n].awaited =>
      now <= MaxOf(Turn, requests[n].made + Lag + Floor)

\* The clock of a turn as a whole: who is waited for, for how long, and by how much a call may
\* pass the one it serves (guardrails.py:210-262, runtime.py:255-300).
DeadlinesHold == [](ClockTypeOK /\ BridgeOutlastsCall /\ AnsweredWithinBudget) /\ OutlastsByFloorOnly
=============================================================================
