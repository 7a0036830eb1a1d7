----------------------------- MODULE TurnLedger -----------------------------
(***************************************************************************)
(* One user turn as the guardrails see it (agents/a2a/guardrails.py), with *)
(* the two parties that consult them: the calling AgentLink                *)
(* (agents/a2a/client.py) and the callee's executor                        *)
(* (agents/a2a/executors.py).                                              *)
(*                                                                         *)
(* A handoff is one agent-to-agent call.  Handoff n of the turn has the    *)
(* sequence number n; the execution it starts, when it starts one, is the  *)
(* A2A task n.  Caller 0 is the user boundary.  A handler blocks on the    *)
(* call it makes, so while nothing times out a turn is one stack of calls. *)
(* A call that times out releases its caller but not the worker thread     *)
(* that serves it: that thread lives on and may call again, which is how   *)
(* several callers come to share one ledger.                               *)
(***************************************************************************)
EXTENDS Naturals, Sequences, FiniteSets

CONSTANTS
  Pairs,        \* "agent.skill", what a call chain is made of
  Inputs,       \* canonical skill inputs
  Agents,       \* agents, and the user boundary
  Boundary,     \* the service acting for the human
  AgentOf,      \* the agent that serves a pair
  Callers,      \* the agents a pair may be called by (executors' tables)
  Idempotent,   \* the pairs whose card carries the idempotent tag
  ChainLimit, ReentryLimit, HandoffLimit

ASSUME GuardrailAssumption ==
  /\ Boundary \in Agents
  /\ AgentOf \in [Pairs -> Agents]
  /\ Callers \in [Pairs -> SUBSET Agents]
  /\ Idempotent \subseteq Pairs
  /\ ChainLimit \in Nat \ {0}
  /\ ReentryLimit \in Nat \ {0}
  /\ HandoffLimit \in Nat \ {0}

VARIABLES
  handoffs,   \* the ledger's record of the turn, oldest first
  seen,       \* digest -> the task whose completed answer stands for it
  work        \* what each task is doing, whether or not anyone waits for it

vars == <<handoffs, seen, work>>

Digests   == Pairs \X Inputs
Outcomes  == {"completed", "failed", "canceled", "input-required"}
Settled   == Outcomes \cup {"rejected"}
Slots     == 1..HandoffLimit

Handoff ==
  [from : 0..HandoffLimit, pair : Pairs, input : Inputs, chain : Seq(Pairs),
   duplicate : BOOLEAN, state : Settled \cup {""}, task_id : 0..HandoffLimit]

Digest(h) == <<h.pair, h.input>>

\* The path of nested calls that reached a caller: empty at the user boundary.
ChainOf(caller) == IF caller = 0 THEN <<>> ELSE handoffs[caller].chain

Requester(caller) ==
  IF caller = 0 THEN Boundary ELSE AgentOf[handoffs[caller].pair]

\* How often a pair already sits on a chain.
Reentries(chain, pair) == Cardinality({k \in DOMAIN chain : chain[k] = pair})

\* A caller's thread waits for the call it made until that call has a state.
Waiting(caller) ==
  \E n \in DOMAIN handoffs : handoffs[n].from = caller /\ handoffs[n].state = ""

\* The boundary asks once per turn; a handler asks whenever it is not waiting.
MayCall(caller) ==
  IF caller = 0 THEN handoffs = <<>>
                ELSE work[caller] = "running" /\ ~Waiting(caller)

-----------------------------------------------------------------------------
(* The caller's side.                                                      *)

\* Each definition named ...Wrong is a mutation of the one that follows it and is
\* part of no behaviour: it shows that some property notices the bug.
AuthorisedWrong(chain, pair) ==
  /\ ~(Len(chain) >= ChainLimit)
  /\ ~(Reentries(chain, pair) >= ReentryLimit)
  /\ ~(Len(handoffs) > HandoffLimit)

\* The three refusals, in the ledger's order.  A refused call leaves the
\* ledger as it was, so it needs no action.
Authorised(chain, pair) ==
  /\ ~(Len(chain) >= ChainLimit)
  /\ ~(Reentries(chain, pair) >= ReentryLimit)
  /\ ~(Len(handoffs) >= HandoffLimit)

\* A caller that does not pass its own chain on.
EntryWrong(caller, pair, input, duplicate, state, task_id) ==
  [from |-> caller, pair |-> pair, input |-> input, chain |-> <<pair>>,
   duplicate |-> duplicate, state |-> state, task_id |-> task_id]

\* The record of a call: the caller's chain extended by the pair it calls.
Entry(caller, pair, input, duplicate, state, task_id) ==
  [from |-> caller, pair |-> pair, input |-> input,
   chain |-> Append(ChainOf(caller), pair),
   duplicate |-> duplicate, state |-> state, task_id |-> task_id]

Repeats(pair, input) == pair \in Idempotent /\ <<pair, input>> \in DOMAIN seen

\* An identical, finished, idempotent call: counted, and answered from `seen`.
Suppress(caller, pair, input) ==
  /\ MayCall(caller)
  /\ Authorised(ChainOf(caller), pair)
  /\ Repeats(pair, input)
  /\ handoffs' = Append(handoffs,
       Entry(caller, pair, input, TRUE, "completed", seen[<<pair, input>>]))
  /\ UNCHANGED <<seen, work>>

\* Anything else that is authorised is sent to the callee.
Send(caller, pair, input) ==
  /\ MayCall(caller)
  /\ Authorised(ChainOf(caller), pair)
  /\ ~Repeats(pair, input)
  /\ handoffs' = Append(handoffs, Entry(caller, pair, input, FALSE, "", 0))
  /\ work' = [work EXCEPT ![Len(handoffs) + 1] = "sent"]
  /\ UNCHANGED seen

\* Remembering whatever came back, not only a completed answer.
RecordAnyStateWrong(n) ==
  /\ n \in DOMAIN handoffs
  /\ handoffs[n].state = ""
  /\ work[n] \in Settled
  /\ handoffs' = [handoffs EXCEPT ![n].state = work[n], ![n].task_id = n]
  /\ seen' = IF /\ handoffs[n].pair \in Idempotent
                /\ Digest(handoffs[n]) \notin DOMAIN seen
             THEN [d \in DOMAIN seen \cup {Digest(handoffs[n])} |->
                     IF d \in DOMAIN seen THEN seen[d] ELSE n]
             ELSE seen
  /\ UNCHANGED work

\* A plain assignment where the code has setdefault.
RecordOverwriteWrong(n) ==
  /\ n \in DOMAIN handoffs
  /\ handoffs[n].state = ""
  /\ work[n] \in Settled
  /\ handoffs' = [handoffs EXCEPT ![n].state = work[n], ![n].task_id = n]
  /\ seen' = IF handoffs[n].pair \in Idempotent /\ work[n] = "completed"
             THEN [d \in DOMAIN seen \cup {Digest(handoffs[n])} |->
                     IF d = Digest(handoffs[n]) THEN n ELSE seen[d]]
             ELSE seen
  /\ UNCHANGED work

\* Recording an answer even when the caller has given up on it.
RecordLateWrong(n) ==
  /\ n \in DOMAIN handoffs
  /\ handoffs[n].task_id = 0
  /\ work[n] \in Settled
  /\ handoffs' = [handoffs EXCEPT ![n].state = work[n], ![n].task_id = n]
  /\ seen' = IF /\ handoffs[n].pair \in Idempotent
                /\ work[n] = "completed"
                /\ Digest(handoffs[n]) \notin DOMAIN seen
             THEN [d \in DOMAIN seen \cup {Digest(handoffs[n])} |->
                     IF d \in DOMAIN seen THEN seen[d] ELSE n]
             ELSE seen
  /\ UNCHANGED work

\* The callee's settled answer reaches the caller, and the ledger records it.
Record(n) ==
  /\ n \in DOMAIN handoffs
  /\ handoffs[n].state = ""
  /\ work[n] \in Settled
  /\ handoffs' = [handoffs EXCEPT ![n].state = work[n], ![n].task_id = n]
  /\ seen' = IF /\ handoffs[n].pair \in Idempotent
                /\ work[n] = "completed"
                /\ Digest(handoffs[n]) \notin DOMAIN seen
             THEN [d \in DOMAIN seen \cup {Digest(handoffs[n])} |->
                     IF d \in DOMAIN seen THEN seen[d] ELSE n]
             ELSE seen
  /\ UNCHANGED work

\* A deadline that starts to run only when the callee has picked the call up.
AbandonWrong(n) ==
  /\ n \in DOMAIN handoffs
  /\ handoffs[n].state = ""
  /\ work[n] # "sent"
  /\ handoffs' = [handoffs EXCEPT ![n].state = "failed"]
  /\ UNCHANGED <<seen, work>>

\* The deadline passes, or the transport fails, before an answer arrives: the
\* caller gets a failure with no task.  The cancel that is sent does not reach
\* a worker thread, so the work goes on.
Abandon(n) ==
  /\ n \in DOMAIN handoffs
  /\ handoffs[n].state = ""
  /\ handoffs' = [handoffs EXCEPT ![n].state = "failed"]
  /\ UNCHANGED <<seen, work>>

-----------------------------------------------------------------------------
(* The callee's side.                                                      *)

\* The caller's form of the bound, used on the chain that has the call on it.
AdmissibleStrictWrong(n) ==
  LET chain == handoffs[n].chain IN
  /\ Requester(handoffs[n].from) \in Callers[handoffs[n].pair]
  /\ ~(Len(chain) < 1)
  /\ ~(Len(chain) >= ChainLimit)
  /\ ~(Reentries(chain, handoffs[n].pair) > ReentryLimit)

\* The executor's own test, against its own configuration.
Admissible(n) ==
  LET chain == handoffs[n].chain IN
  /\ Requester(handoffs[n].from) \in Callers[handoffs[n].pair]
  /\ ~(Len(chain) < 1)
  /\ ~(Len(chain) > ChainLimit)
  /\ ~(Reentries(chain, handoffs[n].pair) > ReentryLimit)

Admit(n) ==
  /\ n \in DOMAIN handoffs
  /\ work[n] = "sent"
  /\ work' = [work EXCEPT ![n] = IF Admissible(n) THEN "running"
                                                  ELSE "rejected"]
  /\ UNCHANGED <<handoffs, seen>>

\* The handler returns.  It cannot while it waits for a call of its own.
Finish(n, outcome) ==
  /\ n \in DOMAIN handoffs
  /\ work[n] = "running"
  /\ ~Waiting(n)
  /\ work' = [work EXCEPT ![n] = outcome]
  /\ UNCHANGED <<handoffs, seen>>

-----------------------------------------------------------------------------

Init ==
  /\ handoffs = <<>>
  /\ seen = [d \in {} |-> 0]
  /\ work = [n \in Slots |-> "unsent"]

Next ==
  \/ \E caller \in 0..Len(handoffs), pair \in Pairs, input \in Inputs :
       \/ Suppress(caller, pair, input)
       \/ Send(caller, pair, input)
  \/ \E n \in Slots :
       \/ Record(n)
       \/ Abandon(n)
       \/ Admit(n)
       \/ \E outcome \in Outcomes : Finish(n, outcome)

\* asyncio.timeout fires unless an answer was read first.  Nothing obliges a
\* handler to return, an executor to be scheduled, or a caller to call.
Fairness == \A n \in Slots : WF_vars(Abandon(n))

Spec == Init /\ [][Next]_vars /\ Fairness

-----------------------------------------------------------------------------
(* Properties.                                                             *)

\* The ledger, the memo and the tasks have the shapes the code gives them.
TypeOK ==
  /\ handoffs \in Seq(Handoff)
  /\ Len(handoffs) <= HandoffLimit
  /\ DOMAIN seen \subseteq Digests
  /\ \A d \in DOMAIN seen : seen[d] \in DOMAIN handoffs
  /\ work \in [Slots -> {"unsent", "sent", "running"} \cup Settled]

\* An answer handed out for a suppressed call is the completed answer, recorded
\* earlier in this turn and by a caller that had not given up on it, to the
\* same question put to the same idempotent skill.
ReplayIsFaithful ==
  \A n \in DOMAIN handoffs : handoffs[n].duplicate =>
    LET m == handoffs[n].task_id IN
    /\ m \in 1..(n - 1)
    /\ ~handoffs[m].duplicate
    /\ Digest(handoffs[m]) = Digest(handoffs[n])
    /\ handoffs[m].pair \in Idempotent
    /\ handoffs[m].state = "completed"
    /\ work[m] = "completed"

\* The caller's bounds (on the chain before the call) and the executor's (on
\* the chain with the call on it) are the same bounds: an executor turns away
\* only callers its table does not name, never a call the ledger let through.
AdmissionAgrees ==
  \A n \in Slots : work[n] = "rejected" =>
    Requester(handoffs[n].from) \notin Callers[handoffs[n].pair]

\* The tasks under which task n runs, itself included.
Stack(n) ==
  LET above[k \in 0..Len(handoffs)] ==
        IF k = 0 THEN {} ELSE above[handoffs[k].from] \cup {k}
  IN above[n]

\* Measured on the calls themselves and not on the chain they carry: no handler
\* runs more than ChainLimit deep, nor under more than ReentryLimit calls of
\* its own skill, and only the boundary's call starts a stack.
NestingBounded ==
  \A n \in Slots : work[n] \in {"running"} \cup Outcomes =>
    /\ Cardinality(Stack(n)) <= ChainLimit
    /\ Cardinality({m \in Stack(n) : handoffs[m].pair = handoffs[n].pair})
         <= ReentryLimit

\* Once an idempotent question has an answer, it never runs again in this turn;
\* and what stands for it never changes.
AnsweredOnce ==
  [][/\ \A d \in DOMAIN seen : d \in DOMAIN seen' /\ seen'[d] = seen[d]
     /\ \A n \in DOMAIN handoffs' :
          n \notin DOMAIN handoffs /\ Digest(handoffs'[n]) \in DOMAIN seen
            => handoffs'[n].duplicate]_vars

\* What the ledger has recorded of a call is final: an answer that arrives
\* after the caller gave up changes neither the record nor what later repeats
\* are told.
LateAnswersIgnored ==
  [][\A n \in DOMAIN handoffs : handoffs[n].state # "" =>
       /\ handoffs'[n] = handoffs[n]
       /\ \A d \in DOMAIN seen' : seen'[d] = n => d \in DOMAIN seen]_vars

\* Whatever its handlers do, the turn settles: in the end no caller is waiting.
TurnSettles == <>[](\A n \in DOMAIN handoffs : handoffs[n].state # "")

\* The ledger answers a repeat with the truth, and both ends of a call agree on its limits
\* (guardrails.py:300-380).
LedgerHolds == TypeOK /\ ReplayIsFaithful /\ AdmissionAgrees

\* An answer that was recorded stands, and one that comes too late changes nothing
\* (guardrails.py:340-380, client.py:211-240).
AnswersStand == AnsweredOnce /\ LateAnswersIgnored
=============================================================================
