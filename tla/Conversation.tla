---------------------------- MODULE Conversation ----------------------------
(***************************************************************************)
(* One chat session: what the service keeps of it between requests         *)
(* (backend/api/service.py), the pipeline of a request (agents/pipeline.py)*)
(* and the plans the MCP agent has interrupted to ask the user something   *)
(* (McpAgentExecutor in agents/a2a/executors.py).                          *)
(*                                                                         *)
(* A turn is a request.  It reads the session, talks to the agents step by *)
(* step and writes the session at its end.  Models, servers and the user   *)
(* say whatever they may.  The task that a turn may leave behind has the   *)
(* number of the turn.                                                     *)
(***************************************************************************)
EXTENDS Naturals, Sequences, SequencesExt

CONSTANTS
  MaxTurns,    \* bound: requests of the session
  GateRounds,  \* PREFLIGHT_MAX_ROUNDS
  Retries,     \* A2A_MAX_CLARIFICATIONS
  Kinds,       \* calculations of plans: "rows" (none), "curve" or "risk"
  Material,    \* whether the servers ask for a field that defines the analysis
  MayTimeOut,  \* whether turns and calls may run out of time
  Overlap,     \* whether a request may be sent before the last one is answered
  MaxEvictions \* bound: plans of the session that others push out of the store

\* The limits are numbers and the switches are switches.
Bounds == /\ {MaxTurns, GateRounds, Retries, MaxEvictions} \subseteq Nat
          /\ {Material, MayTimeOut, Overlap} \subseteq BOOLEAN

Turns == 1..MaxTurns

\* The unfinished business of a session: the task that waits for the user with
\* the calculation of the plan that was agreed ("lost" once nobody carries it).
Unfinished == [task : Turns, plan : Kinds \cup {"lost"}]
NoTask  == [task |-> 0, plan |-> "none"]

VARIABLES
  session,   \* turns recorded, clarified, waiting and rounds of clarification
  store,     \* _waiting: interrupted plans in insertion order, retries left
  closed,    \* tasks of the MCP agent in a terminal state
  pc,        \* where each turn is
  heard,      \* the session a turn has read
  reply,     \* what the user's words are to a question
  plan,      \* the calculation of the plan a turn has agreed
  left,      \* retries left, as read with the interrupted plan
  out,       \* the outcome of a turn
  live,      \* turns whose request has not been given up
  evictions, \* plans pushed out so far
  timedOut,  \* whether a turn or a call has run out of time
  streak,    \* questions in a row that the user was asked
  asks,      \* how often each task's question was asked
  runs,      \* how often each plan was run to its end
  ran,       \* turns that ran a plan to its end
  revised    \* turns that sent a plan back to the domain expert

agents == <<store, closed>>
ghosts == <<streak, asks, runs, ran, revised>>
locals == <<heard, reply, plan, left, out>>
talkVars == <<session, pc, live, timedOut, evictions, agents, locals, ghosts>>

AtRest(t) == pc[t] \in {"idle", "done", "failed"}

\* No request of the turn is open, though its worker may still be at it.
Idle(t) == AtRest(t) \/ t \notin live

\* What a turn ends with: a question or not, and what it waits for.
Outcome(asked, waiting, rounds) ==
  [clarified |-> asked, waiting |-> waiting, rounds |-> rounds]

Final == Outcome(FALSE, NoTask, 0)

Goto(t, step) == pc' = [pc EXCEPT ![t] = step]

\* The pipeline returns.
Return(t, outcome) ==
  out' = [out EXCEPT ![t] = outcome] /\ Goto(t, "reply")

\* What the pipeline makes of a reply of the MCP agent.  A call that ran out of
\* time is reported as a failure although the worker behind it did its work.
Hear(t, outcome) ==
  \/ Return(t, outcome) /\ UNCHANGED timedOut
  \/ MayTimeOut /\ Return(t, Final) /\ timedOut' = TRUE

\* A question of the MCP agent goes to the user; the session will wait for its
\* task, with the plan that the caller passes on.
RelayQuestion(t, task, agreed) ==
  Hear(t, Outcome(TRUE, [task |-> task, plan |-> agreed], 0))

Stored == {store[k].task : k \in DOMAIN store}
Place(task) == CHOOSE k \in DOMAIN store : store[k].task = task
LeftOf(task) == store[Place(task)].left

\* A Python dict keeps the place of a key that is set again.
Remember(task, n) ==
  store' = IF task \in Stored
           THEN [k \in DOMAIN store |->
                   IF store[k].task = task THEN [task |-> task, left |-> n]
                   ELSE store[k]]
           ELSE Append(store, [task |-> task, left |-> n])

\* pop with a default
Forget(task) == store' = IF task \in Stored THEN RemoveAt(store, Place(task)) ELSE store

-----------------------------------------------------------------------------
(* The service: reading and writing the session.                           *)

\* A request may come in: turns are numbered in the order they do.
MaySend(t) ==
  /\ pc[t] = "idle" /\ \A u \in 1..t - 1 : pc[u] # "idle"
  /\ Overlap \/ \A u \in Turns : Idle(u)

\* A request reads the session.
Arrive(t) ==
  /\ MaySend(t)
  /\ heard' = [heard EXCEPT ![t] = session]
  /\ Goto(t, IF session.waiting # NoTask THEN "answer" ELSE "classify")
  /\ UNCHANGED <<session, live, timedOut, evictions, agents, reply, plan, left, out, ghosts>>

\* The agents cannot be reached: the request ends in an error (502) and the
\* session stays as it is.
Unreachable(t) ==
  /\ MaySend(t)
  /\ Goto(t, "failed")
  /\ UNCHANGED <<session, live, timedOut, evictions, agents, locals, ghosts>>

Write(t, outcome) ==
  session' = [turns |-> heard[t].turns \cup {t}, clarified |-> outcome.clarified,
              waiting |-> outcome.waiting, rounds |-> outcome.rounds]

\* The turn's outcome becomes the session.  A turn that was given up has nobody
\* to report to.
Save(t) ==
  /\ pc[t] = "reply"
  /\ Goto(t, "done")
  /\ IF t \in live
     THEN /\ Write(t, out[t])
          /\ streak' = IF out[t].clarified THEN streak + 1 ELSE 0
     ELSE UNCHANGED <<session, streak>>
  /\ UNCHANGED <<live, timedOut, evictions, agents, locals, asks, runs, ran, revised>>

\* The call to the orchestrator runs out of time.  The session is told that the
\* turn is over; the worker that runs it is not.
TimeOut(t) ==
  /\ MayTimeOut /\ t \in live /\ ~AtRest(t) /\ pc[t] # "reply"
  /\ live' = live \ {t} /\ timedOut' = TRUE
  /\ Write(t, Final)
  /\ streak' = 0
  /\ UNCHANGED <<pc, evictions, agents, locals, asks, runs, ran, revised>>

-----------------------------------------------------------------------------
(* The pipeline of a new question.                                         *)

AfterClarification(t) == heard[t].clarified \/ heard[t].rounds > 0

\* The orchestrator asks for a missing detail.
Clarify(t) == Return(t, Outcome(TRUE, NoTask, 0))

\* The orchestrator answers, asks, or takes the question for a data request,
\* which is what becomes of a question right after a clarification.
Classify(t) ==
  /\ pc[t] = "classify"
  /\ \/ Return(t, Final)
     \/ ~AfterClarification(t) /\ Clarify(t)
     \/ Goto(t, "gate") /\ UNCHANGED out
  /\ UNCHANGED <<session, live, timedOut, evictions, agents, heard, reply, plan, left, ghosts>>

\* A gate that never stops asking.
MayAskWrong(t) == TRUE

\* The gate may ask unless the user has answered it often enough.
MayAsk(t) == ~(AfterClarification(t) /\ heard[t].rounds >= GateRounds)

\* The gate's question, which counts as a round.
ClarifyFromGate(t) == Return(t, Outcome(TRUE, NoTask, heard[t].rounds + 1))

\* The completeness gate asks for what is missing, finds nothing missing, goes
\* on with defaults or fails to answer.
Gate(t) ==
  /\ pc[t] = "gate"
  /\ \/ Goto(t, "derive") /\ UNCHANGED out
     \/ MayAsk(t) /\ ClarifyFromGate(t)
  /\ UNCHANGED <<session, live, timedOut, evictions, agents, heard, reply, plan, left, ghosts>>

\* The turn reports why there is no plan.  A negotiation never ends in
\* NEEDS_USER_INPUT (Negotiation), so it is never with a question.
NotAgreed(t) == Return(t, Final)

\* The domain expert derives and negotiates a plan: it is agreed, or it is not.
DerivePlan(t) ==
  /\ pc[t] = "derive"
  /\ \/ Goto(t, "execute") /\ UNCHANGED out
        /\ \E k \in Kinds : plan' = [plan EXCEPT ![t] = k]
     \/ NotAgreed(t) /\ UNCHANGED plan
  /\ UNCHANGED <<session, live, timedOut, evictions, agents, heard, reply, left, ghosts>>

RunToEnd(t, task) ==
  /\ ran' = ran \cup {t}
  /\ runs' = [runs EXCEPT ![task] = @ + 1]

Ask(task) == asks' = [asks EXCEPT ![task] = @ + 1]

\* The MCP agent runs the agreed plan, fails to, or stops at a question of a
\* server and remembers the plan.
Execute(t) ==
  /\ pc[t] = "execute"
  /\ \/ /\ RunToEnd(t, t)
        /\ Goto(t, "compose") /\ UNCHANGED <<out, timedOut, store, asks>>
     \/ /\ Remember(t, Retries) /\ Ask(t)
        /\ RelayQuestion(t, t, plan[t])
        /\ UNCHANGED <<runs, ran>>
     \/ Return(t, Final) /\ UNCHANGED <<timedOut, store, asks, runs, ran>>
  /\ UNCHANGED <<session, live, evictions, closed, heard, reply, plan, left,
                 streak, revised>>

\* The result is put into words.  That of a validated calculation first goes back
\* to the domain expert, who accepts it, blocks it, or cannot be asked.
Compose(t) ==
  /\ pc[t] = "compose"
  /\ Return(t, Final)
  /\ UNCHANGED <<session, live, timedOut, evictions, agents, heard, reply, plan, left,
                 streak, asks, runs, ran, revised>>

-----------------------------------------------------------------------------
(* The pipeline of an answer to a question of the servers.                 *)

\* The user's words, read against the question: they may call it off, name one
\* of the allowed answers, do both or neither.
Replies == [refuses : BOOLEAN, answers : BOOLEAN]

\* An answer changes the analysis if it is to a field that defines one, and the
\* session still has the plan with the calculation it defines.
IsDomainMaterial(t) == Material /\ heard[t].waiting.plan \in {"curve", "risk"}

\* The plan goes back to the domain expert and comes out as a new one.
Revalidate(t) == Goto(t, "derive") /\ revised' = revised \cup {t}

\* The pipeline reads the user's words before the MCP agent does.
Relay(t) ==
  /\ pc[t] = "answer"
  /\ \E r \in Replies :
       /\ reply' = [reply EXCEPT ![t] = r]
       /\ IF r.answers /\ IsDomainMaterial(t)
          THEN Revalidate(t)
          ELSE Goto(t, "provide") /\ UNCHANGED revised
  /\ UNCHANGED <<session, live, timedOut, evictions, agents, heard, plan, left, out,
                 streak, asks, runs, ran>>

\* The reply arrives at the task.  A finished task takes no message; a task
\* whose plan is gone fails, and the reply is then handled as a new question.
Provide(t) ==
  LET task == heard[t].waiting.task IN
  /\ pc[t] = "provide"
  /\ \/ /\ task \in closed
        /\ Return(t, Final) /\ UNCHANGED <<closed, heard, left>>
     \/ /\ task \notin closed /\ task \notin Stored
        /\ closed' = closed \cup {task}
        /\ heard' = [heard EXCEPT ![t].clarified = TRUE, ![t].waiting = NoTask]
        /\ Goto(t, "classify") /\ UNCHANGED <<left, out>>
     \/ /\ task \notin closed /\ task \in Stored
        /\ left' = [left EXCEPT ![t] = LeftOf(task)]
        /\ Goto(t, "resume") /\ UNCHANGED <<closed, heard, out>>
  /\ UNCHANGED <<session, live, timedOut, evictions, store, reply, plan, ghosts>>

\* A plan that is popped to be read and not put back.
AskAgainForgetful(t, task) ==
  /\ Forget(task)
  /\ Ask(task)
  /\ RelayQuestion(t, task, "lost")

\* A question put again as often as the reply is vague.
AskAgainWrong(t, task) ==
  /\ Remember(task, left[t])
  /\ Ask(task)
  /\ RelayQuestion(t, task, "lost")

\* The same question again, one retry poorer.  The agreed plan is not passed on.
AskAgain(t, task) ==
  /\ Remember(task, left[t] - 1)
  /\ Ask(task)
  /\ RelayQuestion(t, task, "lost")

\* A refusal that is looked for only in replies that answer nothing.
CallsOffWrong(r) == r.refuses /\ ~r.answers

\* A refusal is looked for first.
CallsOff(r) == r.refuses

\* A plan that stays behind when it is taken up again.
TakeUpWrong(t, task) == Goto(t, "rerun") /\ UNCHANGED store

\* The plan is taken out of the store to be run.
TakeUp(t, task) == Goto(t, "rerun") /\ Forget(task)

\* The MCP agent reads the reply: refused, answered, to be asked again, or
\* asked often enough.
Resume(t) ==
  LET task == heard[t].waiting.task IN
  /\ pc[t] = "resume"
  /\ \/ /\ CallsOff(reply[t])
        /\ Forget(task) /\ closed' = closed \cup {task}
        /\ Return(t, Final) /\ UNCHANGED <<timedOut, asks>>
     \/ /\ ~CallsOff(reply[t]) /\ (reply[t].answers \/ left[t] = 0)
        /\ TakeUp(t, task) /\ UNCHANGED <<timedOut, closed, out, asks>>
     \/ /\ ~CallsOff(reply[t]) /\ ~reply[t].answers /\ left[t] > 0
        /\ AskAgain(t, task) /\ UNCHANGED closed
  /\ UNCHANGED <<session, live, evictions, heard, reply, plan, left, streak, runs,
                 ran, revised>>

\* The interrupted plan runs, with the answer or on the declined path, and may
\* not ask again.  Its result is put into words without being validated.
Rerun(t) ==
  LET task == heard[t].waiting.task IN
  /\ pc[t] = "rerun"
  /\ RunToEnd(t, task) \/ UNCHANGED <<runs, ran>>
  /\ closed' = closed \cup {task}
  /\ Return(t, Final)
  /\ UNCHANGED <<session, live, timedOut, evictions, store, heard, reply, plan, left, streak,
                 asks, revised>>

-----------------------------------------------------------------------------

\* Other conversations fill the store and push this one's oldest plan out.
Evict ==
  /\ evictions < MaxEvictions /\ store # <<>>
  /\ evictions' = evictions + 1
  /\ store' = Tail(store)
  /\ UNCHANGED <<session, pc, live, timedOut, closed, locals, ghosts>>

TalkInit ==
  /\ session = [turns |-> {}, clarified |-> FALSE, waiting |-> NoTask, rounds |-> 0]
  /\ store = <<>> /\ closed = {} /\ evictions = 0 /\ streak = 0
  /\ pc = [t \in Turns |-> "idle"] /\ live = Turns /\ timedOut = FALSE
  /\ heard = [t \in Turns |-> session]
  /\ reply = [t \in Turns |-> [refuses |-> FALSE, answers |-> FALSE]]
  /\ plan = [t \in Turns |-> "none"] /\ left = [t \in Turns |-> 0]
  /\ out = [t \in Turns |-> Final]
  /\ asks = [t \in Turns |-> 0] /\ runs = [t \in Turns |-> 0]
  /\ ran = {} /\ revised = {}

TalkNext ==
  \/ Evict
  \/ \E t \in Turns :
       \/ Arrive(t) \/ Unreachable(t) \/ TimeOut(t) \/ Save(t)
       \/ Classify(t) \/ Gate(t) \/ DerivePlan(t) \/ Execute(t) \/ Compose(t)
       \/ Relay(t) \/ Provide(t) \/ Resume(t) \/ Rerun(t)

TalkSpec == TalkInit /\ [][TalkNext]_talkVars

-----------------------------------------------------------------------------
(* Properties.                                                             *)

\* The session, the store and the turns hold what they should: one entry per
\* task, no more retries than were granted, no more rounds than the gate has.
TalkTypeOK ==
  /\ session.turns \subseteq Turns /\ session.clarified \in BOOLEAN
  /\ session.waiting \in Unfinished \cup {NoTask}
  /\ session.rounds \in 0..GateRounds \cup {1}
  /\ (session.waiting # NoTask \/ session.rounds > 0) => session.clarified
  /\ session.waiting = NoTask \/ session.rounds = 0
  /\ store \in Seq([task : Turns, left : 0..Retries])
  /\ \A i, j \in DOMAIN store : store[i].task = store[j].task => i = j
  /\ closed \subseteq Turns

\* A user who waits for each answer and is asked nothing that changes the analysis is asked
\* a bounded number of times in a row:
\* once by the orchestrator, then by the gate, then by the servers.  A plan that
\* was pushed out of the store starts over at the gate.
InterruptionsBounded == ~Overlap /\ ~Material =>
  streak <= 1 + (evictions + 1) * (GateRounds + 1 + Retries)

\* A turn in which the user calls the exchange off runs no plan, unless the
\* plan was gone already and the words were taken for a new question.
RefusalRunsNothing ==
  \A t \in ran : reply[t].refuses => heard[t].waiting = NoTask

\* The plan of a task runs to its end at most once, and its question is put at
\* most once and then once per retry, late workers included.
NothingTwice ==
  \A task \in Turns : runs[task] <= 1 /\ asks[task] <= 1 + Retries

\* Between turns the session's unfinished business is where the MCP agent will
\* look for it.
WaitingIsStored ==
  session.waiting # NoTask /\ (\A t \in Turns : Idle(t)) =>
    session.waiting.task \in Stored \ closed

\* Between turns the MCP agent holds no plan but the one the session waits for.
NoOrphanPlan ==
  (\A t \in Turns : AtRest(t)) =>
    Stored \subseteq {session.waiting.task}

\* What the user calls off does not run, if no question changes the analysis; and for a user
\* who waits for each answer no plan runs twice and no question is put more often than its
\* retries, workers included that outlive their turn (pipeline.py:660-800,
\* executors.py:430-590).
NothingUnwanted == (~Material => RefusalRunsNothing) /\ (~Overlap => NothingTwice)

\* What the session of such a user waits for can be resumed, unless other chats pushed it out,
\* also after turns have timed out; and if none did, no plan is left that no session waits for
\* (service.py:400-450, executors.py:560-590).
WaitingMatchesStore ==
  /\ TalkTypeOK
  /\ ~Overlap => /\ evictions = 0 => WaitingIsStored
                 /\ ~Material /\ ~timedOut => NoOrphanPlan

\* A comment in pipeline.resume: when the answer is material the domain expert
\* reconsiders before anything runs.
MaterialIsRevised ==
  \A t \in ran \ revised :
    heard[t].waiting # NoTask /\ reply[t].answers /\ Material =>
      plan[heard[t].waiting.task] = "rows"

\* A comment in service.chat: the turn pair of every answered turn is kept.
TurnPairKept ==
  (\A t \in Turns : AtRest(t)) =>
    {t \in Turns : pc[t] = "done"} \subseteq session.turns
=============================================================================
