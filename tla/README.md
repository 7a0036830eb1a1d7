# A TLA+ verification of the market-risk data-access gateway

This directory holds TLA+ models of the gateway, TLC configurations that check
them on small instances, and TLAPS proofs that carry the main results to every
size. All source paths below are relative to the repository. The definitions
translate the source; where a document or a comment says something else, the run
that shows it, or the place, is listed under "What the code does and a document
says otherwise".

To repeat the work: `tlc -config <file>.cfg <module>.tla` for a run,
`tlapm <module>_proofs.tla` for the proofs. `PROJECT.json` maps every definition
to the lines it stands for.

## 1. The system

A user asks a question over HTTP. Three agents, each an A2A server, answer it:
the orchestrator routes, checks that the question is complete and writes the
answer; the domain expert turns it into a data requirement and negotiates the
plan with the data layer; the MCP agent executes the plan through MCP servers
(data, risk, knowledge). All agents live in one process and on one event loop,
each handler on a worker thread; the calls between them are blocking. Behind them
lie a Postgres database that is loaded from files acquired from the Treasury, a
collection of document chunks, and a Redis cache; the browser watches a turn
through a stream of events.

| Component | State it keeps | Operations | Talks to | Hard because | Correct when |
|---|---|---|---|---|---|
| Turn guardrails and A2A calls (`agents/a2a/guardrails.py`, `client.py`, `executors.py`) | `TurnLedger`: handoffs, memo of answered digests; per task its life cycle | authorise, record, send, admit, reject, finish, time out | every agent | a thread whose call timed out is not stopped: several callers share one ledger | limits bind, a repeat is answered truthfully, a late answer leaves no mark |
| Turn deadlines (`guardrails.py`, `client.py`, `runtime.py`) | start of the turn, a deadline per call, a bridge per waiting thread | remaining time, call timeout, bridge timeout | event loop, threads | nested timers with a floor, an event loop that lags | the user is answered in time and the inner failure is heard first |
| Ledger registry (`guardrails.py`, `runtime.py`) | request id → ledger, in insertion order, at most 256 | open, find, close, evict | boundary, handlers | ids chosen by clients, handlers that start late | one turn has one ledger |
| Worker pool (`a2a/runtime.py`) | 32 threads | take, hold while nested, free | all handlers | nested blocking calls | only many turns stop it, and not for ever |
| A2A server, cards, envelope (`agents/a2a/`) | the task and its artifacts | admit, publish, cancel, encode, decode | callers and skills | a task is published in pieces; numbers travel as floats | a caller acts on the truth and reads what was sent |
| Planner and negotiation (`agents/planning.py`, `domain_expert_agent.py`, `a2a/ports.py`) | the requirement, the rounds, the count of still rounds | derive, assess, revise, settle | domain expert, data layer | two language models that need not commit | it ends, and for a reason |
| Turn pipeline (`agents/pipeline.py`), gate (`preflight.py`) | none between calls | handle, resume, revalidate, compose | all agents | five sources of questions to the user | nothing runs that the user called off or that nobody agreed |
| Interrupted plans (`executors.py`, `elicitation.py`) | task → plan and retries left, at most 128 | remember, peek, forget, evict, resume | pipeline | the same reply is read in two places; stale tasks | a plan runs at most once and is asked about a bounded number of times |
| Chat session (`backend/api/service.py`) | turns, rounds of clarification, waiting task | read before a turn, write after it | web client, pipeline | read-modify-write around a turn of minutes | no turn is forgotten; what waits can be resumed |
| Execution events (`agents/events.py`, `service.py`) | per request id a numbered history and subscribers | open, publish, deliver, replay, close, evict | all threads, the browser's stream | numbered under a lock, delivered outside it | shown once, in order, no gap, and the stream ends |
| Web client (`frontend/src/`) | chats, the active chat, the pending question; the events, feed and graph of a turn | send, switch, delete, regenerate, push | service, stream | answers after a switch, events out of order | answer and question stay together; feed and graph show what ran |
| Cache and single flight, rate limits, telemetry (`agents/cache/`) | Redis entries, locks, a circuit breaker, window counters, a run's summary | load, lock, wait, store, clear, count, merge | model and tool calls | lock lifetimes, outages, several processes | a served value fits and is fresh; nothing stays behind; limits are exact |
| Treasury acquisition (`data/acquisition/`) | raw files, processed CSV, manifest | request, retry, carry over, write, report; parse, normalise, validate | loader | failed refreshes, kills between files, feeds with repeats and placeholders | the files agree and no record is lost or invented |
| Postgres loader and migrations (`postgres/src/treasury_db/`) | staging and core tables, run records; migration ledger | verify, stage, load, commit, fail; apply, record | data server, operators | commits between steps, two processes | a success is whole; a version runs once and drift is loud |
| Load verification (`tools/verify_load.py`) | the checks found so far; `meta.reconciliation` | self-test, recount, compare, file, report | CSVs, database | each statement reads what is committed by then | a pass is earned, a good load passes, a verdict is filed under a success |
| MCP data server, risk workflows, MCP agent (`mcp/…/data`, `backend/workflows`, `agents/mcp_agent.py`) | a catalogue per process, cursors, a snapshot id | search, resolve, page, calculate | bridge, database | reads beside a load; thirty workflows with their own dates | the table is the curve and the days the user meant; no look-ahead |
| MCP bridge and host (`backend/providers/mcp.py`, `mcp/…/host`) | one thread, one loop, server processes, pending questions; the transcript of the tool loop | start, call, relay, stop; turn, run tools | MCP agent, model | timeouts on one side only, hosts that die | nobody waits for ever, questions stay apart, every tool call is answered |
| Risk engine (`mcp/…/risk`) | none between calls | root search, packs, ranks and tails, coupons | workflows | boundaries, gains and ties, failures of one of many | tools that read one history agree; what is claimed is true |
| Domain expert (`domain_expert_agent.py`) | caches of retrieval and plans | retrieve, derive, revise, validate | knowledge base, model, planner | caches that outlive a failure, text that only looks like a fact | a requirement rests on what was retrieved |
| Knowledge base (`backend/knowledge`) | the collection | chunk, ingest, prune, open | domain expert | edits and failures in the middle of an ingest | nothing is lost or truncated; a search never mixes readings |
| Model providers (`llm/`, `agents/observability.py`) | tally and failure kind per call | ask, repair, validate, correct | every agent | sloppy replies, several threads, retries | an answer is what was said and what was asked |

Orchestrator prompts and answers, redaction, evaluation and the set-up scripts
keep no state and decide nothing that another part depends on; they are not
modelled.

## 2. Modules

Nothing in a module is a number of the deployment: limits are CONSTANTS with a
named ASSUME, which the runs evaluate and the proofs use.

| Module | Models | State ↔ code | Actions ↔ code |
|---|---|---|---|
| `TurnLedger` | one turn's handoffs, with the calling link and the called executor | `handoffs` = `TurnLedger.handoffs`, `seen` = `_seen`, `work` = what each A2A task does, awaited or not | `Suppress`, `Send` = `AgentLink.call` after `authorise`; `Record`; `Abandon` = timeout or transport failure; `Admit`, `Finish` = the executor |
| `TurnClock` | the deadlines of a turn | `requests` with their limits and bridges, `now` | `Submit`, `Start`, `Return`, `Expire` (link), `Cut` (bridge), `Tick` |
| `LedgerRegistry` | `LedgerRegistry` and its users | `registry` with insertion order, `holds` = the ledger each handler works with | `Open`, `Find`, `Close`, `Ask`; eviction is part of `Register` |
| `WorkerPool` | threads, nested calls and the queue before them | `queue`, the jobs that hold a thread | a boundary or a handler calls, a thread takes, returns, or its deadline passes |
| `TaskCall` | one call between two agents, and the contracts it carries | the task as the executor publishes it, the caller's wait; a requirement, assessment or intent, field by field, before and after the wire (`Contracts` is what is sent) | `Refusal`, the publications of `executors.py` one by one, deadline, cancellation, `Finish`; encoding and decoding of `envelope.py`, the digest |
| `Negotiation`, `Deliberation` | `DataPlanner._negotiate` and what `_build` and `_keep_ambiguity` let an expert say; and what it promises | `trail` = requirements in order, `unchanged`, `decision` | `Derive`, `Assess`, `Revise` (which includes `Settle`) |
| `Conversation` | session, pipeline and interrupted plans of one chat | `session`, `store` = `_waiting`, `closed` = finished tasks, `pc` and `heard` per turn, `timedOut` | one action per stage of `handle` and `resume`; the service's read, write and timeout; `Evict` = other chats |
| `EventBus`, `Feed` | the timeline of one request id and its streams; and what a reader is promised | `run` = `_runs[id]`, `subscribers`, `handing` = deliveries a thread still has to make, per stream `queue`, `seen`, `idle` | `Publish`, `Deliver`, `Open`, `Close`, `Evict`; `Claim` … `Disconnect` = `stream_chat` |
| `ChatClient` | `chatStore`, `useSend`, `executionStore`, `executionEvents` | chats, active chat, turn under way; events, durations, edges | one action per store operation and per event |
| `SingleFlight` | one cached operation, `agents/cache/service.py`, `locks.py`, `client.py` | entries, locks with owners, the circuit, where each request is | one action per Redis command of `execute` and its callers; time, lapses, outages, damage and clearing are the environment |
| `RedisStats` | `rate_limit.py`, `telemetry.py` | windows, stream, counters, run summary | a script is one step, a read-merge-write under the run's lock is three |
| `Acquisition` | a run of `download_us_treasury.py` | raw files, CSV, manifest | one action per request, file and phase; a kill anywhere |
| `FeedTable`, `Gregorian` | parsing to verdict of one feed; holidays, Easter, expected days; dates | the table, its deduplication, its gaps | functions of their inputs, one step each |
| `Loader` | `load.py` from `open_run` to `close_run` | staging, core, runs, per loader what it has read | one action per commit; two loaders; failures and kills |
| `LoadVerifier` | `tools/verify_load.py` beside the loader | `verifier` = what the process has read and where it is, `evidence` = `meta.reconciliation` | one action per statement or file it reads; loads and acquisitions go on beside it |
| `Migrations` | `migrate.py` | files, ledger, per migrator its list | discover, read, check, execute, record; edits, additions, failures and kills |
| `Retrieval` | a requirement to a table: `mcp_agent.py`, `mcp.py`, `server.py`, `repository.py` | the task, the catalogue of the process, the database under a load | search, resolve a day query by query, page, page id |
| `RiskWorkflows` | `risk_workflows.py` | what a workflow has asked for and valued on | one action per call a workflow makes |
| `McpBridge` | `providers/mcp.py`, `host/interaction.py` | instance, lock, thread, calls in flight, relays | start, call, time out, elicit, answer, die |
| `HostLoop` | `host/agent.py`, `mcp_clients.py` | transcript, step count, owners of tools | connect, turn, run a tool, sample |
| `KnowledgeIngest`, `Chunker` | `market_risk_kb.py`, `knowledge_base.py`; `markdown_chunker.py` | documents, collection, an ingest's position; lines → chunks | upsert, prune, open, fail; the passes of the chunker |
| `Expert` | retrieval, derivation, revision, validation of `domain_expert_agent.py` | sightings, caches, requirement | one action per stage |
| `ModelCall` | `zai_provider.py`, `anthropic_provider.py`, `validation.py`, `observability.py` | reply, tally, failure kind per thread | ask, repair, validate, correct, return |
| `StressSearch`, `StressPack`, `RiskMeasures`, `BondSchedule` | `numerics.py`, `reverse_stress.py`; scenario packs and tables; ranks, tails, contributions, coverage, limits, regimes; coupon dates | the search or table under way | one action per iteration, scenario or tool |

`MCRuntime`, `MCAgents`, `MCEvents`, `MCSingleFlight`, `MCLoader`, `MCGateway` and
`MCEngine` put several modules into one state space: a variable `part` chooses the
one that moves, and the others stay where they began. They compose what belongs
together; where two modules really interact the interaction is in a module
(`Acquisition` writes the files `Loader` reads, `Loader` empties the tables under
`Retrieval`, `McpBridge` carries the questions of `HostLoop`'s servers).
`MCRuntime_timeout.cfg` gives three turns an id and a place each, for the run
`registry_timed_out`.

The proofs are in modules of their own: `TurnLedger_proofs`
for `TurnLedger`; `EventBus_proofs` for `EventBus` and `ChatClient`; `Agents_proofs` for
`Negotiation` and `Conversation`; `Runtime_proofs` for `LedgerRegistry`, `TurnClock`, `TaskCall` and `WorkerPool`;
`SingleFlight_proofs` for `SingleFlight` and `RedisStats`; `Database_proofs` for
`Acquisition`, `Loader`, `Migrations`, `LoadVerifier` and the calendar of `FeedTable`; `Gateway_proofs` for
`KnowledgeIngest`, `Retrieval`, `McpBridge` and `RiskWorkflows`; `Engine_proofs` for `ModelCall`,
`StressSearch`, `HostLoop` and `BondSchedule`.

What is a free choice: everything a language model, an MCP server or the user
says. What is data and left out: prompts, wording, table contents, embeddings,
prices; where a number decides (a rank, a threshold, a day) it is a small integer.
Operators named `...Wrong`, and those named for what they forget
(`SettleSilently`, `ReusableAnyModel`), are plausible mistakes; they belong to no
behaviour, and each shows that some property would notice that mistake.

How the modules fit together: `TurnLedger` is one ledger, `LedgerRegistry` is how
a turn comes by it, `TurnClock` is when its calls end and `WorkerPool` what they
run on. In `TurnLedger` and `LedgerRegistry` a timeout may happen at any moment,
which allows more behaviours than the clock does. `Negotiation` and
`Conversation` are what the handlers do with the calls; `Conversation` takes a
negotiation as one step with the outcomes that `Negotiation` allows. `Expert` is
what a draft of a negotiation rests on, `Retrieval` and `RiskWorkflows` what an
agreed plan becomes, over `McpBridge`. `EventBus` watches and influences nobody,
and `ChatClient` shows what it says.

## 3. Runs

| Run | Question | Instance |
|---|---|---|
| `runtime` | Do deadlines, registry, pool, calls and wire hold up a turn? | turn 4, floor 1, grace 2, lag 3 (the loop may be later than the grace), horizon 11 past every deadline; four turns of which two share an id, on two places, four ledgers in all (so a turn's own can be evicted); two turns of depth three on three threads; one call with every refusal, a deadline and a cancellation; a requirement with all its 23 fields, in the sixteen combinations of four filled groups, with assessments and intents (`MCContracts`) |
| `registry_timed_out` | Does the limit bind the whole turn? | three turns; violated |
| `agents` | How often is a user asked, does a refusal stop the work, does every exchange end, do limits and memo hold when any handler may call any other? | six turns, where a turn without a question is the last or one of the first two, one gate round, one retry, one eviction (the longest row of questions is reached); three turns whose workers outlive them; two plans, one question, four rounds, two still rounds (a stall can come before, and with, the last round); two skills that may call each other and themselves, chain 3, reentry 2, budget 4 (each limit refuses something) |
| `conversation_refused`, `conversation_reasked`, `conversation_lost_pair` | one documented promise each | three or four turns; violated |
| `events` | Is the live view complete and ordered, and does it end? | two publishers, history of 2, three events (so the history overflows), a repeated id, one eviction, one stream; two chats with two questions; six calls of a turn with one event lost |
| `events_overtaken` | Can the stream lose an event? | two publishers, three events, no eviction; violated |
| `single_flight` | Is what is served right, and does every request end? | three requests: equal, alike, of another version, another model, uncached; lapsing locks; one fault; Redis required or not; time past both lifetimes. Three workers on limits 2, 1 and none, with one failure, on a stream trimmed to two events |
| `loading` | Do files, tables and diaries tell the truth? | two data sets, two years, two revisions, two attempts (the second before any load), one kill of an acquisition, two loaders, one kill of a loader, files and tables both empty or both filled at first; three versions, two revisions, two migrators; a verification beside loads of a new database by one loader, with one acquisition or one kill, of which what happens after it has begun is at most the second event, in a schema that is as it should be or is not |
| `gateway` | Is the table the one that was asked for, beside a load? Do questions stay apart? | five days with a holiday, two curves, two vintages, pages of one row; each of thirty calculations with every combination of inputs; two threads, two bridges; two documents, two ingests, one edit |
| `engine` | Are the pure parts right at their boundaries? | every input of a small set for each tool; the calendar on seventy years; two structured calls of a model in all (`FewCalls`), three turns of the tool loop |

`CHECK_DEADLOCK FALSE` is set where everything comes to a rest: a turn, a load, a
chat of a bounded number of turns. `single_flight` checks for deadlock: `Rest` marks
the states in which all requests have ended. Bounds that are not the code's: `Inputs`, `MaxCalls`, `Horizon`,
`MaxLedgers`, `MaxJobs`, `MaxTurns`, `MaxEvents`, `MaxEvictions`, `MaxQuestions`,
`MaxLost`, `MaxFaults`, `MaxTicks`, `MaxFailures`, `MaxRevision`, `MaxKills`,
`MaxLoaderKills`, `MaxAcquisitions`, `FileRevisions`, `MaxBridges`, `MaxWork`,
`MaxScopes`, `MaxTasks`, `MaxEdits`, `MaxIngests`. Each is just large enough that
the case it bounds occurs together with one of another kind: a second kill, edit
or fault repeats what the first showed. The session keeps the last six pairs, so
with at most six turns no pair is dropped by that limit. One stream suffices in
`events`: streams share only the set of subscribers, from which each removes itself.

### What the properties say

A run checks few properties; most are the conjunction of named parts, which the
module states one by one above it.

*`runtime`.* `DeadlinesHold`: when the loop starts a call within the grace, the
thread hears the link's failure and not its own timeout (`BridgeOutlastsCall`);
the user waits at most for the budget, or for the floor counted from a late start
(`AnsweredWithinBudget`); a nested call passes the one it serves by no more than
the floor (`OutlastsByFloorOnly`). `OneLedger`: an open turn that shares its id with
nobody is found, keeps one ledger and is counted on it, whatever is evicted meanwhile,
until as many ledgers have been made since its own as there are places (`Undisturbed`).
Both conditions are needed: `_evict` takes the oldest entry, in use or not, and two
turns of one id have one entry. `PoolMoves`: fewer turns than it takes to
occupy all threads with waiting calls never stop the pool (`StuckTakesManyTurns`),
and more stop it only until a deadline (`QueueMovesOn`). `CallIsTold`: a caller
reads the answer its callee gave (`ToldTheTruth`), acts only on a task that is
final (`ActsOnSettled`), and a refused call never runs. `WireIsFaithful`: every
field of a requirement, an assessment and an intent arrives as it was, with the kind of
its numbers, by whichever way and however often it is passed on (`ArrivesAsSent`), except
the line numbers of its citations (see 5); a verdict that is missing does not pass, a
calculation of the catalogue stays one, and equal questions have equal digests.

*`agents`.* `LedgerHolds`: a suppressed call is given the completed, recorded
answer to the same question (`ReplayIsFaithful`); the caller tests its chain before
the call with `>=`, the callee after it with `>`, and they agree
(`AdmissionAgrees`). `AnswersStand`: an answer is never replaced, recomputed or
disturbed by one that comes late. `NestingBounded`: measured on real calls and not
on the chain they carry. `TurnSettles`: no wait is for ever. `PlanIsSettled`: no
agreement fails without a reason (`StallIsEarned`), no round is held that cannot
matter (`NoIdleRound`), an ambiguous curve family stays ambiguous to the end
(`AmbiguityStands`). `Deliberates`: the negotiation is the `Deliberation` it
promises, and it ends. `InterruptionsBounded`: the questions in a row are at most
one of the orchestrator, the rounds of the gate, and the question of a server with
its retries, and once more from the gate for each plan that other chats evicted;
the bound is reached. `NothingUnwanted`: a refusal runs nothing, nothing runs
twice. `WaitingMatchesStore`: what the session waits for can be resumed, and the
store holds no other plan.

*`events`.* `StreamIsWhole`: shown once and in order, no window between replay and
live delivery, and no stream that connects before its turn is sent away. `Feeds`:
the stream is the `Feed` it promises. `ChatStands`: the active chat exists, each
answer has its question before it, the view is in the order of the sequence, the
feed shows what ran and nothing twice, and no edge floats.

*`single_flight`.* `ServedRight`: what is served was computed for the same
question, version and model, and is within its lifetime (`RightAnswer`,
`FreshEnough`). `NothingStaysBehind`: one owner per lock (unless it lapses), no lock
without owner or end, no entry without an end. `Answered`: every request ends, with an
answer or the exception of its own work, or, only where Redis is required and a call to
it failed, with `RedisUnavailable`.
`StatsHold`: limits are exact among processes (`LimitsAreExact`), a run's summary is
the sum of what its workers wrote (`RunAddsUp`), the counters are ahead of the stream
only once it is long enough to be trimmed (`StreamLeads`), and a completed run stays
completed.

*`loading`.* `FilesStand`: after an acquisition that ended, manifest, raw files and
CSV agree, and it loses no year it was not asked for. `LoadIsWhole`: a success is
of every data set, of the bytes that were verified, never of two revisions mixed.
`DiaryTells`: a run that failed or was killed is on record as that, and an emptied
table is never behind a history of successes. `MigrationsHold`: each version once,
in file order, drift is loud. `VerdictHolds`: a verification under which nothing moved
and that finds nothing is right (`PassIsEarned`), one of a whole load of files that
are still the same finds nothing (`GoodLoadPasses`), and whatever moved, its verdict is
filed under a success, and a pass not under an older one (`FiledWell`).

*`gateway`.* `TableIsTheUsers`: of the curve, the day and the days the user meant,
and never newer than the id it carries. The day is exact unless a load commits between
the queries of its look-up; then it is still one that was published and not after the day
that was asked for (`DayIsRight`). `WorkflowsHold`: no look-ahead, a replay
covers its window, each limit has its measure, a back-test is in the order of
time. `BridgeHolds`: one bridge in use, a declined question is reported, questions
stay with the thread that asked, nobody waits for ever. `LibraryHolds`: after an
ingest without failure the collection is what the documents say, a failure is
reported, no chunk is truncated, a search reads one reading, and a chunk two
versions share never vanishes on the way.

*`engine`.* `SearchHolds`: the root stays enclosed, "converged" and "unreachable"
are true, each target has its row, amber comes before red. `PackHolds`: each
scenario is in the table or among the failures, none is half applied, the worst is
the worst. `MeasuresAgree`: the list of worst days, VaR and shortfall agree,
contributions add up, coverage tests count what they say, clusters and worst metric
are what they claim. `ScheduleHolds`: coupons lie ahead, each is paid once.
`CalendarHolds`: exactly the open days are expected, on seventy years. `TableHolds`:
every record is in the table, or reported, once; days ascend; a pass is clean.
`ChunksHold`: no line is lost, a citation is exact, context travels. `AnswerHolds`:
an answer of a model is what it wrote and the schema asked, no request is made
twice, each start has an end, and telemetry has one call for it with what all its requests used. `LoopHolds`: every tool call
has a result, each tool has one owner, the answer is a last turn. `RequirementHolds`:
a requirement rests on what was retrieved, failures are told and not cached, stated
numbers are not clamped, and a result is valid only as agreed.

### Refinement

`Deliberation` is what whoever waits for a plan may rely on: drafts one after
another, a doubt that is never withdrawn, a verdict that is final, after at most
the given number of revisions, and from the first draft no other verdict than that
the task is not supported. It has no verdict `NEEDS_USER_INPUT`: the code cannot
reach it (see 5). `Negotiation` implements it with the trail's length for the
number of drafts and the family of the latest requirement for the doubt. TLC checks
it in `agents`; its safety part is proved (see 4).

`Feed` is what whoever watches a turn may rely on: a growing list of events that
were published, without a repeat, and an end. `EventBus` implements it, replay,
queue, silent waits, eviction and all; a step of a thread that hands over or of
the bus that forgets is a stutter. TLC checks it in `events`, its liveness included.
That the list is *complete* is not promised: `events_overtaken` shows why.

### Fairness

`TurnLedger`: weak fairness of `Abandon` only, because `asyncio.timeout` fires
unless an answer was read first; no handler has to return. `WorkerPool`: weak
fairness of a free thread, of some deadline and of some handler, which the executor,
the event loop and the timeouts of model and tool calls give. `EventBus`: weak
fairness of a stream's own steps, because uvicorn's loop drives the generator and
each wait has a timeout; publishers, turns and deliveries owe nothing. This supposes
a browser that reads or goes away, and a bounded number of events. `Negotiation`:
weak fairness of its next step; every call has a deadline, and a failed call is an outcome (`Assess` with
"missing", `Revise` with the same requirement). `SingleFlight`: weak fairness of
each request's own steps and of the end of its wait, a poll with a deadline
(`locks.py`); that a computation returns rests on the deadlines above. `McpBridge`:
weak fairness of each thread's steps, since `Future.result` has a timeout; servers
owe nothing. The other modules state no liveness and no fairness.

## 4. Proofs

Each proof follows one line: an inductive invariant `IInv`, `Init => IInv`, one
lemma per action that it is kept, and the properties as its consequences. The
assumptions are the modules' own named ASSUMEs and nothing else.

`TurnLedger_proofs`, for any agents, skills, tables and limits: `LedgerHolds`,
`AnswersStand`. None of the safety invariants is inductive alone. `AdmissionAgrees`
needs that a chain is its caller's chain plus the called skill (`ChainsNest`) and
got past the limits when it was made (`ChainsBounded`); the lemma `ReentriesAppend`
is the reason why `>=` before and `>` after are the same test. `ReplayIsFaithful`
needs that the memo refers only to answers a caller has read (`SeenIsTrue`), which
needs that only sent calls have tasks (`WorkIsSent`, `OpenIsSent`). `NestingBounded`
is about the stack of calls a handler runs under, which a recursive function follows
from caller to caller. That the function exists, and that each stack is its caller's
with one call more, is proved by the least call that would be an exception; then by the
same induction each chain is as long as its stack and names as many calls of each skill
(`ChainsTellTheTruth`), so that the limits, which the code applies to the chain, bind
the stack.

`Runtime_proofs`, for any budget, floor, grace, lag and number of calls:
`DeadlinesHold`. `CallOK` says what is known of a call by its stage; its centre is
that a deadline set at time s is `Max(s + Floor, Turn)`, so later deadlines differ
from earlier ones only by the floor. For any request and limits, `CallIsTold`: the
executor publishes a task in pieces, and a caller may read it between two of them, so
the invariant (`CallInv`) adds up what is on the task and what the handler has still
to publish, says that this sum is what the handler's end owes, and that a task which
reads as concluded owes nothing. For any threads, turns, calls and depth, the safety
half of `PoolMoves`, `StuckTakesManyTurns`: a caller that waits for a nested call runs
and holds its thread, and waits for one call at a time (`CallersRun`, `OneAtATime`);
when all threads wait, a count of the running calls gives one turn for each depth's
worth of threads. And, for any contracts, `WireIsFaithful`: whatever its reader
may be given for a field is read as it was (`FieldsAreRead`, one lemma for each way of
reading), what is left out is read as a requirement begins (`DefaultsAreRead`), and what
was read is again a contract (`Legible`), so it may be sent on. It rests on
`WireAssumption`: what is sent has the fields of its dataclass with values of their types.

In the same module, for any turns, ids, capacity and number of ledgers: `OneLedger`.
What holds of an undisturbed turn is inductive only with facts about the others: nobody
else works with its ledger and no other id leads to it (`Apart`), a turn that has not
begun holds nothing (`Fresh`), an entry is of a turn that was opened (`Begun`), and no
two entries are of one age (`Aged`). The oldest of too many entries has seen as many
ledgers made after its own as there are places (`OldestIsOld`), so eviction takes none
of the newest (`EvictFacts`), which is why a turn keeps its entry that long
(`OthersKeepTheirs`). That there is an oldest one is a well-founded minimum.

`Agents_proofs`, for any plans, questions, numbers of rounds and of still
rounds: `PlanIsSettled`, and that every step of the negotiation is a draft of the
`Deliberation` or a stutter (`NegotiationDeliberates`). The strengthening is that the
count of still rounds is exact (`CountIsExact`): as many at the end were still, and
the one before them was not. The first half gives `StallIsEarned`, the second
`NoIdleRound`.

In the same module, for any numbers of turns, gate rounds, retries, evictions and any
kinds of plans (`Bounds` only says that the limits are numbers): `NothingUnwanted`,
`WaitingMatchesStore` and `InterruptionsBounded` of a conversation. The invariant
(`TalkInv`) asks who has a task (`TaskOf`): the session while everybody rests, or the
turn that took it from there or is about to hand it over. For a user who waits for each
answer at most one turn is under way (`Alone`), though workers whose turn was given up
may still be at theirs; then no task has two owners, the retries left in the store and
the questions already put never add up to more than was granted, and a plan in the
store has not run (`TaskOK`). Handing over a task between session and turn exchanges two
owners and leaves all that as it was (`Untouched`); a worker takes care of its own task
and of the one it has (`KeptTasks`). That a refusal runs nothing needs that a turn which
runs a waiting plan was not told to stop, and one that runs a new plan has no task
(`Heeded`); it fails for questions that change the analysis (finding 2). The bound on
questions in a row is inductive once it is told per stage (`Patience`): what a session
says it was asked, how often its task was asked, and a fresh quota for each eviction
account for the questions so far (`Fits`). That the store keeps no other plan needs that
nothing times out: every stored task has an owner (`Owned`).

`EventBus_proofs`, for any publishers, streams, events, turns, evictions and length
of the history: `StreamIsWhole`, and that every step is one of the `Feed` or a
stutter (`EventBusFeeds`). That a reader sees nothing twice follows from two facts
that are not about readers: numbers rise as a stream shows them (`Rising`), and an
event's name tells which event it is, whoever holds it (`NamesTell`, over the
history, the threads' hands, the queues and the readers). That a stream does not end
too early follows from `EndIsTrue`: while the run is in the bus, a finished run and
a marker of the end, in a hand or in a queue, each mean that the turn is over.

In the same module, for any chats and questions, `ChatsAreKept`: `ActiveExists` and
`AnswerAfterQuestion` of `ChatStands`. The pairing is inductive only with what is known
while an answer is awaited (`Waiting`): the chat that asked ends in the question, or has
been cleared or begun anew, and has no answer to it. Asking again takes off the last
answer, whose question is the last of the user's (`LastAsked`), so the chat awaits again
what it had.

`SingleFlight_proofs`, for any requests, scenes, faults, lifetimes and time:
`SingleFlightCorrect` (`NothingStaysBehind`), `SingleFlightTyped` and `ServedRight`.
`OneOwner` follows from `Holding`: a lock is held under its holder's own key, and an
owner whose lock did not lapse is the holder. `NoImmortalEntry` needs that a step
that puts an entry goes to the place where its lifetime is given (`PutStays`), and
that giving one to a key leaves the entries of the others, and their promises, alone
(`GiveStays`). `ServedRight` speaks of an answer and its author's request, which may
have ended long before: `Told` says that what an entry claims, wherever it is, is
true of its author, `OwnIsNew` that what a request computed goes nowhere else before
it is stored, and `Young` that, while no command failed, age and remaining life of a
document make up at most its lifetime, and those of an exact entry at most that and its
own, for it may have been promoted from a document. It rests on one assumption besides
the module's limits: questions with the same identity have the same signature, since the
signature reads what the identity is made of (`domain_expert_agent.py:731-747`).

In the same module, for any number of workers and any limits, `StatsHold`. The run's
summary is read, merged and written back in three commands; what makes the sum right
is that whoever has read it holds the run's lock and that what it read is still what
is there (`Locked`), and that each worker is merged once (`MergedOnce`, `AddsUp`). That
the counters run ahead of the stream only behind its trimming is an invariant of one step:
an event is added before it is counted, and trimming leaves the newest.

`Database_proofs`, for any datasets, years, revisions, attempts and kills:
`FilesStand`. An acquisition moves through datasets and years, so the invariant is
about a half-finished run: the datasets behind it are settled and those before it
untouched (`SettledBehind`, `BlankAhead`); what it holds of the one it is at is what it
fetched or found (`Gathered`, `Complete`, `Entered`); no file is newer than the one it
was made from (`Ordered`). For any number of loaders and kills besides, `LoadIsWhole`
and `DiaryTells`: each loader has a run of its own (`OneRunEach`); the run record lags
its loader's steps by a known one (`DiaryLags`), which is why a kill between a commit
and its record can be told; a run beside which nobody loaded leaves the tables as it
staged them (`AloneIsAlone`), and one whose files stood still leaves them as it
registered them (`FilesStill`, `AsRegistered`). For any migrators, versions and edits,
`MigrationsHold`: what ran is on record (`Recorded`), files do not vanish and the
ledger never runs ahead of them (`Lasting`), and a migrator's list may be stale, but
what it has behind it is applied (`Knows`): a version that another migrator applied
meanwhile is refused by the ledger's primary key, and the run ends.

In the same module, for a verification beside any loads and acquisitions (`VerSpec`),
`VerdictHolds`. While nothing moves, what it has read is what is there (`NotWithheld`),
and while it has found nothing, each comparison behind it was between equals
(`Earned`). After a good load every comparison is between equals, which rests on
`LoadIsWhole`; that the files are as many as the registered ones is a bijection between
the manifest's files and `meta.source_file` (`VouchedOnce`). The status that was read
stays a success whatever moves, since only a running load's record changes
(`LoaderKeepsSuccess`), and so a pass is filed no earlier than under it (`ReadWell`).

Last there, for any years, before and after those the run looks at: `CalendarHolds`.
That Easter is the Sunday after the paschal full moon is three facts of arithmetic: the
two ways to correct the moon over the centuries agree (`Centuries`), so the computus and
the epact name one moon (`MoonsAgree`), and its last correction is one week exactly where
the epact skips a day and the Sunday would come too late (`SundayAfter`); the weekday of
March 1st depends only on the rests of the century and the year (`WeekOfMarch`). A holiday
with a date is kept on the day, or the Friday or Monday beside it (`ObservedIs`), one with a
place in its month is the one such weekday of seven days (`NthIs`), and none of these falls
on a weekend, so the days left are the open ones (`HolidaysAre`, `OpenDays`).

`Gateway_proofs`, for any documents, texts, batch size and limit: `LibraryHolds`. What
a clean ingest leaves is inductive only with what is known half-way: whatever batch
comes next, the chunks of the current document that were sent are in the store
(`Upserting`), because an upsert takes away only points whose ids it puts back and an id
names one point (`Stored`); the documents behind it are exact (`Exact`), and without an
edit what was read is what is on disk (`Unedited`). An ingest's documents are a set in
the model, taken in the order of their paths: that a first one is left is a
well-founded minimum.

For any days, vintages, pages and caps, `TableIsTheUsers`: a load may begin, rewrite or
fail between any two queries of a task. Each curve is whole and of one registered
vintage, or gone (`Tables`), so a look-up of a day in two or three queries still finds a
published day (`DayOK`), and, as long as nothing was committed since its first query, what
that one found to be covered and the next to be absent is so (`LookOK`), and no row is of a vintage that was registered after its id was
read (`IdOK`). The period of a history is fixed by the catalogue, which the process reads
once (`Fixed`, `Bounded`); in it `PagesOK`, `TenorOK` and `RowsOK` say which rows are
there after each page and each tenor, and that the cut keeps the most recent days of
*all* tenors (`WindowOK`) needs that each tenor has the same days. It rests on one
assumption besides the numbers: the first load brought at least one day.

For any threads, calls, blocks of work and rounds, `BridgeSafe`, the safety half of
`BridgeHolds`. A call that outlives its caller is still in flight and still writes; it
carries the block of work in which it was made, and what it was told came from that
block's relay (`InFlight`). A decline that a call knows of is in the relay (`Accounted`),
a question in a relay stays, and so a thread that reads its relay after the block finds
every question of a returned call (`Questions`). One bridge is in use because its lock
is held from the look at the instance until there is one or the start failed
(`OneInUse`); a call is its thread's and has a number of its own (`CallsOK`), so an
answer goes to the call that waits for it and to no other.

For any calendar, holidays, arguments and lengths of a history, `WorkflowsHold`: a load
may empty the curves, bring them or withhold the last day between any two calls, and any
call may fail or raise. `NoLookAhead` needs to know what is *left* to call: each of the
plans is calls that may date the valuation followed by calls that may read a history,
never the other way round (`TwoPhased`), so that once a history was read nothing is left
that could move its date (`DatedInv`), and a stated day bounds the date it resolves to. Of
a replay, as many curves have been read as are no longer left, the first on or before the
start and the second, for a stress, on or after the end (`Following`). Each supplied limit
has its measure behind it or still among the calls left (`LimitInv`), so a result without
one would have to drop a call. The order of time of a back-test is that each set of moves
has an increasing sequence, which counting how many of them lie below each one gives
without an induction. It rests on `RiskWorkflowsAssumption`: lengths are positive and
holidays are days.

`Engine_proofs`, for any callers, models, schemas, replies and limits: `AnswerHolds`.
Each caller has its own call, tally and kind of failure, which others cannot disturb
(`OneCallerAtATime`). What is known of a call (`CallerOK`) says which requests it can have
made: the plain one, then one told of the fault, or with spare tokens, and then with both
(`Chain`); that no two are alike and that there are at most three follows. That nothing is
invented needs that whatever the repairs make of a text is made of it. They cut it, drop
commas, close what is open, gather the arguments of a template: the number of braces that
are open and the pairs found are folds, and the folds are reasoned about by the least index
that would be an exception (`FoldSteps`), for there is no induction over data; `From` says
what a piece may become on the way.

In the same module, for any grid, profit-and-loss function and list of targets, and any
number of halvings, samples and iterations: `SearchHolds`. The bracket encloses the target
because each step keeps the half whose ends differ in sign (`NarrowEncloses`), wherever the
interpolated point falls, and it falls inside (`NextPointWithin`). A row keeps the interval
it was found in, what it promises of it (`RowOK`) and how the interval came about: a path of
halvings, each of them needed (`Shrunk`). Two such paths from one bound end at the same place
(`ShrunkAlike`), so limit and amber level were searched for in one interval, and there a
smaller loss is met first (`SmallerLossFirst`). It rests on two assumptions besides the
numbers: the P&L has a value or `Broken` at each multiple, and an amber level lies below its
limit (`reverse_stress.py:295-309`).

Third, for any servers, tools, turns and bound, on both vendors: `LoopHolds`. Between two
turns of the model all is told; while tools run, what was told, the results in hand and the
calls still to run make, in this order, what was called (`Spoken`). `RunTool` moves one call
(`OneCallLess`), and the last of them hands all results over, in one message or in one for
each (`ResultsAreTold`), which is why flattening has to be reasoned about part by part
(`FlatFollows`). Each turn but the last asked for something (`Concluded`), and the steps
count the turns, so the loop ends within its bound. A name belongs to the first server that
lists it (`Owns`); what is kept of one server's names has no name of another's
(`AllToolsOnce`). It rests on `HostAssumption`: there is a server, none is started twice, and
no server lists a name twice, which `mcp_clients.py:146` says of the servers.

Last, for any maturities and dates: `ScheduleHolds`. The coupon dates met, with the
date the walk has reached, are six months apart and end at the maturity (`Walk`), and
two walks from one maturity meet the same dates, counted from there (`WalksAgree`). So the
walk from the later date stops where the walk from the valuation came by, and its flows
are the rest of the other's (`LaterWalkIsTheRest`): each coupon is paid or left, and nothing
moves away, which is a small inequality of two fractions (`LessIsLeft`). The dates are in
order because six months before a date, its day clamped to the month, is again a date and
an earlier one (`SixMonthsBefore`), by the lengths of months and years. It rests on
`BondAssumption`: the constants are dates there are.

Only model-checked: liveness and the fair half of the two refinements (`TurnSettles`,
`Deliberates`, `Feeds`, `Answered`, the half of `PoolMoves` that says the queue moves
on, and of `BridgeHolds` that nobody waits), for temporal reasoning with fairness and
ENABLED is out of the prover's reach; the other parts of the browser's view (`ViewInOrder`,
`FeedIsTrue`, `NothingFloats`), since a sort and two folds over events make it; and what a
long computation on data yields: `RequirementHolds`, `PackHolds`,
`MeasuresAgree`, `TableHolds` and `ChunksHold`, whose operators sort, merge, select and
sum sequences one after the other, so that each would need several inductions by hand,
such as `Engine_proofs` makes one at a time.

## 5. What the code does and a document says otherwise

Shown by a run:

1. `guardrails.py:422`. A handler that starts after its turn was closed is given a
   new ledger with a whole budget, so a timed-out turn can exceed the limit that
   `runtime.py:255-257` calls a limit on the turn (`registry_timed_out`).
2. `pipeline.py:750`. The pipeline looks for a material answer before anybody
   looks for a refusal; a reply with both runs a plan, against
   `pipeline.py:716-717` (`conversation_refused`).
3. `pipeline.py:774`. A question that is put again loses the agreed plan, so a
   material answer to it is not revalidated, against `pipeline.py:747-748`
   (`conversation_reasked`).
4. `service.py:437`. Of two overlapping requests of one chat the session remembers
   one, against the comment at `service.py:431-433` (`conversation_lost_pair`).
5. `events.py:327`. Events are delivered outside the lock that numbers them; of
   two that arrive in the other order the stream drops the smaller number, against
   `service.py:505-508` (`events_overtaken`).

Seen while modelling and not given a run of their own. *Turns and agents:*

- `domain_expert_agent.py:1045` strips a decided requirement of its questions and
  `planning.py:284` takes `NEEDS_USER_INPUT` without a question for agreement (or
  for `UNSUPPORTED`), where README.md:1651 promises one clarifying question.
- `planning.py:226` reads only the expert's requirement; a plan the data layer
  calls infeasible can be `AGREED`, though README.md:1650 says both accept it; a
  missing assessment counts as feasible (`ports.py:101`).
- The diff that decides on a stall ignores tenors and parameters, though
  `planning.py:79-80` describes it as changing nothing at all.
- `pipeline.py:799` publishes the result of a resumed plan without the validation
  that README.md:1438 describes.
- `pipeline.py:871`: each revalidation opens a new task with its own retries, so
  with material questions the questions in a row are unbounded, against
  README.md:2769. `InterruptionsBounded` is therefore checked with `Material = FALSE`.
- The gate may ask after the orchestrator has (`pipeline.py:260`), where
  README.md:3930 says that a second clarification is not possible.
- `elicitation.py:46-47` says three chances in total; the first attempt and the
  default number of retries are four.
- `client.py:150-151` and `guardrails.py:253-254` say that a child can never
  outlive its parent; the floor allows it, by the amount `OutlastsByFloorOnly` states.
- `client.py:221` says "the call was cancelled" also when no task id is known yet.
- `cards.py:158` speaks of three rounds of negotiation; `planning.py` holds five.
- `runtime.py:59` counts three worker threads per turn; a given-up call that runs
  on makes more.
- The end of a run can overtake an event that is still being delivered
  (`events.py:266`); the stream then ends without it. No document promises otherwise.
- `envelope.py:25-29` says that integers are coerced back on the way in; the line numbers
  of a citation (`contracts.py:147-148`) are not (`envelope.py:437` takes the list as it
  came, and `line_start` is not among the `COUNT_KEYS`), so line 12 arrives as 12.0.
- `a2a/client.py:111`: a suppressed duplicate is reported as completed without
  having been reported as started; parallel calls in one bucket may swap durations.

*Cache:* `service.py:322` says (against 319-321) that a request waits when somebody
computes, but a failed acquire followed by an answered ping waits up to 310 s for
nobody; waiters whose owner fails wait the whole time too. Nobody looks into the
cache again after taking the lock. `touch` of a key that is gone opens the circuit
though Redis is up. Where Redis is required, `docs/redis.md:12-14` speaks of the start only;
`client.py:80-81` raises for every failing call, and `service.py:301` and 357 let it end a
request, also one whose value has been computed. `docs/redis.md:121` names the limit of the
event stream; the counters beside it are never trimmed and do not agree with it any more. An entry is discarded by name and may by then be a newer, valid
one. The semantic key does not name the model (`RightAnswer` holds because the
envelope is compared). An index that exists is accepted with another dimension.

*Data:* `load.py:253` verifies only raw files, against `load.py:26`: a CSV that a
killed acquisition left shortened loads as a success. A data set of which every
year failed becomes a CSV with only a header and loads as empty.
`download_us_treasury.py:786` says rebuilt from every raw file; a failed refresh
(722) leaves a year out until it is carried over. The "not in chronological order"
error cannot be raised, for the table has just been sorted. Natural-key duplicates
with different values are kept, and the loader's upsert then refuses the batch.
Migrations are ordered by file name, not number, and the checksum recorded is the
one of the file after its SQL ran. A file that the Treasury revised has two rows in
`meta.source_file`, and `verify_load.py` counts rows against files: the check fails for
good after the first revision. Its verdict on a database without a successful run is
lost, since `meta.reconciliation` refers to one.

*Gateway:* `mcp_agent.py` says it must not guess (about line 1118), but a failed
look-up of the curve quietly means nominal. "The source holds N" is said of rows
that the 365-day window and the cap of 2000 have limited. The "live catalogue" is
read once per process, and is stale or empty if that was during a load; the
snapshot id changes before the rows do. The connection is autocommitting and a look-up of
a day is up to three queries (`server.py:315`, `repository.py:160` and 167): a load that
commits between them can serve the day before one that is published, under
`date_was_shifted`, or a day outside the coverage. `compare_portfolio_risk` reads a failed
listing as "only one portfolio exists". `risk_workflows.py:1154` samples the
back-test's moves. `run_stress` replays to the next trading day, and
`run_historical_stress` to the previous one. A bridge whose start timed out leaves a
host running beside its successor's ("one event loop, one McpHost"); one whose host
died is handed out again; timed-out calls are not cancelled.

*Risk engine:* a target is "not reachable by any multiple inside the search
interval" also when a P&L that is not monotone reaches it inside. `_usable_bound`
halves towards zero, which moves a bound of the other sign outwards. A `CurveError`
in the search is no `EngineError` and aborts the whole table of thresholds. The
shortfall of two tools differs when the quantile is a gain. A metric exactly at the
amber amount is green for 29 % and 57 % by rounding. `pricing.py:130` against
152-154: months are subtracted from an already clamped date, so a bond of 31 August
goes 28 February → 28 August. The fingerprint of a run (`manifest.py`) omits inputs
that change its result, the valuation date among them. P&L attribution leaves out
positions that were bought.

*Knowledge base:* a section can be cut into chunks over the budget (glued formulas,
a large row), against `markdown_chunker.py:406`; the ingest then refuses loudly when
the model's limit is passed. A heading without text is in no chunk. Chunks of a
document that was removed or renamed are never pruned. The executable knowledge is
ingested only into an empty collection.

*Models and tools:* `structured_call` says that it returns None and never raises;
a missing key raises. A string or number cut by the output limit is closed and
accepted (`zai_provider.py:431-441` says no repair can change a value). The text
"null" becomes null also where the schema forbids it. The limiter counts one per
structured call of up to three requests, and so does telemetry, which records whether a
call was made and not how many (`cache/service.py:264`), though it adds up their usage. A turn of the tool loop cut at the token
limit is returned as a plain answer (`host/agent.py:180`); results of the last step
are run and never read; a second server that fails to start leaves the first
running. `quote_is_grounded` checks that the sentence exists, not that it states the
number; target losses are cut to 20 without a word; a retrieval of which one query
failed is cached as complete.

*Client:* an answer goes to the chat that is active when it arrives; clearing a chat
keeps its session on the server; a regeneration that fails has lost the old answer.

## 6. Limits of the models

- Whether the A2A library hands one executor two messages of one task at a time is
  not visible in `src/`; `NothingUnwanted` therefore claims that nothing runs twice for
  turns that do not overlap (a timed-out worker included), since `_peek` and
  `_forget` are two critical sections.
- `is_refusal` and `match_answer` are abstracted to two Booleans, chosen freely.
- A plan that runs is one step of `Conversation`; its calls are in `Retrieval` and
  `RiskWorkflows`, one plan at a time beside a loader.
- `EventBus` follows one request id; the other runs appear as evictions. Turns with
  one id follow each other. The limit of 2048 queued items and the cleaning of
  metadata are left out.
- `TurnLedger` has one way to give up a call, `Abandon`; `dispatch`'s own timeout on the
  thread (`client.py:279`), after which the caller goes on while the link still waits and
  may record the answer later, is in `TurnClock` (`Cut`) and not in `TurnLedger`.
- A contract is followed by the type of its fields: a text is any text, a passage has the
  keys of `KnowledgeChunk.as_dict`, and the list of target losses is one number.
- `TurnClock` lets time pass in ticks and lets a timer fire on its tick; the event
  loop's lateness is in `Lag`.
- `SingleFlight` has one key of each kind, and lifetimes of one and two ticks.
- A file's revision stands for its content in `Acquisition`, `Loader` and
  `Migrations`; `FeedTable` looks into the content.
- `RiskWorkflows` takes the queries of one look-up of a curve as one step (they are apart in
  `Retrieval`) and leaves out that a back-test of fewer than 30 observations ends in an error
  (`risk_workflows.py:1193-1195`), for the length of a history is a bound there.
- `StressPack` refuses a tenor that is no node: `allow_unknown_tenors` of `custom_shock`
  (`stress_scenarios.py:317`, 327), the interpolation by `node_rank` and `severity_pack` are
  left out.
- The risk engine's pricing is a table that is monotone unless a case needs
  otherwise; carry and roll, attribution and durations are not modelled.
- One process opens the collection of the executable knowledge at a time.

### Not modelled

Prompts and answers of the orchestrator, redaction, evaluation, the scripts that
set up and clean the repository, the components and themes of the browser, formatting of tables and
reports: text, with no state that another part depends on. Time series, question
frequencies and the administrator's reports of the cache, since nothing reads them
back. The A2A library, Redis, Postgres, Chroma, the MCP SDK and the vendors' HTTP
clients are not in this repository; they appear as what the code assumes of them.

## 7. What comes next

Proofs: the parts of `Expert` that need no sort. Abstract specifications: a cache that is a register of computed
values for `SingleFlight`, and a ledger of versions for `Migrations`.
