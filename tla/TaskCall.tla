------------------------------ MODULE TaskCall ------------------------------
(***************************************************************************)
(* One call from one agent to another, end to end: AgentLink._send with    *)
(* its deadline on this side; on the other the executor that admits the    *)
(* request, runs the handler on a thread and publishes what it produced,   *)
(* piece by piece, on the task that the caller reads.  And what becomes of *)
(* the contracts (agents/contracts.py) that it carries: as JSON inside a   *)
(* protobuf Value every number arrives as a float, and the receiver reads  *)
(* each field back by the kind it has (agents/a2a/envelope.py).            *)
(***************************************************************************)
EXTENDS Naturals, Sequences, FiniteSets

CONSTANTS ChainLimit,    \* max_chain()
          ReentryLimit   \* max_reentry()

ASSUME CallAssumption == {ChainLimit, ReentryLimit} \subseteq Nat \ {0}

\* A request by what admission looks at: an envelope, a skill of the card, a caller the skill is
\* served to, the length of the call path and how often this skill is on it.
WireRequests == {r \in [envelope : BOOLEAN, advertised : BOOLEAN, permitted : BOOLEAN,
                        chain : 0..ChainLimit + 1, reentries : 0..ReentryLimit + 1] :
                   r.reentries <= r.chain /\ (r.advertised => r.envelope)}

Settled == {"completed", "failed", "canceled", "rejected", "input-required", "auth-required"}
NoTask  == [state |-> "none", artifacts |-> {}, message |-> "none"]
NoResult == [state |-> "none", kind |-> "none", artifacts |-> {}, question |-> FALSE]

VARIABLES wire,      \* the request
          task,      \* the task as the server has it
          toAdd,     \* artifacts the executor has yet to publish
          handler,   \* "idle", "running", or what it ended with
          settled,   \* the result the caller has; NoResult while it waits
          cancelled  \* tasks/cancel was sent
callVars == <<wire, task, toAdd, handler, settled, cancelled>>

Waiting == settled = NoResult

CallInit == /\ wire \in WireRequests /\ task = NoTask /\ toAdd = {} /\ handler = "idle"
            /\ settled = NoResult /\ cancelled = FALSE

RefusalUnbounded(r) ==
    IF ~r.envelope \/ ~r.advertised THEN "bad_request"
    ELSE IF ~r.permitted THEN "caller_not_permitted"
    ELSE IF r.chain < 1 THEN "chain_missing" ELSE "none"
\* read_request_message and _admit: the first objection that applies.
Refusal(r) ==
    IF ~r.envelope \/ ~r.advertised THEN "bad_request"
    ELSE IF ~r.permitted THEN "caller_not_permitted"
    ELSE IF r.chain < 1 THEN "chain_missing"
    ELSE IF r.chain > ChainLimit THEN "chain_limit"
    ELSE IF r.reentries > ReentryLimit THEN "reentry_limit" ELSE "none"

\* execute: a refusal is published as an error and ends the task; otherwise the handler starts.
Admit ==
    /\ task = NoTask
    /\ IF Refusal(wire) = "none"
       THEN task' = [NoTask EXCEPT !.state = "working"] /\ handler' = "running"
       ELSE /\ task' = [state |-> "rejected", artifacts |-> {Refusal(wire)}, message |-> "text"]
            /\ UNCHANGED handler
    /\ UNCHANGED <<wire, toAdd, settled, cancelled>>

Outcomes == {"completed", "input-required", "canceled", "failed", "raised"}
\* The handler ends: two artifacts beside an answer, and the error beside a failure.
Handle(outcome) ==
    /\ handler = "running" /\ handler' = outcome
    /\ toAdd' = CASE outcome \in {"failed", "raised"} -> {"agent_error"}
                  [] outcome = "completed" -> {"data", "summary"}
                  [] OTHER -> {}
    /\ UNCHANGED <<wire, task, settled, cancelled>>
AddArtifact(name) == /\ name \in toAdd /\ toAdd' = toAdd \ {name}
                     /\ task' = [task EXCEPT !.artifacts = @ \cup {name}]
                     /\ UNCHANGED <<wire, handler, settled, cancelled>>

FinalState(outcome) == IF outcome = "raised" THEN "failed" ELSE outcome
Conclude == task' = [task EXCEPT !.state = FinalState(handler),
                        !.message = IF handler = "input-required" THEN "question" ELSE "text"]
            /\ UNCHANGED <<wire, toAdd, handler, settled, cancelled>>
FinishEarly == task.state = "working" /\ handler \in Outcomes /\ Conclude
\* The status goes last: whoever sees it sees everything.
Finish == task.state = "working" /\ handler \in Outcomes /\ toAdd = {} /\ Conclude

\* cancel: the task is marked; the handler is not told.
CancelTask == /\ task.state = "working" /\ cancelled /\ task' = [task EXCEPT !.state = "canceled"]
              /\ UNCHANGED <<wire, toAdd, handler, settled, cancelled>>

Failure(kind) == [state |-> "failed", kind |-> kind, artifacts |-> {}, question |-> FALSE]
Kinds == {"bad_request", "caller_not_permitted", "chain_missing", "chain_limit", "reentry_limit", "agent_error"}
ReadTask == [state |-> task.state, artifacts |-> task.artifacts,
             kind |-> IF task.artifacts \cap Kinds = {} THEN "none"
                      ELSE CHOOSE k \in task.artifacts \cap Kinds : TRUE,
             question |-> task.message = "question"]
Settle(result, cancel) == settled' = result /\ cancelled' = cancel
                          /\ UNCHANGED <<wire, task, toAdd, handler>>

AnyState(state) == TRUE
IsSettled(state) == state \in Settled
\* The server answers with the task: when that is settled, or as it stands when the cancellation
\* of a call whose deadline came was absorbed on its way.  An unsettled one is a failure.
Receive == /\ Waiting /\ task # NoTask
           /\ IF IsSettled(task.state) THEN Settle(ReadTask, cancelled)
              ELSE Settle(Failure("incomplete"), TRUE)
\* The deadline, before any task was received: there is no id to cancel.
TimeOut   == Waiting /\ Settle(Failure("timeout"), cancelled)
\* The agent cannot be reached, or the loop is gone (dispatch); or nothing comes back.
Unreached == \E kind \in {"unavailable", "empty_response"} : Waiting /\ Settle(Failure(kind), cancelled)

CallNext == \/ Admit \/ Finish \/ CancelTask \/ Receive \/ TimeOut \/ Unreached
            \/ \E outcome \in Outcomes : Handle(outcome)
            \/ \E name \in toAdd : AddArtifact(name)

-----------------------------------------------------------------------------
(* What is checked.                                                        *)

\* What the caller is told has happened: an answer is one the handler gave, whole; a question to
\* the user is there with the state that announces it; a refusal or failure says of which kind.
ToldTheTruth ==
    /\ settled.state = "completed" => handler = "completed" /\ settled.artifacts = {"data", "summary"}
    /\ settled.state = "input-required" => handler = "input-required" /\ settled.question
    /\ settled.state \in {"failed", "rejected"} => settled.kind # "none"

\* A caller acts on a state that is final, never on a report of progress.
ActsOnSettled == ~Waiting => settled.state \in Settled

\* What is refused never runs, and what runs came with a permitted caller and a path within limits.
RefusedNeverRuns ==
    handler # "idle" => /\ wire.envelope /\ wire.permitted
                        /\ wire.chain \in 1..ChainLimit /\ wire.reentries <= ReentryLimit

\* A caller acts on the truth about its call, and only permitted calls run
\* (client.py:198-300, executors.py:180-330).
CallIsTold == ToldTheTruth /\ ActsOnSettled /\ RefusedNeverRuns

-----------------------------------------------------------------------------
(* The contracts on the wire.  A value is an atom, an object of atoms, or  *)
(* a list of either.                                                       *)

None     == [is |-> "none"]
Text(t)  == [is |-> "text", text |-> t]
Whole(n)   == [is |-> "int", n |-> n]
Number(n, whole) == [is |-> "float", n |-> n, whole |-> whole]
Flag(b)  == [is |-> "bool", b |-> b]
Object(of) == [is |-> "object", of |-> of]
List(items) == [is |-> "list", items |-> items]

\* How a field is read: as what, and what it is when it is not there.
Words(or) == [as |-> "text", or |-> Text(or)]
YesNo(or) == [as |-> "flag", or |-> Flag(or)]
Integer   == [as |-> "int", or |-> None]
Verbatim  == [as |-> "raw", or |-> None]
Texts     == [as |-> "list", or |-> List(<<>>)]
Scope     == [as |-> "scope", or |-> Object([as_of_date |-> None, start_date |-> None,
                                             end_date |-> None, lookback_days |-> None])]
Decided   == [as |-> "decision", or |-> None]
Params    == [as |-> "params", or |-> Object(<<>>)]
Passages  == [as |-> "passages", or |-> List(<<>>)]

\* requirement_from_dict, serve_response_from_dict and intent_from_dict, field by field.
RequirementFields ==
    [task |-> Words(""), answerable |-> YesNo(TRUE), fields |-> Texts, field_notes |-> Texts,
     rows |-> Integer, row_reason |-> Words(""), row_quote |-> Verbatim, grounded |-> YesNo(FALSE),
     tenors |-> Texts, curve_family |-> Words("nominal"), temporal |-> Scope, decision |-> Decided,
     is_hypothesis |-> YesNo(FALSE), candidate_fields |-> Texts, open_questions |-> Texts,
     assumptions |-> Texts, limitations |-> Texts, calculation |-> Verbatim,
     calculation_params |-> Params, unanswerable_reason |-> Verbatim, blocked_by |-> Words(""),
     citations |-> Passages, warnings |-> Texts]
ServeResponseFields ==
    [feasible |-> YesNo(TRUE), available_fields |-> Texts, unsupported_fields |-> Texts,
     unnecessary_fields |-> Texts, unsupported_calculation |-> Verbatim, available_tools |-> Texts,
     max_rows_available |-> Integer, temporal_constraints |-> Texts, constraints |-> Texts,
     counter_proposal |-> Words(""), answered_questions |-> Texts, open_questions |-> Texts,
     notes |-> Texts]
IntentFields ==
    [route |-> Words("data_request"), reasoning |-> Words(""), task |-> Words(""),
     direct_answer |-> Words(""), requested_fields |-> Texts, requested_rows |-> Integer,
     question |-> Words(""), options |-> Texts]
Reader == [requirement |-> RequirementFields, serve_response |-> ServeResponseFields, intent |-> IntentFields]
Kinds_ == DOMAIN Reader

\* What a sender puts there.  The parameters of a calculation by their rules (the list of target
\* losses is one of the numbers); a retrieved passage by what KnowledgeChunk says of it.
IntegerRules == {"horizon_days", "scenario_count", "top_n"}
NumberRules == {"confidence_level", "shock_bp", "severity_bp", "pivot_tenor_months", "tenor_months",
                "amber_utilisation_percent", "target_loss", "target_losses", "limit_amount", "dv01_limit",
                "var_limit", "stress_loss_limit", "notional"}
EnumRules == {"scenario", "crisis_id", "risk_measure", "other_portfolio_id"}
PassageKeys == {"domain", "source", "heading", "distance", "score", "label", "collection", "corpus",
                "chunk_id", "document_path", "line_start", "line_end", "retrieval_query"}
Decisions == {"AGREED", "NEEDS_USER_INPUT", "UNSUPPORTED", "CANNOT_REACH_AGREEMENT"}

IsText(v) == v.is = "text" /\ v = Text(v.text)
IsInt(v) == v.is = "int" /\ v = Whole(v.n)
IsFloat(v) == v.is = "float" /\ v = Number(v.n, v.whole)
IsObject(v) == v.is = "object" /\ v = Object([k \in DOMAIN v.of |-> v.of[k]])
IsList(v) == v.is = "list" /\ v = List([i \in DOMAIN v.items |-> v.items[i]])
Fits(how, v) ==
    CASE how.as = "text" -> IsText(v) /\ (v.text = "" => v = how.or)
      [] how.as = "flag" -> v.is = "bool" /\ v = Flag(v.b)
      [] how.as = "int"  -> v = None \/ IsInt(v)
      [] how.as = "raw"  -> v = None \/ IsText(v)
      [] how.as = "list" -> IsList(v) /\ \A i \in DOMAIN v.items :
             IsText(v.items[i]) \/ (IsObject(v.items[i]) /\ \A k \in DOMAIN v.items[i].of : IsText(v.items[i].of[k]))
      [] how.as = "scope" -> /\ IsObject(v) /\ DOMAIN v.of = DOMAIN Scope.or.of
                             /\ v.of["lookback_days"] = None \/ IsInt(v.of["lookback_days"])
                             /\ \A k \in DOMAIN v.of \ {"lookback_days"} :
                                    v.of[k] = None \/ (IsText(v.of[k]) /\ v.of[k].text # "")
      [] how.as = "decision" -> v = None \/ (IsText(v) /\ v.text \in Decisions)
      [] how.as = "params" -> IsObject(v) /\ \A k \in DOMAIN v.of :
             \/ k \in IntegerRules /\ IsInt(v.of[k])
             \/ k \in NumberRules /\ IsFloat(v.of[k])
             \/ k \in EnumRules /\ IsText(v.of[k])
      [] how.as = "passages" -> IsList(v) /\ \A i \in DOMAIN v.items :
             IsObject(v.items[i]) /\ \A k \in DOMAIN v.items[i].of :
                 k \in PassageKeys /\ (\/ v.items[i].of[k] = None \/ IsText(v.items[i].of[k])
                                       \/ IsInt(v.items[i].of[k]) \/ IsFloat(v.items[i].of[k]))
IsContract(c) == /\ c = [of |-> c.of, data |-> c.data] /\ c.of \in Kinds_
                 /\ c.data = [f \in DOMAIN Reader[c.of] |-> c.data[f]]
                 /\ \A f \in DOMAIN Reader[c.of] : Fits(Reader[c.of][f], c.data[f])

CONSTANT Contracts     \* what is sent: requirements, assessments and intents
ASSUME WireAssumption == \A c \in Contracts : IsContract(c)

\* _jsonable and protobuf's Value: JSON has one type of number.
WireAtom(a) == IF a.is = "int" THEN Number(a.n, TRUE) ELSE a
WireEntry(e) == IF e.is = "object" THEN Object([k \in DOMAIN e.of |-> WireAtom(e.of[k])]) ELSE WireAtom(e)
OnTheWire(v) == IF v.is = "list" THEN List([i \in DOMAIN v.items |-> WireEntry(v.items[i])]) ELSE WireEntry(v)

IntOrDefault(v, default) == IF v.is = "int" THEN v ELSE default
\* _int: a whole number is an integer again, anything else is what the caller says it is.
AsInt(v, default) == IF v.is = "int" \/ (v.is = "float" /\ v.whole) THEN Whole(v.n) ELSE default

CountKeysOnce == {"rows", "requested_rows", "max_rows_available", "lookback_days", "horizon_days"}
\* Those that may occur here.
COUNT_KEYS == {"rows", "requested_rows", "max_rows_available", "lookback_days", "horizon_days", "scenario_count",
               "top_n"}
CountAtom(k, a) == IF k \in COUNT_KEYS /\ a.is = "float" THEN AsInt(a, a) ELSE a
CountEntry(k, e) ==
    IF e.is = "object" THEN Object([j \in DOMAIN e.of |-> CountAtom(j, e.of[j])]) ELSE CountAtom(k, e)
restore_counts(k, v) ==
    IF v.is = "list" THEN List([i \in DOMAIN v.items |-> CountEntry("", v.items[i])]) ELSE CountEntry(k, v)

\* TemporalScope.from_dict: int() and str() of what is there.
ScopeFrom(of) ==
    Object([k \in DOMAIN Scope.or.of |->
               IF k = "lookback_days" THEN IF of[k].is \in {"int", "float"} THEN Whole(of[k].n) ELSE None
               ELSE IF of[k].is = "text" /\ of[k].text # "" THEN of[k] ELSE None])
\* Of these values, an empty or unreadable one is as good as none; a list or an object of the passages
\* is taken as it came.
Read(how, v) ==
    CASE how.as = "text"  -> IF v.is = "text" /\ v.text # "" THEN v ELSE how.or
      [] how.as = "flag"  -> IF v.is = "bool" THEN v ELSE how.or
      [] how.as = "int"   -> AsInt(v, None)
      [] how.as = "scope" -> IF v.is = "object" THEN ScopeFrom(v.of) ELSE how.or
      [] how.as = "decision" -> IF v.is = "text" /\ v.text \in Decisions THEN v ELSE None
      [] how.as = "params" -> IF v.is = "object" THEN restore_counts("", v) ELSE how.or
      [] how.as \in {"list", "passages"} -> IF v.is = "list" THEN v ELSE how.or
      [] how.as = "raw" -> v
\* What is not there is read as if it were nothing.
from_dict(kind, sent) ==
    [f \in DOMAIN Reader[kind] |-> Read(Reader[kind][f], IF f \in DOMAIN sent THEN sent[f] ELSE None)]

\* An artifact is rebuilt as it came; the input of a request has its counts restored before
\* (read_request_message).
AsArtifact(kind, data) == from_dict(kind, [f \in DOMAIN data |-> OnTheWire(data[f])])
InRequest(kind, data)  == from_dict(kind, [f \in DOMAIN data |-> restore_counts(f, OnTheWire(data[f]))])

NothingLeftOut == {}
LeavesOutGrounding == {"decision", "blocked_by", "unanswerable_reason", "row_reason", "warnings", "citations", "grounded"}
NOT_A_CAPABILITY_QUESTION == {"decision", "blocked_by", "unanswerable_reason", "row_reason", "warnings", "citations"}
as_capability_request(r) == [f \in DOMAIN r \ NOT_A_CAPABILITY_QUESTION |-> r[f]]

\* Of the answers: an unreadable verdict or decision is not a pass.
Verdicts == {"VALID", "VALID_WITH_WARNINGS", "INVALID"}
VerdictByDefault(v) == IF v.is = "text" /\ v.text = "INVALID" THEN "INVALID" ELSE "VALID"
validation_from_dict(v) == IF v.is = "text" /\ v.text \in Verdicts THEN v.text ELSE "INVALID"
negotiation_from_dict(v) == IF v.is = "text" /\ v.text \in Decisions THEN v.text ELSE "CANNOT_REACH_AGREEMENT"
\* A tool of the catalogue: kind is what a catalogue says today, executable what it said once.
Peers == {"current", "older"}
tool_as_dict(executable, peer) ==
    IF peer = "older" THEN [kind |-> "absent", executable |-> executable]
    ELSE [kind |-> IF executable THEN "calculation" ELSE "retrieval", executable |-> FALSE]
ReadsTheOldKey(t) == t.executable
catalogue_from_dict(t) == IF t.kind # "absent" THEN t.kind = "calculation" ELSE t.executable

VARIABLES contract,  \* of the sender
          received,  \* what the receiver has made of it
          judgement, \* of an answer: what was sent, and the verdict and decision it was read as
          tool       \* of a catalogue: whether a calculation, and whether it arrived as one
wireVars == <<contract, received, judgement, tool>>
Judged == {None, Text(""), Text("garbled")} \cup {Text(t) : t \in Verdicts \cup Decisions}
Nothing == <<>>

WireInit == /\ contract \in Contracts /\ received = Nothing
            /\ judgement = [sent |-> None, verdict |-> "none", decision |-> "none"]
            /\ tool = [is |-> "none"]
\* As an artifact: a plan, an assessment, or the outcome of a turn with its intent.
SendContract == /\ received = Nothing /\ received' = AsArtifact(contract.of, contract.data)
                /\ UNCHANGED <<contract, judgement, tool>>
SendCapabilityRequest == /\ received = Nothing /\ contract.of = "requirement"
                         /\ received' = InRequest(contract.of, as_capability_request(contract.data))
                         /\ UNCHANGED <<contract, judgement, tool>>
\* A requirement that arrived is sent on, to be executed and to be validated against.
PassOn == /\ received # Nothing /\ contract.of = "requirement"
          /\ contract' = [contract EXCEPT !.data = received]
          /\ received' = InRequest(contract.of, received) /\ UNCHANGED <<judgement, tool>>
Judge(v) == /\ judgement.verdict = "none"
            /\ judgement' = [sent |-> v, verdict |-> validation_from_dict(OnTheWire(v)),
                             decision |-> negotiation_from_dict(OnTheWire(v))]
            /\ UNCHANGED <<contract, received, tool>>
ReadTool(executable, peer) ==
    /\ tool.is = "none"
    /\ tool' = [is |-> "tool", sent |-> executable, arrived |-> catalogue_from_dict(tool_as_dict(executable, peer))]
    /\ UNCHANGED <<contract, received, judgement>>
WireNext == \/ SendContract \/ SendCapabilityRequest \/ PassOn
            \/ \E v \in Judged : Judge(v)
            \/ \E executable \in BOOLEAN, peer \in Peers : ReadTool(executable, peer)

\* What a Requirement has where the question of capability left it out (contracts.py:273-347).
Default == [decision |-> None, blocked_by |-> Text(""), unanswerable_reason |-> None, row_reason |-> Text(""),
            warnings |-> List(<<>>), citations |-> List(<<>>)]
\* Passages lose nothing but the kind of a whole number: line 12 arrives as 12.0.
SamePassages(sent, got) ==
    /\ got.is = "list" /\ DOMAIN got.items = DOMAIN sent.items
    /\ \A i \in DOMAIN sent.items :
           /\ DOMAIN got.items[i].of = DOMAIN sent.items[i].of
           /\ \A k \in DOMAIN sent.items[i].of :
                  LET a == sent.items[i].of[k]
                      b == got.items[i].of[k]
                  IN  b = a \/ (a.is = "int" /\ b = Number(a.n, TRUE))

FieldArrives(f, sent, got) == got[f] = sent[f] \/ (f = "citations" /\ SamePassages(sent[f], got[f]))

\* What arrives is what was sent, by whichever way and however often it is passed on: every count
\* and every parameter is the kind of number it was, wherever it stands, but for the lines of a
\* citation, which have no rebuilder.  Of a question of capability just that is missing which is
\* none, all of it: each of these fields is as a Requirement begins, so that nothing is denied that
\* was said (envelope.py:353-442, contracts.py:362-401, domain_expert_agent.py:1062-1180).
ArrivesAsSent ==
    \/ \A f \in DOMAIN received : FieldArrives(f, contract.data, received)
    \/ \A f \in DOMAIN received :
           IF f \in DOMAIN Default THEN received[f] = Default[f] ELSE FieldArrives(f, contract.data, received)

\* Nothing that cannot be read passes as a yes.
NoPassByAccident == judgement.verdict # "none" =>
    /\ judgement.verdict # "INVALID" => judgement.sent = Text(judgement.verdict)
    /\ judgement.decision = "AGREED" => judgement.sent = Text("AGREED")

\* A calculation arrives as one that may be scheduled, from a peer of either version, and nothing
\* else does (envelope.py:442-464).
ToolsArrive == tool.is = "tool" => tool.arrived = tool.sent

\* Two rounds that ask the same of the data layer look the same to it, whatever the expert has
\* decided or been warned of meanwhile, so that a repeat is recognised (contracts.py:382-401).
SameQuestionSameDigest == contract.of = "requirement" =>
    LET later == [contract.data EXCEPT !.decision = Text("AGREED"), !.row_reason = Text("r"), !.blocked_by = Text("data"),
                                       !.unanswerable_reason = Text("u"), !.citations = List(<<>>),
                                       !.warnings = List(<<Text("w"), Text("v")>>)]
    IN  as_capability_request(later) = as_capability_request(contract.data)

\* A contract arrives as it was sent: no count changes its kind, no missing verdict passes for
\* one, and equal questions look equal (envelope.py).
WireIsFaithful == ArrivesAsSent /\ NoPassByAccident /\ ToolsArrive /\ SameQuestionSameDigest
=============================================================================
