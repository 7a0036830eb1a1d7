------------------------------ MODULE HostLoop ------------------------------
(***************************************************************************)
(* mcp_servers/host: McpHost starts the servers and merges their tools,    *)
(* agent.answer lets a model call them until it asks for none, and a       *)
(* server may borrow the model for a text while one of its tools runs.     *)
(* A turn of the model is a record [fault, choices, calls, finish, text];  *)
(* each of its calls is [id, name, good], good when its arguments parse.   *)
(* Each definition named ...Wrong is a mutation of the one after it.       *)
(***************************************************************************)
EXTENDS Integers, Sequences, SequencesExt, FiniteSets

CONSTANTS Specs,          \* sequence of servers, in the order they are started
          Offers,         \* set of functions from a server to the tools it lists
          Turns,          \* what the vendor may answer
          MaxSteps        \* MAX_STEPS

VARIABLES vendor,         \* the provider behind the loop
          offer,          \* what the servers list
          host,           \* children, owner of each tool name, and how far it is
          talk,           \* the conversation of one question
          draft           \* the last text a server was lent the model for
hostVars == <<vendor, offer, host, talk, draft>>

Servers == {Specs[i] : i \in DOMAIN Specs}
Elements(s) == {s[i] : i \in DOMAIN s}

\* An empty list of servers means the two of the repository; a server offers a name once.
ASSUME HostAssumption ==
    /\ Specs \in Seq(Servers) \ {<<>>} /\ IsInjective(Specs)
    /\ \A o \in Offers : \A s \in Servers : o[s] \in Seq(Elements(o[s])) /\ IsInjective(o[s])
    /\ \A r \in Turns : r.calls \in Seq(Elements(r.calls))
    /\ MaxSteps \in Nat \ {0}
NoDraft == [text |-> "", label |-> "none", stop |-> "none"]

(* ---- what a provider makes of a turn ------------------------------------ *)
StopReason(finish, calls) ==
    IF calls # <<>> \/ finish = "tool_calls" THEN "tool_calls"
    ELSE IF finish = "length" THEN "length"
    ELSE IF finish = "content_filter" THEN "refusal" ELSE "end_turn"
ClaudeStop(finish, calls) ==
    IF finish = "refusal" THEN "refusal" ELSE IF calls # <<>> THEN "tool_calls" ELSE "end_turn"

\* one call whose arguments do not parse fails the whole turn; Claude's arrive parsed
ZaiTurn(r) ==
    IF r.fault \/ ~r.choices \/ (\E i \in DOMAIN r.calls : ~r.calls[i].good) THEN "fault"
    ELSE StopReason(r.finish, r.calls)
ClaudeTurn(r) == IF r.fault THEN "fault" ELSE ClaudeStop(r.finish, r.calls)
TurnOf(r) == IF vendor = "zai" THEN ZaiTurn(r) ELSE ClaudeTurn(r)

ZaiComplete(r)    == IF r.fault \/ ~r.choices THEN "fault" ELSE StopReason(r.finish, <<>>)
ClaudeComplete(r) == IF r.fault THEN "fault" ELSE ClaudeStop(r.finish, <<>>)
CompletionOf(r)   == IF vendor = "zai" THEN ZaiComplete(r) ELSE ClaudeComplete(r)

\* tool_result_message: one message for each result, or one for all
ToolResultMessage(results) ==
    IF vendor = "zai" THEN [i \in DOMAIN results |-> [role |-> "tool", results |-> <<results[i]>>]]
    ELSE <<[role |-> "user", results |-> results]>>

(* ---- the host ----------------------------------------------------------- *)
HostInit ==
    /\ vendor \in {"zai", "anthropic"}
    /\ offer \in Offers
    /\ host = [at |-> "starting", started |-> 0, children |-> {}, owner |-> <<>>]
    /\ talk = [at |-> "none", step |-> 0, messages |-> <<>>, todo |-> <<>>, results |-> <<>>, answer |-> "none"]
    /\ draft = NoDraft

\* the first server that offers a name keeps it
Merged(s) ==
    [n \in DOMAIN host.owner \cup Elements(offer[s]) |-> IF n \in DOMAIN host.owner THEN host.owner[n] ELSE s]
AllToolsUnfilteredWrong == FlattenSeq([i \in DOMAIN Specs |-> offer[Specs[i]]])
Kept(s) ==
    FoldLeft(LAMBDA kept, n : IF host.owner[n] = s THEN Append(kept, n) ELSE kept, <<>>, offer[s])
AllTools == FlattenSeq([i \in DOMAIN Specs |-> Kept(Specs[i])])

\* __aenter__: a server that cannot be started fails the host, and leaves the children before it
Start ==
    /\ host.at = "starting"
    /\ LET s == Specs[host.started + 1] IN
       \E ok \in BOOLEAN :
          host' = IF ok THEN [at |-> IF host.started + 1 = Len(Specs) THEN "up" ELSE "starting",
                              started |-> host.started + 1, children |-> host.children \cup {s},
                              owner |-> Merged(s)]
                  ELSE [host EXCEPT !.at = "failed"]
    /\ UNCHANGED <<vendor, offer, talk, draft>>
Stop ==
    /\ host.at = "up" /\ talk.at = "over"
    /\ host' = [host EXCEPT !.at = "off", !.children = {}]
    /\ UNCHANGED <<vendor, offer, talk, draft>>

(* ---- answer ------------------------------------------------------------- *)
Question ==
    /\ host.at = "up" /\ talk.at = "none"
    /\ talk' = [talk EXCEPT !.at = "model", !.messages = <<[role |-> "user", results |-> <<>>]>>]
    /\ UNCHANGED <<vendor, offer, host, draft>>

Assistant(calls) == [role |-> "assistant", ids |-> [i \in DOMAIN calls |-> calls[i].id]]
Over(answer) == [talk EXCEPT !.at = "over", !.answer = answer]

AfterTurnUnsaidWrong(r) ==
    CASE TurnOf(r) = "fault"   -> Over("failed")
      [] TurnOf(r) = "refusal" -> Over("refused")
      [] r.calls = <<>>        -> [Over("text") EXCEPT !.messages = Append(@, Assistant(<<>>))]
      [] OTHER                 -> [talk EXCEPT !.at = "tools", !.todo = r.calls, !.results = <<>>]
AfterTurn(r) ==
    CASE TurnOf(r) = "fault"   -> Over("failed")
      [] TurnOf(r) = "refusal" -> Over("refused")
      [] r.calls = <<>>        -> [Over("text") EXCEPT !.messages = Append(@, Assistant(<<>>))]
      [] OTHER                 -> [talk EXCEPT !.at = "tools", !.todo = r.calls, !.results = <<>>,
                                               !.messages = Append(@, Assistant(r.calls))]
Turn(r) ==
    /\ talk.at = "model"
    /\ talk' = AfterTurn(r)
    /\ UNCHANGED <<vendor, offer, host, draft>>

\* _result_text and the except around host.call: whatever happens, there is a text for the model
ResultOf(c, outcome) ==
    IF c.name \notin DOMAIN host.owner THEN [id |-> c.id, by |-> "nobody", error |-> TRUE]
    ELSE [id |-> c.id, by |-> host.owner[c.name], error |-> outcome # "good"]

AfterToolsOneMoreWrong(results) ==
    [talk EXCEPT !.todo = <<>>, !.results = <<>>, !.step = @ + 1,
                 !.messages = @ \o ToolResultMessage(results),
                 !.at = IF talk.step >= MaxSteps THEN "over" ELSE "model",
                 !.answer = IF talk.step >= MaxSteps THEN "stopped" ELSE "none"]
AfterTools(results) ==
    [talk EXCEPT !.todo = <<>>, !.results = <<>>, !.step = @ + 1,
                 !.messages = @ \o ToolResultMessage(results),
                 !.at = IF talk.step + 1 = MaxSteps THEN "over" ELSE "model",
                 !.answer = IF talk.step + 1 = MaxSteps THEN "stopped" ELSE "none"]

RunToolSkipsUnknownWrong(outcome) ==
    /\ talk.at = "tools"
    /\ LET c == Head(talk.todo)
           results == IF c.name \in DOMAIN host.owner THEN Append(talk.results, ResultOf(c, outcome))
                      ELSE talk.results
       IN  talk' = IF Len(talk.todo) = 1 THEN AfterTools(results)
                   ELSE [talk EXCEPT !.todo = Tail(@), !.results = results]
    /\ UNCHANGED <<vendor, offer, host, draft>>
RunTool(outcome) ==
    /\ talk.at = "tools"
    /\ LET results == Append(talk.results, ResultOf(Head(talk.todo), outcome))
       IN  talk' = IF Len(talk.todo) = 1 THEN AfterTools(results)
                   ELSE [talk EXCEPT !.todo = Tail(@), !.results = results]
    /\ UNCHANGED <<vendor, offer, host, draft>>

(* ---- sampling ----------------------------------------------------------- *)
\* a failure is an empty text with a label that names it
SamplingKeepsTextWrong(asked, r) ==
    IF ~asked \/ CompletionOf(r) = "fault" THEN [text |-> "", label |-> "unavailable", stop |-> "error"]
    ELSE [text |-> r.text, label |-> "model", stop |-> CompletionOf(r)]
SamplingCompletion(asked, r) ==
    IF ~asked \/ CompletionOf(r) = "fault" THEN [text |-> "", label |-> "unavailable", stop |-> "error"]
    ELSE IF CompletionOf(r) = "refusal" THEN [text |-> "", label |-> "refused", stop |-> "refusal"]
    ELSE [text |-> r.text, label |-> "model", stop |-> CompletionOf(r)]

\* the server whose tool is running asks for one text, with a message or with none
Sample(asked, r) ==
    /\ talk.at = "tools" /\ Head(talk.todo).name \in DOMAIN host.owner /\ draft = NoDraft
    /\ draft' = SamplingCompletion(asked, r)
    /\ UNCHANGED <<vendor, offer, host, talk>>

HostNext ==
    \/ Start \/ Question \/ Stop
    \/ \E r \in Turns : Turn(r)
    \/ \E o \in {"good", "error", "raised"} : RunTool(o)
    \/ \E asked \in BOOLEAN, r \in Turns : Sample(asked, r)

HostSpec == HostInit /\ [][HostNext]_hostVars

-----------------------------------------------------------------------------
(* Properties                                                              *)

\* The shape of the state: there is a tool to run exactly while tools run.
HostTypeOK ==
    /\ host.at \in {"starting", "up", "failed", "off"} /\ host.children \subseteq Servers
    /\ talk.at \in {"none", "model", "tools", "over"} /\ talk.step \in 0..MaxSteps
    /\ talk.at = "tools" <=> talk.todo # <<>>
    /\ talk.at = "over" <=> talk.answer # "none"

Told == FlattenSeq([i \in DOMAIN talk.messages |->
            IF talk.messages[i].role = "assistant" THEN <<>>
            ELSE [j \in DOMAIN talk.messages[i].results |-> talk.messages[i].results[j].id]])
Called == FlattenSeq([i \in DOMAIN talk.messages |->
            IF talk.messages[i].role = "assistant" THEN talk.messages[i].ids ELSE <<>>])

\* Whenever the model is asked again it has been told the result of every call it made, one
\* for each, in order, also of a tool nobody offers or that raised: a vendor refuses a
\* conversation in which a call has no result (agent.py:192-210).
EveryCallIsAnswered == talk.at = "model" => Told = Called

\* A name the model is offered is offered once and leads to the first server that lists it, which
\* has its process running; a result comes from that server (mcp_clients.py:148-168).
OneOwnerForEachTool ==
    host.at = "up" =>
        /\ IsInjective(AllTools)
        /\ \A s \in Servers : \A i \in DOMAIN offer[s] : offer[s][i] \in DOMAIN host.owner
        /\ \A n \in DOMAIN host.owner :
               LET first == SelectInSeq(Specs, LAMBDA s : \E i \in DOMAIN offer[s] : offer[s][i] = n)
               IN  host.owner[n] = Specs[first] /\ host.owner[n] \in host.children

\* Only a turn that asked for no tool is the answer; a loop that stops on its bound says so, has
\* made exactly that many turns and has run what the last of them asked for (agent.py:171-212).
AnswerIsALastTurn ==
    LET turns == {i \in DOMAIN talk.messages : talk.messages[i].role = "assistant"}
    IN  /\ talk.answer = "text" <=>
              \E last \in turns : talk.messages[last].ids = <<>> /\ \A i \in turns : i <= last
        /\ talk.answer = "stopped" => Cardinality(turns) = MaxSteps /\ Told = Called
        /\ talk.at = "model" => Cardinality(turns) < MaxSteps

\* A server never takes an apology for a draft: what a failed or refused completion said is not
\* passed on, and its label tells which (interaction.py:311-351).
DraftIsTheModels ==
    /\ draft.text # "" => draft.label = "model" /\ draft.stop \notin {"error", "refusal"}
    /\ draft.stop \in {"error", "refusal"} => draft.label \in {"unavailable", "refused"}

\* The tool loop is a conversation a vendor accepts, ends within its steps and says how
\* (host/agent.py, mcp_clients.py, interaction.py:311-351).
LoopHolds == HostTypeOK /\ EveryCallIsAnswered /\ OneOwnerForEachTool /\ AnswerIsALastTurn /\ DraftIsTheModels
=============================================================================
