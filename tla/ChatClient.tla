---------------------------- MODULE ChatClient ----------------------------
(***************************************************************************)
(* The browser: store/chatStore.ts with hooks/useSend.ts, where one turn   *)
(* at a time is asked while the user may go on to other chats; and the     *)
(* live view, api/executionStream.ts, store/executionStore.ts and          *)
(* lib/executionEvents.ts, which makes a feed and a graph of events that   *)
(* arrive late, twice or not at all.                                       *)
(***************************************************************************)
EXTENDS Naturals, Sequences, FiniteSets, SequencesExt, TLC

CONSTANTS ChatIds,
          MaxQuestions,  \* bound: questions asked
          Calls,         \* what agents do in a turn: call -> its record below
          MaxLost        \* bound: events that arrive only with a reconnection

ASSUME ChatClientAssumption == {MaxQuestions, MaxLost} \subseteq Nat

VARIABLES chats,    \* the store: the chats that exist
          active,   \* activeChatId
          ask,      \* the turn of useSend: `sending` is that one is under way
          asked,    \* questions so far
          strays,   \* history: the chats that a turn of another chat has written to
          log,      \* the events of the turn, at the server, in the order of their numbers
          view,     \* executionStore.runs[request id]
          missing,  \* the numbers of the events that did not arrive
          lost
chatVars == <<chats, active, ask, asked, strays>>
viewVars == <<log, view, missing, lost>>
clientVars == <<chatVars, viewVars>>

-----------------------------------------------------------------------------
(* The chats.                                                              *)

Fresh(began) == [messages |-> <<>>, pending |-> 0, title |-> 0, titled |-> FALSE, began |-> began]
NotAsking == [at |-> "idle", chat |-> "none", question |-> 0, sent |-> FALSE, first |-> FALSE]
Idle      == ask.at = "idle"
Existing  == DOMAIN chats
Began     == 1 + Cardinality(ChatIds) + asked
Message(role, question) == [role |-> role, question |-> question]
With(id, chat)   == [k \in Existing \cup {id} |-> IF k = id THEN chat ELSE chats[k]]
Put(id, changes) == With(id, [x \in DOMAIN chats[id] |-> IF x \in DOMAIN changes THEN changes[x] ELSE chats[id][x]])

ChatInit == \E id \in ChatIds :
    /\ chats = [k \in {id} |-> Fresh(0)] /\ active = id /\ ask = NotAsking /\ asked = 0 /\ strays = {}

NewChat(id) == /\ id \notin Existing /\ chats' = With(id, Fresh(Began)) /\ active' = id
               /\ UNCHANGED <<ask, asked, strays>>
SwitchChat(id) == /\ id \in Existing /\ active' = id /\ UNCHANGED <<chats, ask, asked, strays>>
ClearActiveChat == /\ chats' = With(active, Fresh(Began))
                   /\ UNCHANGED <<active, ask, asked, strays>>

DeleteChatOnly(id) ==
    /\ id \in Existing /\ chats' = [k \in Existing \ {id} |-> chats[k]]
    /\ UNCHANGED <<active, ask, asked, strays>>
\* The active chat falls to the survivor that was started last, or to a new one.
DeleteChat(id) ==
    /\ id \in Existing
    /\ LET rest == Existing \ {id} IN
       IF rest = {} THEN \E new \in ChatIds \ {id} : chats' = [k \in {new} |-> Fresh(Began)] /\ active' = new
       ELSE /\ chats' = [k \in rest |-> chats[k]]
            /\ IF active # id THEN UNCHANGED active
               ELSE \E k \in rest : /\ \A j \in rest : chats[j].began <= chats[k].began
                                    /\ active' = k
    /\ UNCHANGED <<ask, asked, strays>>

\* send: the question goes to the chat that is active and to the session of its id.
Send == /\ Idle /\ asked < MaxQuestions /\ asked' = asked + 1
        /\ chats' = Put(active, [messages |-> Append(chats[active].messages, Message("user", asked')),
                                 pending |-> 0])
        /\ ask' = [at |-> "asking", chat |-> active, question |-> asked', sent |-> TRUE,
                   first |-> chats[active].messages = <<>>]
        /\ UNCHANGED <<active, strays>>

LastUser(messages) == SelectLastInSeq(messages, LAMBDA m : m.role = "user")
CanRegenerate == /\ Idle /\ chats[active].pending = 0 /\ chats[active].messages # <<>>
                 /\ Last(chats[active].messages).role = "assistant"
                 /\ LastUser(chats[active].messages) # 0
Again(messages) ==
    /\ chats' = Put(active, [messages |-> messages])
    /\ ask' = [at |-> "asking", chat |-> active, sent |-> FALSE, first |-> FALSE,
               question |-> chats[active].messages[LastUser(chats[active].messages)].question]
    /\ UNCHANGED <<active, asked, strays>>
RegenerateBeside == CanRegenerate /\ Again(chats[active].messages)
\* regenerate: the last answer is taken off and its question asked again.  The button is there
\* when nothing is pending or under way.
Regenerate == CanRegenerate /\ Again(Front(chats[active].messages))

\* The answer, or the question to the user, goes to the chat that is active by now.
Answer(awaiting) ==
    /\ ask.at = "asking"
    /\ chats' = Put(active,
          [messages |-> Append(chats[active].messages, Message("assistant", ask.question)),
           pending |-> IF awaiting THEN ask.question ELSE 0,
           title   |-> IF ask.first THEN ask.question ELSE chats[active].title])
    /\ strays' = IF active = ask.chat THEN strays ELSE strays \cup {active}
    /\ ask' = [ask EXCEPT !.at = "answered"] /\ UNCHANGED <<active, asked>>
\* AgentClientError: the backend cannot be reached in time or answers with an error.
AskFails == ask.at = "asking" /\ ask' = NotAsking /\ UNCHANGED <<chats, active, asked, strays>>
\* maybeTitle, after send alone: not yet, or the chat that is active is marked and the summary is
\* asked for.
NoTitle == ask.at = "answered" /\ ask' = NotAsking /\ UNCHANGED <<chats, active, asked, strays>>
MarkTitled == /\ ask.at = "answered" /\ ask.sent /\ ~chats[active].titled
              /\ chats' = Put(active, [titled |-> TRUE])
              /\ ask' = [ask EXCEPT !.at = "titling", !.question = LastUser(chats[active].messages)]
              /\ UNCHANGED <<active, asked, strays>>
SetTitle == /\ ask.at = "titling" /\ ask' = NotAsking
            /\ \/ UNCHANGED chats
               \/ chats' = Put(active, [title |-> ask.question])
            /\ UNCHANGED <<active, asked, strays>>

ChatNext == \/ \E id \in ChatIds : NewChat(id) \/ SwitchChat(id) \/ DeleteChat(id)
            \/ ClearActiveChat \/ Send \/ Regenerate \/ AskFails \/ NoTitle \/ MarkTitled \/ SetTitle
            \/ \E awaiting \in BOOLEAN : Answer(awaiting)

-----------------------------------------------------------------------------
(* The live view.  A call is [agent, caller, bucket, makes]: the node it   *)
(* stands for, the node it hangs on, what its lines are paired by, and     *)
(* when its node is drawn.                                                 *)

NewEvent(call, type) == [sequence |-> Len(log) + 1, call |-> call, type |-> type]
Of(event) == Calls[event.call]
Begun(events)   == {e.call : e \in {x \in Range(events) : x.type = "started"}}
Ended(events)   == {e.call : e \in {x \in Range(events) : x.type # "started"}}
Running(events) == Begun(events) \ Ended(events)

ViewInit == log = <<>> /\ view = <<>> /\ missing = {} /\ lost = 0

PushUnsorted(events, event) ==
    IF \E e \in Range(events) : e.sequence = event.sequence THEN events ELSE Append(events, event)
\* push: what is there already is dropped, the rest sorted by number.
Push(events, event) ==
    IF \E e \in Range(events) : e.sequence = event.sequence THEN events
    ELSE SortSeq(Append(events, event), LAMBDA d, e : d.sequence < e.sequence)

\* An event is published: a call inside a running one begins, or one without running calls ends.
Emit(event) ==
    /\ log' = Append(log, event)
    /\ \/ view' = Push(view, event) /\ UNCHANGED <<missing, lost>>
       \/ /\ lost < MaxLost /\ lost' = lost + 1
          /\ missing' = missing \cup {event.sequence} /\ UNCHANGED view
CallBegins(c) == /\ c \notin Begun(log) /\ Calls[c].caller \in {Calls[d].agent : d \in Running(log)} \cup {"user"}
                 /\ Emit(NewEvent(c, "started"))
CallEnds(c) == /\ c \in Running(log) /\ \A d \in Running(log) : Calls[d].caller # Calls[c].agent
               /\ \E type \in {"completed", "failed"} : Emit(NewEvent(c, type))
\* EventSource connects again and the server replays what it has.
Reconnect == /\ missing # {} /\ view' = FoldLeft(Push, view, log) /\ missing' = {}
             /\ UNCHANGED <<log, lost>>

ViewNext == (\E c \in DOMAIN Calls : CallBegins(c) \/ CallEnds(c)) \/ Reconnect

\* toActivity: a line for each start; what ends a call upgrades the oldest open line of the same
\* bucket in place, or has a line of its own.
Line(event) == [bucket |-> Of(event).bucket, status |-> event.type]
OpenLines(lines, bucket) == {i \in DOMAIN lines : lines[i] = [bucket |-> bucket, status |-> "started"]}
UpgradedIfCompleted(lines, event) ==
    LET open == OpenLines(lines, Of(event).bucket) IN
    IF event.type # "completed" \/ open = {} THEN Append(lines, Line(event))
    ELSE [lines EXCEPT ![CHOOSE i \in open : \A j \in open : i <= j].status = event.type]
Upgraded(lines, event) ==
    LET open == OpenLines(lines, Of(event).bucket) IN
    IF event.type = "started" \/ open = {} THEN Append(lines, Line(event))
    ELSE [lines EXCEPT ![CHOOSE i \in open : \A j \in open : i <= j].status = event.type]
Activity(events) == FoldLeft(Upgraded, <<>>, events)

ProvenAtEnd(events) == {e \in Range(events) : e.type # "started"}

\* buildEventGraph: nodes and edges that an event proves, then whatever has no edge into it.
Proven(events) == {e \in Range(events) : e.type = "started" <=> Of(e).makes = "started"}
Edges(events) == UNION {LET k == Of(e) IN
                        {<<k.caller, k.agent>>} \cup (IF k.bucket = "tool" THEN {<<k.agent, "postgres">>} ELSE {}) :
                        e \in Proven(events)}
Nodes(events) == {"user"} \cup {edge[2] : edge \in Edges(events)}
                          \cup {Of(e).caller : e \in {p \in Proven(events) : Of(p).makes = "started"}}
Graph(events) == Edges(events) \cup
    IF "orchestrator" \notin Nodes(events) THEN {}
    ELSE {<<"orchestrator", n>> : n \in {m \in Nodes(events) \ {"user", "orchestrator"} :
                                          \A e \in Edges(events) : e[2] # m}}
Reached(edges) == LET next(nodes, k) == nodes \cup {e[2] : e \in {d \in edges : d[1] \in nodes}}
                  IN FoldLeft(next, {"user"}, [k \in 1..Cardinality(edges) |-> k])

-----------------------------------------------------------------------------
(* What is checked.                                                        *)

\* Whatever is opened, cleared or deleted while a turn is under way, the active chat exists
\* (deleteChat's comment), so that an answer always finds a chat.
ActiveExists == active \in Existing

\* In a chat that no other chat's turn has written to, each answer stands right behind its question
\* and is the only one to it, also after it was generated again.
AnswerAfterQuestion == \A id \in Existing \ strays : \A i \in DOMAIN chats[id].messages :
    LET m == chats[id].messages IN
    m[i].role = "assistant" => /\ i > 1 => m[i - 1] = Message("user", m[i].question)
                               /\ \A j \in DOMAIN m : m[j] = m[i] => j = i

\* The view holds every event that has arrived once, in the order of the numbers, however late
\* it came.
ViewInOrder == /\ \A i, j \in DOMAIN view : i < j => view[i].sequence < view[j].sequence
               /\ {e.sequence : e \in Range(view)} = (1..Len(log)) \ missing

\* When nothing is missing, the feed shows as running what runs: in each bucket as many open lines
\* as calls, and no line beside those of the calls.
FeedIsTrue == missing = {} =>
    LET lines == Activity(view) IN
    /\ Len(lines) = Cardinality(Begun(log))
    /\ \A c \in DOMAIN Calls : Cardinality(OpenLines(lines, Calls[c].bucket))
          = Cardinality({d \in Running(log) : Calls[d].bucket = Calls[c].bucket})

\* When nothing is missing, nothing in the graph floats: every node can be reached from the user,
\* and every edge has its two nodes.
NothingFloats == missing = {} =>
    /\ Nodes(view) \subseteq Reached(Graph(view))
    /\ \A e \in Graph(view) : {e[1], e[2]} \subseteq Nodes(view)

\* Chats keep their turns, whatever is deleted, opened or asked again meanwhile; the feed and the
\* graph tell what has happened, however often and however late an event comes
\* (chatStore.ts, useSend.ts, executionEvents.ts, executionStore.ts).
ChatStands == ActiveExists /\ AnswerAfterQuestion /\ ViewInOrder /\ FeedIsTrue /\ NothingFloats
=============================================================================
