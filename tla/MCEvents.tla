------------------------------ MODULE MCEvents ------------------------------
(* One request's timeline in the server, and the browser: its chats, and   *)
(* its view of a turn that is made of these calls.                         *)
EXTENDS EventBus, ChatClient

Handoff(caller, agent) == [agent |-> agent, caller |-> caller, bucket |-> agent, makes |-> "started"]
Stage(caller, agent)   == [agent |-> agent, caller |-> caller, bucket |-> agent, makes |-> "ended"]
MCCalls == [c1 |-> Handoff("user", "orchestrator"), c2 |-> Handoff("orchestrator", "domain-expert"),
            c3 |-> Stage("domain-expert", "preflight"), c4 |-> Handoff("domain-expert", "mcp-agent"),
            c5 |-> Stage("mcp-agent", "tool"), c6 |-> Stage("mcp-agent", "tool")]

VARIABLE part
mcVars == <<part, vars, clientVars>>

\* Fairness is to the streams, so that a feed that must end is one of the first part.
MCInit == /\ part \in {"bus", "chats", "view"} /\ Init /\ ChatInit /\ ViewInit
          /\ part # "chats" => active = CHOOSE id \in ChatIds : TRUE
MCNext == \/ part = "bus"   /\ Next     /\ UNCHANGED <<part, clientVars>>
          \/ part = "chats" /\ ChatNext /\ UNCHANGED <<part, vars, viewVars>>
          \/ part = "view"  /\ ViewNext /\ UNCHANGED <<part, vars, chatVars>>
MCSpec == MCInit /\ [][MCNext]_mcVars /\ \A s \in Streams : WF_vars(Stream(s))
=============================================================================
