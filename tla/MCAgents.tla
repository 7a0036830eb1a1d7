------------------------------ MODULE MCAgents ------------------------------
(* The agents' talk: with the user, over the turns of a session, with each *)
(* other, over the rounds of a plan, and the calls of one turn under their *)
(* limits.  Six turns of a user who waits for each answer, in one row of   *)
(* questions at least from the third on; three turns when turns and calls  *)
(* may time out; one negotiation of four rounds; two skills that may call  *)
(* each other and themselves, where one refuses an agent, and every limit  *)
(* is reached.                                                             *)
EXTENDS TurnLedger, Negotiation, Conversation

MeshPairs == {"expert.assess", "mcp.run"}
MeshAgents == {"user-boundary", "expert", "mcp"}
MeshAgentOf == [p \in MeshPairs |-> IF p = "mcp.run" THEN "mcp" ELSE "expert"]
MeshCallers == [p \in MeshPairs |-> IF p = "mcp.run" THEN {"user-boundary", "expert"} ELSE MeshAgents]
MeshIdempotent == {"expert.assess"}
OneInput == {"requirement"}

\* Bound: a turn that the user is not asked in is the last, or one of the first two.
OneRow == \A t \in Turns : pc[t] \notin {"idle", "failed"} =>
             \A u \in 3..t - 1 : out[u].clarified

\* Turns and calls that may time out: three turns say enough.
ThreeTurns == \A t \in Turns : t > 3 => pc[t] = "idle"

VARIABLE part
mcVars == <<part, talkVars, planVars, vars>>

MCInit == /\ part \in {"dialogue", "timeouts", "planning", "mesh"}
          /\ TalkInit /\ PlanInit /\ Init
MCNext ==
  \/ part = "dialogue" /\ TalkNext /\ ~timedOut' /\ OneRow' /\ UNCHANGED <<part, planVars, vars>>
  \/ part = "timeouts" /\ TalkNext /\ ThreeTurns' /\ UNCHANGED <<part, planVars, vars>>
  \/ part = "planning" /\ PlanNext /\ UNCHANGED <<part, talkVars, vars>>
  \/ part = "mesh"     /\ Next     /\ UNCHANGED <<part, talkVars, planVars>>
\* Every call the planner makes has a deadline, so that its loop goes on; the mesh is fair
\* as TurnLedger says.
MCSpec == MCInit /\ [][MCNext]_mcVars /\ WF_mcVars(part = "planning" /\ MCNext) /\ Fairness

-----------------------------------------------------------------------------
(* The property of the parts.                                              *)

\* A negotiation keeps what it promises to whoever waits for its plan, and ends whatever the
\* two models say (planning.py:133-312).
Deliberates == Promise!Safe /\ (part = "planning" ~> decision # "none")
=============================================================================
