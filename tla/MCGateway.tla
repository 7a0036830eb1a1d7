---------------------------- MODULE MCGateway ----------------------------
(* What lies behind the agents, one part at a time: a requirement or a     *)
(* calculation beside a loader, the bridge that carries the calls of       *)
(* either, and the documents behind the domain expert.                     *)
EXTENDS Retrieval, RiskWorkflows, McpBridge, KnowledgeIngest

VARIABLE part
mcVars == <<part, retVars, wfVars, bridgeVars, libVars>>

\* Five texts of a document: three chunks, two of them under one heading; two of the three edited;
\* one that fits only without its title; none; and the first without its end.
Piece(slug, body, size, titled) == [slug |-> slug, body |-> body, size |-> size, titled |-> titled]
MCLibrary ==
    <<<<Piece("a", 1, 2, TRUE), Piece("b", 2, 2, FALSE), Piece("b", 3, 2, FALSE)>>,
      <<Piece("a", 4, 2, TRUE), Piece("c", 2, 2, FALSE)>>,
      <<Piece("a", 1, 3, FALSE)>>,
      <<>>,
      <<Piece("a", 1, 2, TRUE), Piece("b", 5, 2, FALSE)>>>>
MCPathOrder == <<"p", "q">>

-----------------------------------------------------------------------------
\* One part moves in a behaviour; the others stay at one of their initial states.
MCInit ==
    /\ part \in {"retrieval", "workflow", "bridge", "library"}
    /\ RetInit /\ WfInit /\ BridgeInit /\ LibInit
    /\ part # "retrieval" => ~catalogue.there /\ Has("nominal") # {} /\ catalogue.last["nominal"] = 0
    /\ IF part = "library" THEN disk["q"] \in {0, 1} ELSE \A p \in Paths : disk[p] = 0

MCNext ==
    /\ UNCHANGED part
    /\ \/ part = "retrieval" /\ RetNext    /\ UNCHANGED <<wfVars, bridgeVars, libVars>>
       \/ part = "workflow"  /\ WfNext     /\ UNCHANGED <<retVars, bridgeVars, libVars>>
       \/ part = "bridge"    /\ BridgeNext /\ UNCHANGED <<retVars, wfVars, libVars>>
       \/ part = "library"   /\ LibNext    /\ UNCHANGED <<retVars, wfVars, bridgeVars>>

\* Fairness is to the threads of the bridge, which NobodyWaits is about.
MCSpec == /\ MCInit /\ [][MCNext]_mcVars
          /\ \A t \in Threads :
                WF_mcVars(part = "bridge" /\ BridgeStep(t) /\ UNCHANGED <<part, retVars, wfVars, libVars>>)
=============================================================================
