----------------------------- MODULE MCRuntime -----------------------------
(* The runtime below the agents: the deadlines of a turn, the registry of  *)
(* ledgers, the pool of threads, one call between two agents, and the      *)
(* contracts it carries.  Two of the four turns of the registry come with  *)
(* the same request id, and there is room for fewer ids than there are; or *)
(* three turns have an id and a place each.                                *)
EXTENDS TurnClock, LedgerRegistry, WorkerPool, TaskCall

CONSTANTS t1, t2, t3, t4, ida, idb, idc
Distinct == t1 :> ida @@ t2 :> idb @@ t3 :> idc
Shared   == t1 :> ida @@ t2 :> ida @@ t3 :> idb @@ t4 :> idc

\* A requirement, bare and filled in, and all that can be had by filling in some of four groups of its
\* fields: the counts, the calculation with its parameters, what it is grounded on, and the decision.
BareRequirement == [f \in DOMAIN Reader["requirement"] |-> Reader["requirement"][f].or]
TextList(t) == List(<<Text(t)>>)
Passage ==
    Object([domain |-> Text("d"), heading |-> None, distance |-> Number(31, FALSE), score |-> Number(1, TRUE),
            document_path |-> Text("p"), line_start |-> Whole(12), line_end |-> Whole(40)])
Filled ==
  <<[rows |-> Whole(250), row_reason |-> Text("r"), row_quote |-> Text("q"), tenors |-> TextList("10Y"),
     temporal |-> Object([as_of_date |-> None, start_date |-> Text("s"), end_date |-> None,
                          lookback_days |-> Whole(30)])],
    [calculation |-> Text("c"),
     calculation_params |-> Object([horizon_days |-> Whole(10), scenario_count |-> Whole(500), top_n |-> Whole(5),
                                    confidence_level |-> Number(99, FALSE), notional |-> Number(1000, TRUE),
                                    risk_measure |-> Text("m")])],
    [task |-> Text("t"), fields |-> TextList("f"), field_notes |-> List(<<Object([name |-> Text("n")]), Text("f")>>),
     grounded |-> Flag(TRUE), citations |-> List(<<Passage, Passage>>)],
    [decision |-> Text("NEEDS_USER_INPUT"), answerable |-> Flag(FALSE), unanswerable_reason |-> Text("u"),
     blocked_by |-> Text("data"), open_questions |-> List(<<Text("o"), Text("p")>>), warnings |-> TextList("w")]>>
FilledIn(groups) ==
    [f \in DOMAIN BareRequirement |->
        IF \E g \in groups : f \in DOMAIN Filled[g] THEN Filled[CHOOSE g \in groups : f \in DOMAIN Filled[g]][f]
        ELSE BareRequirement[f]]
BareServe == [f \in DOMAIN Reader["serve_response"] |-> Reader["serve_response"][f].or]
BareIntent == [f \in DOMAIN Reader["intent"] |-> Reader["intent"][f].or]
MCContracts ==
    {[of |-> "requirement", data |-> FilledIn(groups)] : groups \in SUBSET DOMAIN Filled}
    \cup {[of |-> "serve_response", data |-> [BareServe EXCEPT !.feasible = Flag(b), !.max_rows_available = n]] :
             b \in BOOLEAN, n \in {None, Whole(100)}}
    \cup {[of |-> "intent", data |-> [BareIntent EXCEPT !.requested_rows = n, !.route = Text(r)]] :
             n \in {None, Whole(20)}, r \in {"data_request", "clarify"}}

VARIABLE part
mcVars == <<part, vars, clockVars, poolVars, callVars, wireVars>>

\* One part moves in a behaviour; the others stay at one of their initial states.
MCInit == /\ part \in {"clock", "registry", "pool", "call", "wire"}
          /\ ClockInit /\ Init /\ PoolInit
          /\ CallInit /\ (part # "call" => wire = CHOOSE r \in WireRequests : TRUE)
          /\ WireInit /\ (part # "wire" => contract = CHOOSE c \in Contracts : TRUE)
MCNext == \/ part = "clock"    /\ ClockNext /\ UNCHANGED <<part, vars, poolVars, callVars, wireVars>>
          \/ part = "registry" /\ Next      /\ UNCHANGED <<part, clockVars, poolVars, callVars, wireVars>>
          \/ part = "pool"     /\ PoolNext  /\ UNCHANGED <<part, vars, clockVars, callVars, wireVars>>
          \/ part = "call"     /\ CallNext  /\ UNCHANGED <<part, vars, clockVars, poolVars, wireVars>>
          \/ part = "wire"     /\ WireNext  /\ UNCHANGED <<part, vars, clockVars, poolVars, callVars>>
\* Fairness is to the pool, so that QueueMovesOn is about it alone.
MCSpec == MCInit /\ [][MCNext]_mcVars /\ PoolFairness
=============================================================================
