--------------------------- MODULE MCSingleFlight ---------------------------
(* Three requests for SingleFlight.  Without failures time passes and all three use the cache;  *)
(* with a lapsing lock all three; in an outage, with damage and with a clear, two, and so where *)
(* Redis is required.                                                                           *)
EXTENDS SingleFlight, RedisStats
CONSTANTS r1, r2, r3

Ask(i, v, m, s) == [identity |-> i, version |-> v, model |-> m, signature |-> s, cached |-> TRUE]
Plain   == Ask("i1", "v1", "m1", "s1")
Like    == Ask("i2", "v1", "m1", "s1")
Newer   == Ask("i1", "v2", "m1", "s1")
Other   == Ask("i1", "v1", "m2", "s1")
Unclear == Ask("i2", "v1", "m1", NoSignature)
Private == [Plain EXCEPT !.cached = FALSE]

Three(a, b, c) == [r \in Requests |-> CASE r = r1 -> a [] r = r2 -> b [] r = r3 -> c]
MCScenes ==
    [asks : {Three(Plain, Plain, q) : q \in {Like, Newer, Other, Unclear}}
              \cup {Three(Plain, Like, Like)},
     may : {{"time"}}]
    \cup [asks : {Three(Plain, Plain, Plain)}, may : {{"lapse"}}]
    \cup [asks : {Three(Plain, q, Private) : q \in {Plain, Like, Other}},
          may : {{"outage", "lapse"}, {"damage", "clear"}}]
    \cup [asks : {Three(Plain, q, Private) : q \in {Plain, Like}}, may : {{"strict", "outage"}}]

CONSTANTS w1, w2, w3
MCAgentLimit == [domain_expert |-> 1, mcp_agent |-> 0]

VARIABLE part
mcVars == <<part, vars, statsVars>>

\* The requests, or the workers that write statistics.  Fairness is to the requests, so that
\* what Answered says is about the first part alone.
MCInit == /\ part \in {"requests", "statistics"} /\ Init /\ StatsInit
          /\ part = "statistics" => [asks |-> asks, may |-> may] = CHOOSE s \in Scenes : TRUE
MCNext == \/ part = "requests" /\ Next /\ UNCHANGED <<part, statsVars>>
          \/ part = "statistics" /\ StatsNext /\ UNCHANGED <<part, vars>>
MCSpec == MCInit /\ [][MCNext]_mcVars /\ \A r \in Requests : WF_vars(Step(r)) /\ WF_vars(WaitOver(r))
=============================================================================
