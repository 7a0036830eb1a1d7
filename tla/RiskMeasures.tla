---------------------------- MODULE RiskMeasures ----------------------------
(***************************************************************************)
(* The measures taken from one history of rates (mcp_servers/risk): the    *)
(* observed moves are replayed on the book, VaR and expected shortfall are *)
(* read off the losses, split over the positions, held against the days    *)
(* they were to cover and against limits.  The tools are separate calls    *)
(* that each start from the history; what they say has to agree.  A        *)
(* confidence level is a pair <<numerator, denominator>>, a mean a pair    *)
(* <<sum, count>>; the revaluation is a linear book.                       *)
(***************************************************************************)
EXTENDS Integers, Sequences, FiniteSets, FiniteSetsExt, SequencesExt

CONSTANTS Histories,     \* rates: sequences of [tenor -> rate]
          Exposures,     \* books: [position -> [tenor -> DV01]]
          Levels,        \* confidence levels
          Horizons,      \* horizon_days
          MinimumDays,   \* MINIMUM_OBSERVATIONS of a backtest
          BaselDays,     \* BASEL_TRAFFIC_LIGHT_OBSERVATIONS
          BaselLevel, GreenMax, AmberMax,
          LimitSets      \* sequences of [limit, amber] on VaR, shortfall and worst loss

ASSUME MeasureAssumption ==
    /\ Horizons \subseteq Nat \ {0} /\ MinimumDays \in Nat \ {0}
    /\ \A l \in Levels : 2 * l[1] >= l[2] /\ l[1] < l[2]

VARIABLES history, exposure, level, horizon,   \* the request
          risk,        \* compute_historical_risk
          worst,       \* find_worst_historical
          split,       \* measure_contributions, VaR and shortfall
          verdict,     \* backtest_var of the VaR against the same days
          limits       \* evaluate_limits

request == <<history, exposure, level, horizon>>
riskVars == <<request, risk, worst, split, verdict, limits>>

None == [done |-> FALSE]
Total(f) == MapThenSumSet(LAMBDA x : f[x], DOMAIN f)
Absolute(x) == IF x < 0 THEN -x ELSE x

(* ---- observed moves and their revaluation ------------------------------ *)
\* observed_changes_bp: overlapping windows of the horizon, on the tenors the
\* valuation curve has; other columns of the history are ignored.
Windows == 1..(Len(history) - horizon)
Change(i, t) == history[i + horizon][t] - history[i][t]
Live(p) == DOMAIN exposure[p] \cap DOMAIN history[1]
\* run_scenarios.
PositionPnl(i, p) == MapThenSumSet(LAMBDA t : -exposure[p][t] * Change(i, t), Live(p))
Pnl(i) == MapThenSumSet(LAMBDA p : PositionPnl(i, p), DOMAIN exposure)
Losses == [i \in Windows |-> -Pnl(i)]

Enough == Len(history) >= horizon + 2

(* ---- the nearest-rank quantile ----------------------------------------- *)
Below(losses, v) == {i \in DOMAIN losses : losses[i] < v}
AtMost(losses, v) == {i \in DOMAIN losses : losses[i] <= v}
\* k = ceil(alpha * n), kept within 1..n.
RankOf(n) == Max({1, Min({n, (level[1] * n + level[2] - 1) \div level[2]})})
\* Each definition named ...Wrong is a mutation of the one that follows it and is
\* part of no behaviour: it shows that some property notices the bug.
NearestRankBelowWrong(losses) ==
    LET k == Max({1, RankOf(Cardinality(DOMAIN losses)) - 1})
    IN  CHOOSE v \in {losses[i] : i \in DOMAIN losses} :
            Cardinality(Below(losses, v)) < k /\ k <= Cardinality(AtMost(losses, v))
NearestRank(losses) ==
    LET k == RankOf(Cardinality(DOMAIN losses))
    IN  CHOOSE v \in {losses[i] : i \in DOMAIN losses} :
            Cardinality(Below(losses, v)) < k /\ k <= Cardinality(AtMost(losses, v))
VarScenarioUnsortedWrong(losses) == RankOf(Cardinality(DOMAIN losses))
\* The scenario the quantile is: the sort is stable, so ties keep their order.
VarScenario(losses) ==
    LET v == NearestRank(losses)
        nth == RankOf(Cardinality(DOMAIN losses)) - Cardinality(Below(losses, v))
    IN  CHOOSE i \in DOMAIN losses :
            losses[i] = v /\ Cardinality({j \in 1..i : losses[j] = v}) = nth
TailOfBodyWrong(losses, v) == {i \in DOMAIN losses : losses[i] <= v}
TailOf(losses, v) == {i \in DOMAIN losses : losses[i] >= v}
SumOver(losses, S) == MapThenSumSet(LAMBDA i : losses[i], S)

FlooredNotWrong(x) == x
Floored(x) == Max({0, x})

(* ---- the calls ---------------------------------------------------------- *)
Measure(rates, positions, confidence, days) ==
    /\ history = rates /\ exposure = positions /\ level = confidence /\ horizon = days
    /\ risk = None /\ worst = None /\ split = None /\ verdict = None /\ limits = None
RiskInit == \E rates \in Histories, positions \in Exposures, confidence \in Levels, days \in Horizons :
                Measure(rates, positions, confidence, days)

\* compute_historical_risk: VaR is never negative, and the shortfall is the mean
\* of the losses at or beyond it, or VaR itself when there is none.
HistoricalRisk ==
    /\ ~risk.done
    /\ UNCHANGED <<request, worst, split, verdict, limits>>
    /\ risk' = IF ~Enough THEN [done |-> TRUE, refused |-> TRUE]
               ELSE LET var == Floored(NearestRank(Losses))
                        tail == TailOf(Losses, var)
                    IN  [done |-> TRUE, refused |-> FALSE, var |-> var,
                         es |-> IF tail = {} THEN <<var, 1>>
                                ELSE <<SumOver(Losses, tail), Cardinality(tail)>>,
                         worst |-> Max({Losses[i] : i \in Windows}),
                         scenarios |-> Cardinality(Windows)]

\* find_worst_historical: every window, the worst first.
WorstHistorical ==
    /\ risk.done /\ ~worst.done
    /\ UNCHANGED <<request, risk, split, verdict, limits>>
    /\ worst' = IF ~Enough THEN [done |-> TRUE, refused |-> TRUE]
                ELSE [done |-> TRUE, refused |-> FALSE,
                      cases |-> SortSeq([i \in Windows |->
                                          [start |-> i, end |-> i + horizon, pnl |-> Pnl(i)]],
                                        LAMBDA a, b : a.pnl < b.pnl)]

\* measure_contributions: the positions' losses in the VaR scenario, their mean
\* losses over its tail, and what VaR would be without each of them.
Without(p) == [i \in Windows |-> -(Pnl(i) - PositionPnl(i, p))]
Contributions ==
    /\ worst.done /\ ~split.done
    /\ UNCHANGED <<request, risk, worst, verdict, limits>>
    /\ split' = IF ~Enough THEN [done |-> TRUE, refused |-> TRUE]
                ELSE LET v == NearestRank(Losses)
                         tail == TailOf(Losses, v)
                     IN  [done |-> TRUE, refused |-> FALSE, scenario |-> VarScenario(Losses),
                          var |-> [p \in DOMAIN exposure |-> -PositionPnl(VarScenario(Losses), p)],
                          es |-> [p \in DOMAIN exposure |->
                                    -MapThenSumSet(LAMBDA i : PositionPnl(i, p), tail)],
                          tail |-> Cardinality(tail),
                          incremental |-> [p \in DOMAIN exposure |->
                              Floored(v) - Floored(NearestRank(Without(p)))]]

\* The transitions of christoffersen_independence, from flag a to flag b.
Transitions(flags, a, b) ==
    Cardinality({i \in 1..(Len(flags) - 1) : flags[i] = a /\ flags[i + 1] = b})
ExceedsAtWrong(loss, forecast) == loss >= forecast
Exceeds(loss, forecast) == loss > forecast
ClustersLaterWrong(flags) ==
    Cardinality({i \in DOMAIN flags : flags[i] /\ i > 1 /\ ~flags[i - 1]})
\* A run of exceptions begins where the day before was none.
Clusters(flags) ==
    Cardinality({i \in DOMAIN flags : flags[i] /\ (i > 1 => ~flags[i - 1])})
\* basel_traffic_light: only where the rule is calibrated.
Zone(n, x) ==
    IF n # BaselDays \/ level # BaselLevel THEN "none"
    ELSE IF x <= GreenMax THEN "GREEN" ELSE IF x <= AmberMax THEN "AMBER" ELSE "RED"

\* backtest_var with the constant forecast: each day against its own outcome.
Backtest ==
    /\ split.done /\ ~verdict.done
    /\ UNCHANGED <<request, risk, worst, split, limits>>
    /\ verdict' =
         IF risk.refused \/ Cardinality(Windows) < MinimumDays THEN [done |-> TRUE, refused |-> TRUE]
         ELSE LET flags == [i \in Windows |-> Exceeds(Losses[i], risk.var)]
                  x == Cardinality({i \in Windows : flags[i]})
                  independent == /\ Len(flags) > 1
                                 /\ Transitions(flags, FALSE, TRUE) + Transitions(flags, TRUE, TRUE) > 0
                                 /\ Transitions(flags, TRUE, FALSE) + Transitions(flags, TRUE, TRUE) > 0
              IN  [done |-> TRUE, refused |-> FALSE, exceptions |-> x, flags |-> flags,
                   clusters |-> Clusters(flags), independence |-> independent,
                   conditional |-> independent, zone |-> Zone(Len(flags), x)]

\* evaluate_limit, and evaluate_limits over the three measures.
Status(value, limit) ==
    IF Absolute(value) >= limit.limit THEN "RED"
    ELSE IF 100 * Absolute(value) >= limit.amber * limit.limit THEN "AMBER" ELSE "GREEN"
Usable(limit) == limit.limit > 0 /\ 0 < limit.amber /\ limit.amber < 100
MoreUsedByAmountWrong(v, k, w, l) == Absolute(v) >= Absolute(w)
MoreUsed(v, k, w, l) == Absolute(v) * l.limit >= Absolute(w) * k.limit
EvaluateLimits ==
    /\ verdict.done /\ ~limits.done
    /\ UNCHANGED <<request, risk, worst, split, verdict>>
    /\ \E asked \in LimitSets :
         limits' =
           IF asked = <<>> \/ risk.refused \/ \E i \in DOMAIN asked : ~Usable(asked[i])
           THEN [done |-> TRUE, refused |-> TRUE]
           ELSE LET values == <<risk.var, risk.worst>>
                    status == [i \in DOMAIN asked |-> Status(values[i], asked[i])]
                IN  [done |-> TRUE, refused |-> FALSE, asked |-> asked, status |-> status,
                     breaches |-> Cardinality({i \in DOMAIN asked : status[i] = "RED"}),
                     within |-> \A i \in DOMAIN asked : status[i] # "RED",
                     worst |-> CHOOSE i \in DOMAIN asked : \A k \in DOMAIN asked :
                                   MoreUsed(values[i], asked[i], values[k], asked[k])]

RiskNext == HistoricalRisk \/ WorstHistorical \/ Contributions \/ Backtest \/ EvaluateLimits
RiskSpec == RiskInit /\ [][RiskNext]_riskVars

RiskTypeOK ==
    /\ \A report \in {risk, worst, split, verdict, limits} : report.done => report.refused \in BOOLEAN
    /\ (risk.done /\ ~risk.refused) => risk.var \in Nat /\ risk.es[2] \in Nat \ {0}

Reported(report) == report.done /\ ~report.refused

\* Two tools, one distribution: VaR is the P&L of the case of that rank in the
\* list of the worst moves, and the worst loss is its first.
WorstListAgrees ==
    Reported(worst) =>
        LET n == Cardinality(Windows)
        IN  /\ risk.worst = -worst.cases[1].pnl
            /\ risk.var = Max({0, -worst.cases[n - RankOf(n) + 1].pnl})
            /\ \A i \in Windows : worst.cases[i].end - worst.cases[i].start = horizon

\* Expected shortfall is never below VaR.
ShortfallBeyondVar == Reported(risk) => risk.es[1] >= risk.var * risk.es[2]

\* The contributions are exact, to VaR and to the shortfall the other tool
\* reports, wherever the quantile is a loss at all.
ContributionsAddUp ==
    (Reported(split) /\ NearestRank(Losses) >= 0) =>
        /\ Total(split.var) = risk.var
        /\ Total(split.es) * risk.es[2] = risk.es[1] * split.tail

\* The forecast is held to its own promise: on the days it was measured on, VaR
\* is exceeded no more often than its confidence level leaves room for.
CoverageHolds ==
    Reported(verdict) =>
        verdict.exceptions <= Cardinality(Windows) - RankOf(Cardinality(Windows))

\* The runs of exceptions and the transition counts tell one story, and a test
\* with nothing to learn from is not reported as passed.
ClustersAreTransitions ==
    Reported(verdict) =>
        LET flags == verdict.flags
        IN  /\ Transitions(flags, FALSE, TRUE) + (IF flags[1] THEN 1 ELSE 0) = verdict.clusters
            /\ Transitions(flags, TRUE, TRUE) = verdict.exceptions - verdict.clusters
            /\ verdict.conditional => verdict.exceptions > 0

\* The metric named the worst is a breach whenever any metric is one.
WorstMetricBreaches ==
    Reported(limits) => /\ ~limits.within => limits.status[limits.worst] = "RED"
                        /\ limits.within <=> limits.breaches = 0

\* The tools that read one history of losses agree with each other (risk.py, backtesting.py,
\* contributions.py, limits.py).
MeasuresAgree == RiskTypeOK /\ WorstListAgrees /\ ShortfallBeyondVar /\ ContributionsAddUp /\ CoverageHolds
                 /\ ClustersAreTransitions /\ WorstMetricBreaches
=============================================================================
