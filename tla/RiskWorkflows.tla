--------------------------- MODULE RiskWorkflows ---------------------------
(***************************************************************************)
(* backend/workflows/risk_workflows.py behind McpAgent._calculate: each    *)
(* question is a sequence of calls to two servers, the data server for the *)
(* facts and the risk engine for the arithmetic.  A workflow is abstracted *)
(* to that sequence; a call answers, answers with an error, or raises, and *)
(* a load may change the published days between any two of them.           *)
(***************************************************************************)
EXTENDS Integers, Sequences, FiniteSets, FiniteSetsExt, SequencesExt, TLC

CONSTANTS FinalDay,      \* days are 1..FinalDay, and 0 is None
          Holidays,     \* days without a curve
          TradingDays,  \* rows of a history: 250 in the code
          BacktestRows, \* observations of a backtest: 100
          LookbackDays  \* the default period of an attribution: 30

ASSUME RiskWorkflowsAssumption ==
    /\ {FinalDay, TradingDays, BacktestRows, LookbackDays} \subseteq Nat \ {0}
    /\ Holidays \subseteq 1..FinalDay

VARIABLES published, \* the days that have a nominal curve
          wf         \* the workflow under way
wfVars == <<published, wf>>

Calendar       == 1..FinalDay
Loads      == {{}, Calendar \ Holidays, Calendar \ (Holidays \cup {FinalDay})}  \* empty while it is rewritten
Moves      == TradingDays - 1
BacktestWindow     == IF BacktestRows < Moves THEN BacktestRows ELSE Moves

-----------------------------------------------------------------------------
(* What is called, and with which date: `ref` says where that comes from.  *)

CallOn(tool, ref, day, policy) ==
    [tool |-> tool, ref |-> ref, day |-> day, policy |-> policy, lenient |-> FALSE]
Call(tool) == CallOn(tool, "none", 0, "none")
Try(tool)  == [Call(tool) EXCEPT !.lenient = TRUE]
CurveOf(ref, day, policy) == CallOn("get_curve", ref, day, policy)
Refuse(why)         == <<Call(why)>>
If(condition, calls)== IF condition THEN calls ELSE <<>>
Needs(required, a, calls) == IF required \subseteq a.given THEN calls ELSE Refuse("needs")

\* _latest_curve_date; the day it answers becomes the valuation date.
LatestCurve(day) == CallOn("valuation_curve", "stated", day, "previous")
\* _book_and_curve: the curve of the requested day or of the one before it, else the latest; the
\* day it answers is the valuation date of all that follows.
BookAndCurve(a) == <<Call("get_portfolio"), LatestCurve(a.curve_date)>>
\* _history: the matrix as of the valuation date, gaps refused
History    == CallOn("history", "valuation", 0, "previous")
\* _curve_on
CurveOn(d) == CurveOf("stated", d, "previous")
ReplayCurvesBefore(from, to) == <<CurveOf("stated", from, "previous"),
                                  CurveOf("stated", to, "previous")>>
\* _replay_shocks
ReplayCurves(from, to) == <<CurveOf("stated", from, "previous"), CurveOf("stated", to, "next")>>

PricePortfolio(a)  == BookAndCurve(a) \o <<Call("price_portfolio")>>
ComputeDv01(a)     == BookAndCurve(a) \o <<Call("dv01")>>
                      \o If("key_rates" \in a.given, <<Try("key_rate_dv01")>>)
ComputeVar(a)      == BookAndCurve(a) \o <<History, Call("historical_risk")>>
\* run_stress: a stored scenario is a vector or the two dates of a replay.
RunStress(a)       == BookAndCurve(a) \o <<Call("get_scenario")>>
                      \o If(a.start # 0, ReplayCurves(a.start, a.end))
                      \o (IF "live_tenor" \in a.given THEN <<Call("stress")>> ELSE Refuse("no_shocks"))
BondAnalytics(a)   == BookAndCurve(a) \o <<Call("bond_analytics")>>
CurveAnalytics(a)  == <<LatestCurve(a.curve_date), Call("curve_analytics")>>
\* compute_rate_volatility takes a requested day as it is, without looking for a curve.
RateVolatility(a)  == IF a.curve_date = 0 THEN <<LatestCurve(0), History, Call("rate_volatility")>>
                      ELSE <<CallOn("history", "stated", a.curve_date, "previous"),
                             Call("rate_volatility")>>
CarryRoll(a)       == BookAndCurve(a) \o <<Call("carry_roll")>>
RateSensitivities(a) == BookAndCurve(a) \o <<Call("rate_sensitivities")>>
RiskContributions(a) == BookAndCurve(a) \o <<History, Call("risk_contributions")>>
Concentration(a)   == BookAndCurve(a) \o <<Call("concentration")>>
RunRateStress(a)   == Needs({"scenario"}, a,
                        BookAndCurve(a) \o (IF "known" \in a.given THEN <<Call("rate_stress")>>
                                            ELSE Refuse("unknown")))
RunKeyRateStress(a)== Needs({"tenor_months", "shock_bp"}, a,
                        BookAndCurve(a) \o <<Call("key_rate_stress")>>)
ShockLadder(a)     == BookAndCurve(a) \o <<Call("shock_ladder")>>
StressMatrix(a)    == BookAndCurve(a) \o <<Call("stress_matrix")>>
StressContributions(a) == Needs({"scenario"}, a,
                        BookAndCurve(a) \o (IF "known" \in a.given THEN <<Call("stress_contributions")>>
                                            ELSE Refuse("unknown")))
\* run_historical_stress: a named crisis has its two dates; here it is the whole calendar.
HistoricalStress(a) ==
    LET from == IF "crisis_id" \in a.given THEN 1 ELSE a.start
        to   == IF "crisis_id" \in a.given THEN FinalDay ELSE a.end
    IN BookAndCurve(a) \o (IF from = 0 \/ to = 0 THEN Refuse("no_window")
                           ELSE <<CurveOn(from), CurveOn(to), Call("replay_forward")>>)
WorstStresses(a)   == BookAndCurve(a) \o <<History, Call("worst_stresses")>>
ReverseStress(a)   == Needs({"target_loss"}, a, BookAndCurve(a) \o <<Call("reverse_stress")>>)
StressThresholds(a)== BookAndCurve(a) \o <<Call("stress_thresholds")>>
LimitBreach(a)     == Needs({"limit_amount"}, a, BookAndCurve(a) \o <<Call("limit_breach")>>)
ParametricRisk(a)  == BookAndCurve(a) \o <<History, Call("parametric_risk")>>
MonteCarloRisk(a)  == BookAndCurve(a) \o <<History, Call("monte_carlo_risk")>>
CompareMethods(a)  == BookAndCurve(a) \o <<History, Call("compare_methods")>>
BacktestVar(a)     == BookAndCurve(a) \o <<History, Call("historical_risk"), Call("worst_stresses"),
                                           Call("backtest")>>
\* compute_pnl_attribution: to the latest curve unless an end is stated, and from a lookback before
\* it unless a start is.
PnlAttribution(a)  == <<Call("get_portfolio")>>
                      \o <<IF a.end = 0 THEN LatestCurve(0)
                            ELSE CallOn("stated_end", "none", a.end, "none")>>
                      \o <<IF a.start = 0 THEN CurveOf("lookback", 0, "previous") ELSE CurveOn(a.start),
                           CurveOf("valuation", 0, "previous"), Call("pnl_attribution")>>
\* The supplied limits and the tool that measures what each is compared with
Measures == [dv01_limit |-> "dv01", var_limit |-> "historical_risk", stress_limit |-> "rate_stress"]
RiskLimitsFirstOnly(a) ==
    IF a.given \cap DOMAIN Measures = {} THEN Refuse("needs")
    ELSE BookAndCurve(a) \o If("dv01_limit" \in a.given, <<Call("dv01")>>)
         \o If("var_limit" \in a.given, <<History, Call("historical_risk")>>)
         \o If(a.given = {"stress_limit"}, <<Call("rate_stress")>>) \o <<Call("evaluate_limits")>>
\* evaluate_risk_limits: what a supplied limit is compared with is measured here, in this order.
RiskLimits(a) ==
    IF a.given \cap DOMAIN Measures = {} THEN Refuse("needs")
    ELSE BookAndCurve(a) \o If("dv01_limit" \in a.given, <<Call("dv01")>>)
         \o If("var_limit" \in a.given, <<History, Call("historical_risk")>>)
         \o If("stress_limit" \in a.given, <<Call("rate_stress")>>) \o <<Call("evaluate_limits")>>
\* compare_portfolio_risk: with the book that is named, or the first other one that is listed
ComparePortfolio(a)== If("other_portfolio_id" \notin a.given, <<Try("list_portfolios")>>
                         \o If("second_book" \notin a.given, Refuse("only_one")))
                      \o BookAndCurve(a) \o <<Call("get_portfolio"), Call("compare_portfolio_risk")>>
HypotheticalTrade(a) == Needs({"tenor_months", "notional"}, a,
                        BookAndCurve(a) \o (IF "node" \in a.given THEN <<Call("hypothetical_trade")>>
                                            ELSE Refuse("no_node")))
FrtbGirr(a)        == BookAndCurve(a) \o <<Call("frtb_girr")>>

-----------------------------------------------------------------------------
(* _calculate: which parameters a capability reads, and what it calls.     *)

\* For each capability the inputs that change what it calls.  (known, live_tenor, node and
\* second_book say that what is named exists.)
Reads == [compute_dv01 |-> {"key_rates"}, run_stress |-> {"live_tenor"},
          run_rate_stress |-> {"scenario", "known"},
          run_key_rate_stress |-> {"tenor_months", "shock_bp"},
          compute_stress_contributions |-> {"scenario", "known"},
          run_historical_stress |-> {"crisis_id"},
          run_reverse_stress |-> {"target_loss"}, find_limit_breach_stress |-> {"limit_amount"},
          evaluate_risk_limits |-> DOMAIN Measures,
          compare_portfolio_risk |-> {"other_portfolio_id", "second_book"},
          analyze_hypothetical_trade |-> {"tenor_months", "notional", "node"}]
Workflows(a) ==
    [price_portfolio |-> PricePortfolio(a), compute_dv01 |-> ComputeDv01(a),
     compute_var |-> ComputeVar(a), run_stress |-> RunStress(a),
     compute_bond_analytics |-> BondAnalytics(a), compute_curve_analytics |-> CurveAnalytics(a),
     compute_rate_volatility |-> RateVolatility(a), compute_carry_roll |-> CarryRoll(a),
     compute_rate_sensitivities |-> RateSensitivities(a),
     compute_risk_contributions |-> RiskContributions(a), compute_concentration |-> Concentration(a),
     run_rate_stress |-> RunRateStress(a), run_key_rate_stress |-> RunKeyRateStress(a),
     run_shock_ladder |-> ShockLadder(a), run_stress_matrix |-> StressMatrix(a),
     compute_stress_contributions |-> StressContributions(a),
     run_historical_stress |-> HistoricalStress(a), find_worst_historical_stresses |-> WorstStresses(a),
     run_reverse_stress |-> ReverseStress(a), compute_stress_thresholds |-> StressThresholds(a),
     find_limit_breach_stress |-> LimitBreach(a), compute_parametric_risk |-> ParametricRisk(a),
     compute_monte_carlo_risk |-> MonteCarloRisk(a), compare_risk_methods |-> CompareMethods(a),
     backtest_var |-> BacktestVar(a), compute_pnl_attribution |-> PnlAttribution(a),
     evaluate_risk_limits |-> RiskLimits(a), compare_portfolio_risk |-> ComparePortfolio(a),
     analyze_hypothetical_trade |-> HypotheticalTrade(a), compute_frtb_girr |-> FrtbGirr(a)]
Bookless  == {"compute_curve_analytics", "compute_rate_volatility"}
Dated     == {"run_stress", "run_historical_stress", "compute_pnl_attribution"}

\* The days of a stored replay scenario run forward; the user's need not.
Arguments(name) ==
    {a \in [given : SUBSET (IF name \in DOMAIN Reads THEN Reads[name] ELSE {}),
            curve_date : IF name = "compute_pnl_attribution" THEN {0} ELSE {0} \cup Calendar,
            start : IF name \in Dated THEN {0} \cup Calendar ELSE {0},
            end   : IF name \in Dated THEN {0} \cup Calendar ELSE {0}] :
        name = "run_stress" => (a.start = 0 /\ a.end = 0) \/ (0 < a.start /\ a.start < a.end)}

NoWorkflow == [name |-> "none", args |-> [given |-> {}, curve_date |-> 0, start |-> 0, end |-> 0],
         left |-> <<>>, date |-> 0, curves |-> <<>>, upTo |-> 0, called |-> {}, sample |-> <<>>,
         outcome |-> "none"]
WfInit == published = Calendar \ Holidays /\ wf = NoWorkflow

\* The first portfolio is looked up and, for a stored scenario, the first scenario.
Calculate(name, a) ==
    /\ wf = NoWorkflow
    /\ wf' = [NoWorkflow EXCEPT !.name = name, !.args = a,
                 !.left = If(name \notin Bookless, <<Call("list_portfolios")>>)
                          \o If(name = "run_stress", <<Call("list_scenarios")>>) \o Workflows(a)[name]]
    /\ UNCHANGED published

-----------------------------------------------------------------------------
(* The calls.                                                              *)

NextCall      == Head(wf.left)
Running    == wf.left # <<>> /\ wf.outcome = "none"
Finish(outcome) == wf' = [wf EXCEPT !.outcome = outcome, !.left = <<>>]
Refusals   == {"needs", "no_shocks", "unknown", "no_window", "only_one", "no_node"}
Markets    == {"get_curve", "valuation_curve"}
\* The workflow with its next call answered
Answered == [wf EXCEPT !.left = Tail(@), !.called = @ \cup {NextCall.tool},
                       !.outcome = IF Len(wf.left) = 1 THEN "result" ELSE "none"]

\* Input that is missing or names nothing: an answer without any further call
Refused == /\ Running /\ NextCall.tool \in Refusals /\ Finish(NextCall.tool) /\ UNCHANGED published

DayOf(c) == CASE c.ref = "stated"    -> c.day
              [] c.ref = "valuation" -> wf.date
              [] c.ref = "lookback"  -> wf.date - LookbackDays
UpTo(d) == {e \in published : e <= d}
ResolveExactly(d, policy) == IF d = 0 THEN Max(published) ELSE d
\* resolve_curve_date, after get_curve has refused a day outside the coverage
Resolve(d, policy) ==
    IF d = 0 THEN Max(published)
    ELSE IF policy = "next" THEN Min({e \in published : e >= d}) ELSE Max(UpTo(d))
Covered(d) == published # {} /\ (d = 0 \/ (Min(published) <= d /\ d <= Max(published)))
\* get_curve
GetCurve ==
    /\ Running /\ NextCall.tool \in Markets /\ Covered(DayOf(NextCall))
    /\ LET day == Resolve(DayOf(NextCall), NextCall.policy) IN
       wf' = IF NextCall.tool = "valuation_curve" THEN [Answered EXCEPT !.date = day]
             ELSE [Answered EXCEPT !.curves = Append(@, day)]
    /\ UNCHANGED published
StatedEnd == /\ Running /\ NextCall.tool = "stated_end" /\ wf' = [Answered EXCEPT !.date = NextCall.day]
             /\ UNCHANGED published
HistoryLatest ==
    /\ Running /\ NextCall.tool = "history" /\ Cardinality(published) >= TradingDays
    /\ wf' = [Answered EXCEPT !.upTo = Max(published)] /\ UNCHANGED published
\* get_curve_history_matrix: the last trading days up to the day, all of them or none
GetHistory ==
    /\ Running /\ NextCall.tool = "history" /\ Cardinality(UpTo(DayOf(NextCall))) >= TradingDays
    /\ wf' = [Answered EXCEPT !.upTo = Max(UpTo(DayOf(NextCall)))] /\ UNCHANGED published

SampleAsRanked(ranked) == ranked
\* backtest_var: the engine ranks the moves and returns the worst ones; put back in the order of
\* time they are the profits and losses that the forecast is tested against.
Sample(ranked) == CHOOSE s \in [DOMAIN ranked -> Range(ranked)] : \A i, j \in DOMAIN s : i < j => s[i] < s[j]
RankedMoves == {r \in [1..BacktestWindow -> 1..Moves] : IsInjective(r)}
Engine ==
    /\ Running /\ NextCall.tool \notin Markets \cup Refusals \cup {"history", "stated_end"}
    /\ CASE NextCall.tool = "worst_stresses" /\ wf.name = "backtest_var" ->
                 \E ranked \in RankedMoves : wf' = [Answered EXCEPT !.sample = Sample(ranked)]
         [] NextCall.tool \in {"replay_forward", "pnl_attribution"} ->  \* a period that runs backwards is refused
                 wf.curves[1] < wf.curves[2] /\ wf' = Answered
         [] OTHER -> wf' = Answered
    /\ UNCHANGED published
\* _fail: the first error is the answer, unless the workflow goes on without.  (A listing that
\* fails reads as one without a second book.)
CallFails == /\ Running /\ NextCall.tool \notin Refusals \cup {"stated_end"}
             /\ IF ~NextCall.lenient THEN Finish("error")
                ELSE IF NextCall.tool = "list_portfolios" THEN Finish("only_one") ELSE Finish("result")
             /\ UNCHANGED published
\* Any exception ends it, of a lenient call too.
CallRaises == /\ Running /\ NextCall.tool \notin Refusals \cup {"stated_end"}
              /\ Finish("raised") /\ UNCHANGED published

\* The loader, between any two calls
LoadBetween == /\ Running /\ \E days \in Loads \ {published} : published' = days
               /\ UNCHANGED wf

WfNext == \/ \E name \in DOMAIN Workflows(NoWorkflow.args) : \E a \in Arguments(name) : Calculate(name, a)
          \/ Refused \/ GetCurve \/ StatedEnd \/ GetHistory \/ Engine \/ CallFails \/ CallRaises
          \/ LoadBetween
WfSpec == WfInit /\ [][WfNext]_wfVars

-----------------------------------------------------------------------------
(* What is checked.                                                        *)

Result(names) == wf.outcome = "result" /\ wf.name \in names
AllNames == DOMAIN Workflows(NoWorkflow.args)

\* Nothing in a result is newer than what it is stated to be of: the valuation curve not than the
\* requested day, the history not than the valuation date, whatever is loaded between the calls.
NoLookAhead == Result(AllNames) =>
    /\ wf.args.curve_date # 0 => wf.date <= wf.args.curve_date
    /\ wf.upTo <= (IF wf.date = 0 THEN wf.args.curve_date ELSE wf.date)

\* A replayed move is measured over a period that runs forward; that of a stored scenario covers
\* the scenario's days though either may be a holiday, and the user's never ends after the day
\* that was asked for.
ReplayCoversItsWindow ==
    /\ Result({"run_stress"}) /\ wf.curves # <<>> =>
          wf.curves[1] <= wf.args.start /\ wf.args.end <= wf.curves[2]
    /\ Result({"run_historical_stress", "compute_pnl_attribution"}) =>
          /\ wf.curves[1] < wf.curves[2]
          /\ wf.args.end # 0 /\ wf.args.given = {} => wf.curves[2] <= wf.args.end

\* Every limit that was supplied has been measured when the limits are evaluated: one that was not
\* would be left out silently.
EveryLimitMeasured == Result({"evaluate_risk_limits"}) =>
    /\ wf.args.given # {}
    /\ \A limit \in wf.args.given : Measures[limit] \in wf.called

\* The coverage tests read the order of the exceptions: the moves are in the order of time, each
\* at most once.
BacktestInOrder == Result({"backtest_var"}) =>
    \A i, j \in 1..Len(wf.sample) : i < j => wf.sample[i] < wf.sample[j]

WfTypeOK == /\ published \in Loads
            /\ wf.outcome \in {"none", "result", "error", "raised"} \cup Refusals
            /\ wf.date \in 0..FinalDay /\ wf.upTo \in 0..FinalDay /\ ToSet(wf.curves) \subseteq Calendar \ Holidays
            /\ wf.sample \in {<<>>} \cup [1..BacktestWindow -> 1..Moves]

\* A workflow reads nothing that lies after its valuation, all of the period it replays, a measure
\* for every limit, and the moves in their order (risk_workflows.py).
WorkflowsHold == WfTypeOK /\ NoLookAhead /\ ReplayCoversItsWindow /\ EveryLimitMeasured /\ BacktestInOrder
=============================================================================
