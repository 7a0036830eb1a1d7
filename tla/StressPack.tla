----------------------------- MODULE StressPack -----------------------------
(***************************************************************************)
(* A pack of stress scenarios run against one book and one curve           *)
(* (mcp_servers/risk/stress_scenarios.py, contributions.py and             *)
(* stress_matrix.py): the scenarios are built from the tenors the curve    *)
(* has, run one after the other, ranked, and tabulated by maturity bucket. *)
(* Shocks count in eighths of 100bp, so that every template is exact.      *)
(***************************************************************************)
EXTENDS Integers, Sequences, FiniteSets, FiniteSetsExt, SequencesExt

CONSTANTS Curves,      \* curves: [tenor in years -> rate]
          Books,       \* books: [position -> [tenor in years -> DV01]]
          Inversion,   \* a curve that falls by more than this per step is refused
          Convexity    \* the second-order share of every position

ASSUME PackAssumption == Inversion \in Nat /\ Convexity \in Nat

Failed == [pnl |-> 0, tenors |-> <<>>, failed |-> TRUE]

VARIABLES par,         \* the curve
          book,        \* the compiled book
          pack,        \* what the caller asked for
          todo,        \* the vectors still to run
          skipped,     \* the scenarios this curve has no node for
          rows,        \* [vector, result], in the order they ran
          table        \* worst bucket contributions, once the rows are ranked

packVars == <<par, book, pack, todo, skipped, rows, table>>

(* ---- the curve and the book ------------------------------------------- *)
Nodes == DOMAIN par
After(t) == {u \in Nodes : u > t}
\* build_discount_curve refuses a curve that implies a negative forward.
Consistent(curve) ==
    \A t \in Nodes : After(t) # {} => curve[t] - curve[Min(After(t))] <= Inversion
Shocked(shock) == [t \in Nodes |-> par[t] + (IF t \in DOMAIN shock THEN shock[t] ELSE 0)]

\* The value a position gains under a shock: first order, and convexity in the
\* move as a whole, which no split by tenor explains.
Gain(p, shock) ==
    LET moved == DOMAIN shock \cap DOMAIN book[p]
    IN  MapThenSumSet(LAMBDA t : -book[p][t] * shock[t], moved)
        + Convexity * MapThenSumSet(LAMBDA t : shock[t], moved)
                    * MapThenSumSet(LAMBDA t : shock[t], moved)
KeyRateDv01(t) ==
    MapThenSumSet(LAMBDA p : book[p][t], {p \in DOMAIN book : t \in DOMAIN book[p]})

(* ---- stress_scenarios.py ---------------------------------------------- *)
Opposite(points) == [t \in DOMAIN points |-> -points[t]]
Points(at2, at5, at10, at30) ==
    [t \in {2, 5, 10, 30} |-> CASE t = 2 -> at2 [] t = 5 -> at5 [] t = 10 -> at10 [] t = 30 -> at30]
TEMPLATES ==
    [BEAR_STEEPENER |-> Points(2, 4, 8, 12), BULL_STEEPENER |-> Opposite(Points(12, 8, 4, 2)),
     BEAR_FLATTENER |-> Points(12, 8, 4, 2), BULL_FLATTENER |-> Opposite(Points(2, 4, 8, 12)),
     BELLY_SELLOFF |-> Points(2, 8, 8, 2), BELLY_RALLY |-> Opposite(Points(2, 8, 8, 2)),
     WINGS_SELLOFF |-> Points(8, 2, 2, 8), WINGS_RALLY |-> Opposite(Points(8, 2, 2, 8))]

\* Each definition named ...Wrong is a mutation of the one that follows it and is
\* part of no behaviour: it shows that some property notices the bug.
InterpolatedToZeroWrong(points) ==
    [t \in Nodes |->
        LET below == {x \in DOMAIN points : x <= t}
            above == {x \in DOMAIN points : x >= t}
        IN  IF below = {} \/ above = {} THEN 0
            ELSE LET lo == Max(below)
                     hi == Min(above)
                 IN  IF lo = hi THEN points[lo]
                     ELSE points[lo] + ((points[hi] - points[lo]) * (t - lo)) \div (hi - lo)]

\* _interpolate_control_points, linear in years and flat beyond the ends.
Interpolated(points) ==
    [t \in Nodes |->
        LET below == {x \in DOMAIN points : x <= t}
            above == {x \in DOMAIN points : x >= t}
        IN  IF below = {} THEN points[Min(DOMAIN points)]
            ELSE IF above = {} THEN points[Max(DOMAIN points)]
            ELSE LET lo == Max(below)
                     hi == Min(above)
                 IN  IF lo = hi THEN points[lo]
                     ELSE points[lo] + ((points[hi] - points[lo]) * (t - lo)) \div (hi - lo)]

Vector(kind, name, shock) == [kind |-> kind, name |-> name, shock |-> shock]
ParallelShock(bp) == Vector("parallel", <<"parallel", bp>>, [t \in Nodes |-> bp])
TemplateShock(template, times) ==
    Vector("template", <<template, times>>,
           Interpolated([t \in {2, 5, 10, 30} |-> times * TEMPLATES[template][t]]))
\* twist_shock: the ends move by the magnitude in opposite directions.
TwistShock(pivot, bp) ==
    Vector("twist", <<"twist", bp>>,
           [t \in Nodes |->
              IF t < pivot THEN -((bp * (pivot - t)) \div (pivot - Min(Nodes)))
              ELSE IF t > pivot THEN (bp * (t - pivot)) \div (Max(Nodes) - pivot)
              ELSE 0])
KeyRateShock(tenors, bp) ==
    Vector("key_rate", <<"key_rate", tenors>>, [t \in Nodes |-> IF t \in tenors THEN bp ELSE 0])
CustomShockUnfilledWrong(shock) == Vector("custom", <<"custom", shock>>, shock)
\* custom_shock fills the nodes the caller left out with no move.
CustomShock(shock) ==
    Vector("custom", <<"custom", shock>>,
           [t \in Nodes |-> IF t \in DOMAIN shock THEN shock[t] ELSE 0])

(* ---- the standard pack ------------------------------------------------ *)
STANDARD_PACK_SPEC ==
    <<<<"parallel", 4>>, <<"parallel", 8>>, <<"parallel", 16>>,
      <<"parallel", -4>>, <<"parallel", -8>>, <<"parallel", -16>>,
      <<"BEAR_STEEPENER", 1>>, <<"BEAR_STEEPENER", 2>>, <<"BEAR_FLATTENER", 1>>,
      <<"BEAR_FLATTENER", 2>>, <<"BULL_STEEPENER", 1>>, <<"BULL_FLATTENER", 1>>,
      <<"twist", 8>>, <<"twist", -8>>, <<"BELLY_SELLOFF", 1>>, <<"WINGS_SELLOFF", 1>>,
      <<"key_rate", 2>>, <<"key_rate", 5>>, <<"key_rate", 10>>, <<"key_rate", 20>>,
      <<"key_rate", 30>>>>
PivotYears == 10

\* A scenario this curve has no place for.
Unavailable(spec) ==
    \/ spec[1] = "twist" /\ ~(Min(Nodes) <= PivotYears /\ PivotYears <= Max(Nodes))
    \/ spec[1] = "key_rate" /\ spec[2] \notin Nodes
Built(spec) ==
    CASE spec[1] = "parallel" -> ParallelShock(spec[2])
      [] spec[1] = "twist"    -> TwistShock(PivotYears, spec[2])
      [] spec[1] = "key_rate" -> KeyRateShock({spec[2]}, 8)
      [] OTHER                -> TemplateShock(spec[1], spec[2])

(* ---- one scenario ----------------------------------------------------- *)
\* run_shock with run_stress_matrix's first-order split by tenor.
RunShock(shock) ==
    IF ~Consistent(Shocked(shock)) THEN Failed
    ELSE [pnl    |-> MapThenSumSet(LAMBDA p : Gain(p, shock), DOMAIN book),
          tenors |-> [t \in Nodes |-> -KeyRateDv01(t) * shock[t]],
          failed |-> FALSE]
\* MATURITY_BUCKETS, named by their upper ends.
Bucket(t) == IF t <= 2 THEN 2 ELSE IF t <= 5 THEN 5 ELSE IF t <= 10 THEN 10
             ELSE IF t <= 20 THEN 20 ELSE 99
InBucket(b, tenors) ==
    MapThenSumSet(LAMBDA t : tenors[t], {t \in DOMAIN tenors : Bucket(t) = b})

(* ---- the run ---------------------------------------------------------- *)
Ask(kind, tenors, bp) == [kind |-> kind, tenors |-> tenors, bp |-> bp]
PackAsks == {Ask("standard", {}, 0)}
        \cup {Ask("key_rate", T, 8) : T \in (SUBSET {2, 10, 20}) \ {{}}}
        \cup {Ask("custom", T, bp) : T \in (SUBSET {2, 10, 20}) \ {{}}, bp \in {-8, 4}}

RunPack(curve, positions, ask) ==
    /\ par = curve /\ book = positions /\ pack = ask
    /\ todo = <<>> /\ skipped = <<>> /\ rows = <<>>
    /\ table = [phase |-> "new"]
PackInit == \E curve \in Curves, positions \in Books, ask \in PackAsks : RunPack(curve, positions, ask)

KnownInPartWrong(tenors) == tenors \cap Nodes # {}
Known(tenors) == tenors \subseteq Nodes

\* build_standard_pack, or the one vector of key_rate_shock and custom_shock,
\* which refuse a tenor that is not a node of this curve.
Build ==
    /\ table.phase = "new"
    /\ UNCHANGED <<par, book, pack, rows>>
    /\ \/ /\ pack.kind = "standard"
          /\ todo' = LET kept == SelectSeq(STANDARD_PACK_SPEC, LAMBDA s : ~Unavailable(s))
                     IN  [i \in DOMAIN kept |-> Built(kept[i])]
          /\ skipped' = SelectSeq(STANDARD_PACK_SPEC, Unavailable)
          /\ table' = [phase |-> "running"]
       \/ /\ pack.kind # "standard" /\ Known(pack.tenors)
          /\ todo' = IF pack.kind = "key_rate" THEN <<KeyRateShock(pack.tenors, pack.bp)>>
                     ELSE <<CustomShock([t \in pack.tenors |-> pack.bp])>>
          /\ table' = [phase |-> "running"]
          /\ UNCHANGED skipped
       \/ /\ pack.kind # "standard" /\ ~Known(pack.tenors)
          /\ table' = [phase |-> "refused"]
          /\ UNCHANGED <<todo, skipped>>

RunOneDropsFailedWrong ==
    /\ table.phase = "running" /\ todo # <<>>
    /\ rows' = LET result == RunShock(Head(todo).shock)
               IN  IF result.failed THEN rows
                   ELSE Append(rows, [vector |-> Head(todo), result |-> result])
    /\ todo' = Tail(todo)
    /\ UNCHANGED <<par, book, pack, skipped, table>>

\* run_stress_matrix: a scenario the bootstrap refuses keeps its row.
RunOne ==
    /\ table.phase = "running" /\ todo # <<>>
    /\ rows' = Append(rows, [vector |-> Head(todo), result |-> RunShock(Head(todo).shock)])
    /\ todo' = Tail(todo)
    /\ UNCHANGED <<par, book, pack, skipped, table>>

\* The ranking, by P&L (ties by name are left as they come), bucket_table with the
\* worst of every bucket over all scenarios, and compare_scenarios.
Ran == SelectSeq(rows, LAMBDA r : ~r.result.failed)
WorstOfFirstWrong(b) == IF Ran = <<>> THEN 0 ELSE Min({0, InBucket(b, Ran[1].result.tenors)})
Worst(b) == Min({0} \cup {InBucket(b, Ran[i].result.tenors) : i \in DOMAIN Ran})
Ranked == SortSeq(Ran, LAMBDA r, s : r.result.pnl < s.result.pnl)
Compared ==
    IF Ran = <<>> THEN [worst |-> 0, best |-> 0, spread |-> 0]
    ELSE LET best == Max({Ran[i].result.pnl : i \in DOMAIN Ran})
         IN  [worst |-> Ranked[1].result.pnl, best |-> best, spread |-> best - Ranked[1].result.pnl]
Rank ==
    /\ table.phase = "running" /\ todo = <<>>
    /\ rows' = Ranked \o SelectSeq(rows, LAMBDA r : r.result.failed)
    /\ table' = [phase |-> "ranked", compared |-> Compared,
                 worst |-> [b \in {Bucket(t) : t \in Nodes} |-> Worst(b)]]
    /\ UNCHANGED <<par, book, pack, todo, skipped>>

PackNext == Build \/ RunOne \/ Rank
PackSpec == PackInit /\ [][PackNext]_packVars

PackTypeOK ==
    /\ table.phase \in {"new", "running", "refused", "ranked"}
    /\ \A i \in DOMAIN rows : DOMAIN rows[i].vector.shock = Nodes

\* The pack never shrinks silently: every scenario of it is in the table, run or
\* failed, or is named as skipped, and the failed ones come last.
WholePackAccountedFor ==
    (table.phase = "ranked" /\ pack.kind = "standard") =>
        /\ \A i \in DOMAIN STANDARD_PACK_SPEC :
              LET spec == STANDARD_PACK_SPEC[i]
              IN  \/ \E k \in DOMAIN skipped : skipped[k] = spec
                  \/ \E k \in DOMAIN rows : ~Unavailable(spec) /\ rows[k].vector = Built(spec)
        /\ Len(rows) + Len(skipped) = Len(STANDARD_PACK_SPEC)
        /\ \A i, k \in DOMAIN rows : (i < k /\ rows[i].result.failed) => rows[k].result.failed

\* What ran ran as asked: a shock that was requested at a tenor is applied in
\* full at that tenor, and nowhere that was not asked for.
NeverHalfApplied ==
    (table.phase = "ranked" /\ pack.kind # "standard") =>
        /\ Len(rows) = 1
        /\ \A t \in pack.tenors : t \in Nodes /\ rows[1].vector.shock[t] = pack.bp
        /\ \A t \in Nodes \ pack.tenors : rows[1].vector.shock[t] = 0

\* A bear shape sells off at every node and a bull shape rallies at every node,
\* whichever of its control points the curve happens to publish.
DirectionHolds ==
    \A i \in DOMAIN rows : rows[i].vector.kind = "template" =>
        \A t \in Nodes :
            IF rows[i].vector.name[1] \in {"BULL_STEEPENER", "BULL_FLATTENER"}
            THEN rows[i].vector.shock[t] < 0 ELSE rows[i].vector.shock[t] > 0

\* The bucket table is the worst case per bucket: no scenario of the pack that
\* ran loses more in a bucket than its row says; the ranking and the comparison
\* say the same of the whole book.
TableIsTheWorst ==
    table.phase = "ranked" =>
        \A i \in DOMAIN rows : ~rows[i].result.failed =>
            /\ table.compared.worst <= rows[i].result.pnl
            /\ rows[i].result.pnl <= table.compared.worst + table.compared.spread
            /\ \A b \in DOMAIN table.worst :
                  table.worst[b] <= InBucket(b, rows[i].result.tenors)

\* A pack of scenarios is run as a whole, each as it is drawn, and its tables name the worst
\* (stress_scenarios.py, stress_matrix.py, historical_stress.py).
PackHolds == PackTypeOK /\ WholePackAccountedFor /\ NeverHalfApplied /\ DirectionHolds /\ TableIsTheWorst
=============================================================================
