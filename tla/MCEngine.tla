------------------------------ MODULE MCEngine ------------------------------
(* What decides the numbers and the words of an answer, one part at a      *)
(* time: a reverse stress, a pack of scenarios, the measures of one        *)
(* history, the schedules of one carry calculation, the table made of      *)
(* three years of feeds, the calendar that looks for its gaps, the chunks  *)
(* made of a document, the calls of a model by two threads, the tools a    *)
(* model asks for, and the expert's turns, parameters and verdicts.        *)
EXTENDS StressSearch, StressPack, RiskMeasures, BondSchedule, FeedTable, Chunker, ModelCall, HostLoop, Expert

VARIABLE part
mcVars == <<part, searchVars, packVars, riskVars, bondVars, tabVars, calVars, chunkVars,
            modelVars, hostVars, expertVars>>

-----------------------------------------------------------------------------
\* P&L of a scenario as a parabola in its multiple, cut off where the shocked curve breaks.
MCReach == 8
Cut(f, lo, hi) == [m \in -MCReach..MCReach |-> IF m < lo \/ m > hi THEN Broken ELSE f[m]]
MCShapes ==
    LET poly == {[m \in -MCReach..MCReach |-> -(a * m) + b * m * m] : a \in {-1, 0, 2}, b \in {-1, 0, 1}}
        cuts == {Cut(f, lo, hi) : f \in poly, lo \in {-8, -1}, hi \in {8, 2, 0}}
    IN  cuts \cup {[f EXCEPT ![2] = Broken] : f \in poly}
MCSearches ==
       [kind : {"single"}, low : {-8, 0}, high : {8, 0}, targets : {<<-1>>, <<5>>, <<10>>}]
  \cup [kind : {"table"}, low : {-8, 4}, high : {8}, targets : {<<40, 3, 0>>, <<6, 99>>}]
  \cup [kind : {"limit"}, low : {-8, -4}, high : {8}, targets : {<<12, 3>>, <<5, 4>>}]

\* Curves that lack a tenor of every kind; books that are long, short and both.
MCCurves == LET n == {<<2, 5, 10, 20, 30>>, <<1, 5, 20>>, <<1, 2, 5>>, <<10, 20, 30>>}
            IN  {[t \in {s[i] : i \in DOMAIN s} |-> 30 + k * t] : s \in n, k \in {0, 1}}
MCBooks == [{"p", "q"} -> {[t \in {2, 10} |-> 1], [t \in {10, 20, 30} |-> -2],
                           [t \in {5, 10, 20} |-> t - 10]}]

\* Every short history of one tenor, and some of two.
MCHistories ==
    UNION {[1..n -> [{2} -> {0, 1, 3}]] : n \in 2..3} \cup [1..5 -> [{2} -> {0, 1}]]
    \cup {[i \in 1..4 |-> [t \in {2, 10} |-> IF t = 2 THEN a[i] ELSE 3 - i]] : a \in [1..4 -> {0, 1, 3}]}
MCExposures == {[p |-> [t \in {2} |-> 1]], [p |-> [t \in {2} |-> 2], q |-> [t \in {2, 10} |-> -1]],
                [p |-> [t \in {2, 5} |-> -1], q |-> [t \in {10} |-> 2]]}
MCLevels == {<<1, 2>>, <<3, 4>>, <<9, 10>>}
MCBaselLevel == <<3, 4>>
Lim(l, a) == [limit |-> l, amber |-> a]
MCLimitSets == {<<>>, <<Lim(2, 50), Lim(3, 80)>>, <<Lim(0, 50)>>, <<Lim(1, 80), Lim(4, 25)>>}

\* Month ends, a leap day, and dates on either side of every coupon.
MCMaturities == {<<2026, 8, 31>>, <<2026, 2, 28>>, <<2028, 2, 29>>, <<2026, 11, 30>>, <<2027, 5, 15>>}
MCValuations == {<<y, m, x>> : y \in 2024..2026, m \in {2, 8, 11}, x \in {1, 15, 28}}

\* Entries around the turn of 2024: days in and out of order, twice and with holidays between
\* them, rates that are zero, missing, unreadable or far apart, a column that comes and goes.
P(c, edm, text, n) == [name |-> c, edm |-> edm, text |-> text, n |-> n]
Rate(n)     == P("rate", "double", "good", n)
On(x, rate) == <<P("date", "date", "good", Day(x)), rate>>
MCEntries ==
    <<On(<<2024, 12, 30>>, Rate(0)), On(<<2024, 12, 31>>, Rate(2)), On(<<2025, 1, 2>>, Rate(0)),
      On(<<2025, 1, 2>>, Rate(3)), On(<<2025, 1, 3>>, Rate(9)), On(<<2025, 1, 3>>, P("rate", "double", "missing", 7)),
      On(<<2025, 1, 4>>, Rate(2)), <<>>, <<P("date", "date", "bad", 0), Rate(1)>>,
      On(<<2024, 12, 31>>, P("rate", "double", "bad", 1)) \o <<P("why", "none", "good", 1)>>,
      <<Rate(2), P("date", "date", "good", Day(<<2024, 12, 30>>)), Rate(1)>>,
      <<P("date", "date", "missing", 0), P("why", "none", "bad", 2)>>,
      On(<<2024, 12, 27>>, Rate(0))>>
MCPairs == {<<1, 2>>, <<2, 1>>, <<1, 1>>, <<4, 1>>, <<3, 6>>, <<4, 5>>, <<1, 4>>, <<8, 9>>, <<2, 10>>,
            <<12, 7>>, <<1, 3>>, <<13, 1>>}
MCFeeds == {<<>>} \cup {<<e>> : e \in {MCEntries[i] : i \in DOMAIN MCEntries}}
           \cup {<<MCEntries[p[1]], MCEntries[p[2]]>> : p \in MCPairs}
MCKey      == <<"date">>
MCToday    == Day(<<2025, 1, 3>>)
MCClosures == {Day(<<2001, 9, 11>>), Day(<<2012, 10, 29>>), Day(<<2025, 1, 9>>)}

\* Lines, with their tokens, and sections made of them: quotes that open a section and others,
\* tables that fit and others, with a header and without, fences of both markers, alone, beside
\* prose, in a row and never closed, with headings and rows inside; text before any heading.
Line(k, lv, n) == [k |-> k, lv |-> lv, n |-> n]
H(lv) == Line("head", lv, 1)
T(n)  == Line("text", 0, n)
R(n)  == Line("row", 0, n)
F(lv) == Line("fence", lv, 0)
Sep   == Line("sep", 0, 1)
Q     == Line("quote", 0, 1)
U     == Line("rule", 0, 1)
B     == Line("blank", 0, 0)
MCSections ==
    {<<>>, <<Q>>, <<R(1), Sep>>, <<B, T(2)>>, <<F(1), R(2), Q, T(3)>>,
     <<T(4), B, F(1), T(3), F(1)>>, <<F(1), T(3), B, T(1), F(1), B, T(4), T(2)>>, <<Q, B, U, T(9), T(3)>>,
     <<Q, Q, R(1), Sep, R(2), R(3), R(1), R(2), B, B>>,
     <<R(1), Sep, R(1), R(1), R(1), R(1), R(1), R(1), R(1), B, T(3)>>,
     <<F(1), H(1), F(2), T(2), U, F(1), R(2), R(5), R(5), R(1), R(1), R(9)>>,
     <<T(1), B, T(1), B, U, T(1), R(3), T(1), Q, T(2)>>,
     <<B, T(1), F(1), T(3), F(1), F(1), T(2), F(1), T(1), B>>,
     <<U, Q, T(1), F(1), T(4), T(5), T(5), F(1), T(2), B, U, T(3), T(3)>>}
MCDocuments == {<<>>} \cup {<<H(1)>> \o b : b \in MCSections} \cup {b \o <<H(2)>> \o c : b, c \in MCSections}
               \cup {<<H(1), T(1), H(3)>> \o b \o <<H(2)>> \o c : b, c \in MCSections}

\* Two schemas; replies that fail, say nothing, say it in prose or as a template, and objects that
\* are whole, cut off, ended by a sentinel, renamed, repeated, or hold a null in every spelling.
MCField(t, n, r) == [type |-> t, null |-> n, required |-> r]
MCSchemas ==
    {[fields |-> ("rows" :> MCField("integer", TRUE, TRUE)) @@ ("quote" :> MCField("string", FALSE, FALSE)), extra |-> "unset"],
     [fields |-> ("rows" :> MCField("number", FALSE, FALSE)) @@ ("quote" :> MCField("string", TRUE, TRUE)), extra |-> "allowed"]}
Calling(t)    == [fault |-> "", choices |-> TRUE, call |-> TRUE, text |-> t, finish |-> "stop"]
InProse(t, f) == [Calling(t) EXCEPT !.call = FALSE, !.finish = f]
Begun(r, q)  == <<Token("open"), Pair("rows", r), Token("comma"), Pair("quote", q)>>
MCReplies ==
    {[Calling(<<>>) EXCEPT !.fault = f] : f \in {"insufficient", "timeout", "text401", "permission", "unknown"}}
    \cup {InProse(t, f) : t \in {<<>>, <<Token("prose")>>}, f \in {"stop", "length", "refusal"}}
    \cup {[Calling(<<>>) EXCEPT !.choices = FALSE], Calling(<<>>)}
    \cup {InProse(<<Token("stop"), Pair("rows", "int"), Token("prose"), Pair("quote", v), Token("stop")>>, "length") : v \in {"said", "nullword"}}
    \cup {Calling(Begun(v, w) \o <<Token("close")>>) : v \in {"int", "whole", "nullword", "naword"}, w \in {"str", "naword", "said"}}
    \cup {Calling(Begun("null", "half")), Calling(<<Token("open"), Pair("rows_required", "int"), Token("comma"), Token("stop"), Token("prose")>>),
          Calling(<<Token("open"), Pair("rows", "int"), Token("comma"), Pair("rows", "bool"), Token("close")>>),
          Calling(Begun("int", "str") \o <<Token("comma"), Pair("note", "str"), Token("close")>>),
          Calling(<<Token("open"), Pair("quote", "str"), Token("key"), Token("stop")>>)}

\* Two servers that both offer a curve, or one that offers nothing; turns that fail, are refused,
\* end, or ask for one tool or two, known or not, with arguments that parse or not.
MCSpecs  == <<"data", "risk">>
MCOffers == {("data" :> <<"rates", "curve">>) @@ ("risk" :> <<"curve", "var">>), ("data" :> <<>>) @@ ("risk" :> <<"rates">>)}
Reply(calls, finish, said) == [fault |-> FALSE, choices |-> TRUE, calls |-> calls, finish |-> finish, text |-> said]
Use(i, n, g) == [id |-> i, name |-> n, good |-> g]
MCTurns ==
    {[Reply(<<>>, "stop", "") EXCEPT !.fault = TRUE], [Reply(<<>>, "stop", "") EXCEPT !.choices = FALSE],
     Reply(<<>>, "tool_calls", ""), Reply(<<>>, "stop", "said"), Reply(<<>>, "length", ""),
     Reply(<<>>, "refusal", "sorry"), Reply(<<>>, "content_filter", "sorry"),
     Reply(<<Use("a", "curve", TRUE)>>, "tool_calls", ""),
     Reply(<<Use("a", "rates", TRUE), Use("b", "none", TRUE)>>, "tool_calls", "said"),
     Reply(<<Use("a", "var", FALSE)>>, "length", ""), Reply(<<Use("a", "none", TRUE), Use("b", "var", TRUE)>>, "refusal", "")}

\* Queries that agree, disagree and find nothing; parameters of every kind on both sides of
\* their limits; results that keep, break or do not report what was agreed.
Hit(i, d) == [id |-> i, dist |-> d]
MCHits == {<<Hit("es", 1), Hit("curve", 3), Hit("window", 4)>>, <<Hit("window", 2), Hit("es", 3)>>}
Val(is, n) == [is |-> is, n |-> n]
MCNumberRules  == [confidence |-> [lo |-> 1, hi |-> 99], shock |-> [lo |-> -2000, hi |-> 2000]]
MCIntegerRules == [horizon |-> [lo |-> 1, hi |-> 260]]
MCEnumRules    == [scenario |-> {"bear", "bull"}]
MCRawParams ==
    [confidence : {Val("float", 99), Val("int", 9900), Val("flag", 1), Val("text", 95)}, shock : {Val("whole", -2001), Val("int", 25)},
     horizon : {Val("whole", 10), Val("float", 10), Val("int", 0)}, scenario : {Val("word", "bull"), Val("word", "crash"), Val("flag", "true")},
     losses : {<<>>, <<Val("int", 5), Val("float", 7), Val("int", 9)>>, <<Val("int", 5), Val("int", 0)>>,
               <<Val("int", 5), Val("int", 6), Val("text", 0)>>}]
MCTerms == [{"horizon", "confidence"} -> {Val("none", 0), Val("text", 10), Val("int", 1)}]
MCResults ==
    [agreed : [tool : {"none", "var"}, terms : {[horizon |-> h, confidence |-> Val("int", 1)] : h \in {Val("none", 0), Val("int", 10)}},
               rows : {0, 250}, day : {0, 1}],
     ran : BOOLEAN, error : BOOLEAN, tool : {"var", "es"}, terms : MCTerms, days : {0, 10}, units : BOOLEAN, delivered : {0, 1, 2}]

-----------------------------------------------------------------------------
Some(S) == CHOOSE x \in S : TRUE

\* Two calls of a model at most: both of one thread, or one of each.
FewCalls == call["expert"].calls + call["router"].calls <= MaxCalls

\* One part moves in a behaviour; the others stay at one of their initial states.
MCInit ==
    /\ part \in {"solver", "pack", "measures", "bond", "table", "calendar", "chunker",
                "model", "host", "expert", "params", "verdict"}
    /\ IF part = "solver" THEN SearchInit ELSE SearchFor(Some(Shapes), Some(Searches))
    /\ IF part = "pack" THEN PackInit ELSE RunPack(Some(Curves), Some(Books), Ask("standard", {}, 0))
    /\ IF part = "measures" THEN RiskInit
       ELSE Measure(Some(Histories), Some(Exposures), Some(Levels), 1)
    /\ IF part = "bond" THEN BondInit
       ELSE Carry(Some(Maturities), Some(Valuations), Some(Valuations))
    /\ TabInit
    /\ IF part = "calendar" THEN CalInit ELSE LookFrom(FirstYear)
    /\ IF part = "chunker" THEN ChunkInit ELSE ChunkOf(Some(Documents))
    /\ ModelInit /\ (part # "model" => setup.backend = "zai" /\ ~setup.keyed)
    /\ HostInit /\ (part # "host" => vendor = "zai" /\ offer = Some(Offers))
    /\ TurnInit
    /\ IF part = "params" THEN \E raw \in RawParams : State(raw) ELSE State(Some(RawParams))
    /\ IF part = "verdict" THEN \E r \in Results, b \in BOOLEAN : Judge(r, b) ELSE Judge(Some(Results), TRUE)

MCNext ==
    /\ UNCHANGED part
    /\ \/ part = "solver" /\ SearchNext
          /\ UNCHANGED <<packVars, riskVars, bondVars, tabVars, calVars, chunkVars, modelVars, hostVars, expertVars>>
       \/ part = "pack" /\ PackNext
          /\ UNCHANGED <<searchVars, riskVars, bondVars, tabVars, calVars, chunkVars, modelVars, hostVars, expertVars>>
       \/ part = "measures" /\ RiskNext
          /\ UNCHANGED <<searchVars, packVars, bondVars, tabVars, calVars, chunkVars, modelVars, hostVars, expertVars>>
       \/ part = "bond" /\ BondNext
          /\ UNCHANGED <<searchVars, packVars, riskVars, tabVars, calVars, chunkVars, modelVars, hostVars, expertVars>>
       \/ part = "table" /\ TabNext
          /\ UNCHANGED <<searchVars, packVars, riskVars, bondVars, calVars, chunkVars, modelVars, hostVars, expertVars>>
       \/ part = "calendar" /\ CalNext
          /\ UNCHANGED <<searchVars, packVars, riskVars, bondVars, tabVars, chunkVars, modelVars, hostVars, expertVars>>
       \/ part = "chunker" /\ ChunkNext
          /\ UNCHANGED <<searchVars, packVars, riskVars, bondVars, tabVars, calVars, modelVars, hostVars, expertVars>>
       \/ part = "model" /\ ModelNext /\ FewCalls'
          /\ UNCHANGED <<searchVars, packVars, riskVars, bondVars, tabVars, calVars, chunkVars, hostVars, expertVars>>
       \/ part = "host" /\ HostNext
          /\ UNCHANGED <<searchVars, packVars, riskVars, bondVars, tabVars, calVars, chunkVars, modelVars, expertVars>>
       \/ part = "expert" /\ ExpertNext
          /\ UNCHANGED <<searchVars, packVars, riskVars, bondVars, tabVars, calVars, chunkVars, modelVars, hostVars>>

MCSpec == MCInit /\ [][MCNext]_mcVars
=============================================================================
