------------------------------- MODULE Expert -------------------------------
(***************************************************************************)
(* agents/domain_expert_agent.py: what is retrieved for a task, the        *)
(* requirement that is derived from it and revised, what of it is cached,  *)
(* and the last check of a result against what was agreed.  A chunk is its *)
(* identity and its distance; a quote is the chunk it stands in, or        *)
(* "recalled".  A stated value is [is, n]; 10, 10.0 and "10" are equal     *)
(* values of different spelling.  Each definition named ...Wrong is a      *)
(* mutation of the one that follows it.                                    *)
(***************************************************************************)
EXTENDS Integers, Sequences, SequencesExt, FiniteSets

CONSTANTS Hits,            \* set of what one query may return: sequences of [id, dist]
          MaxReference,    \* max_reference_chunks
          NumberRules, IntegerRules, EnumRules,    \* _NUMBER_RULES, _INTEGER_RULES, _ENUM_RULES
          RawParams,       \* what a model may state as parameters
          MaxLosses,       \* how many target losses are read
          Results,         \* what came back, with what was agreed: [agreed, ran, error, tool, terms, days, units, delivered]
          MaxTurns         \* bound: turns on one task

VARIABLES turn,            \* where the turn is, its failure kind and how often it was revised
          excerpts,        \* retrieved for it, from either corpus
          found,           \* what the queries of the corpus under way have found
          requirement,     \* the requirement, once there is one
          cached,          \* retrievals and the derivation that were stored
          stated,          \* a set of parameters: what was said and what was kept
          validated        \* a result: what it was and what was said of it
expertVars == <<turn, excerpts, found, requirement, cached, stated, validated>>

Corpora == {"reference", "executable"}
Nothing == "none"
Kinds == {"schema", "timeout", "rate_limit", "balance", "auth"}
Terminal == {"balance", "auth"}

(* ---- retrieval ---------------------------------------------------------- *)
\* the better sighting of a chunk that both queries find, at the place of the first
KeepFirstWrong(merged, hit) == IF \E c \in Range(merged) : c.id = hit.id THEN merged ELSE Append(merged, hit)
Keep(merged, hit) ==
    LET place == SelectInSeq(merged, LAMBDA c : c.id = hit.id)
    IN  IF place = 0 THEN Append(merged, hit)
        ELSE IF hit.dist < merged[place].dist THEN [merged EXCEPT ![place] = hit] ELSE merged
MergeHits(merged, hits) == FoldLeft(Keep, merged, hits)

\* _retrieve and _retrieve_market_risk: sorted, and only the reference is capped
Retrieved(corpus, merged) ==
    LET ranked == SortSeq(merged, LAMBDA a, b : a.dist < b.dist)
    IN  IF corpus = "reference" THEN SubSeq(ranked, 1, IF Len(ranked) < MaxReference THEN Len(ranked) ELSE MaxReference)
        ELSE ranked

(* ---- _calculation_params ------------------------------------------------ *)
\* True, NaN, the infinities and a text are no numbers; 10.0 is "whole", 10.5 a "float"
Number(v) == v.is \in {"int", "whole", "float"}
Within(rule, n) == rule.lo <= n /\ n <= rule.hi

KeptNumbersClampedWrong(raw) ==
    [k \in {k \in DOMAIN raw \cap DOMAIN NumberRules : Number(raw[k])} |->
        IF Within(NumberRules[k], raw[k].n) THEN raw[k].n ELSE NumberRules[k].hi]
KeptNumbers(raw) ==
    [k \in {k \in DOMAIN raw \cap DOMAIN NumberRules : Number(raw[k]) /\ Within(NumberRules[k], raw[k].n)} |-> raw[k].n]
KeptIntegers(raw) ==
    [k \in {k \in DOMAIN raw \cap DOMAIN IntegerRules :
                raw[k].is \in {"int", "whole"} /\ Within(IntegerRules[k], raw[k].n)} |-> raw[k].n]
KeptWords(raw) ==
    [k \in {k \in DOMAIN raw \cap DOMAIN EnumRules : raw[k].is = "word" /\ raw[k].n \in EnumRules[k]} |-> raw[k].n]

\* one bad amount drops the list; what is behind the limit is not read
Read(losses) == SubSeq(losses, 1, IF Len(losses) < MaxLosses THEN Len(losses) ELSE MaxLosses)
KeptLosses(losses) ==
    IF \A i \in DOMAIN Read(losses) : Number(losses[i]) /\ losses[i].n > 0 THEN Read(losses) ELSE <<>>

\* reject: what is a number or a word and means nothing is named in a warning
Said(raw) == {k \in DOMAIN raw \cap (DOMAIN NumberRules \cup DOMAIN IntegerRules) : Number(raw[k])}
             \cup {k \in DOMAIN raw \cap DOMAIN EnumRules : raw[k].is = "word"}
CalculationParamsQuietWrong(raw) ==
    LET kept   == KeptNumbers(raw) @@ KeptIntegers(raw) @@ KeptWords(raw)
        losses == KeptLosses(raw.losses)
    IN  [raw |-> raw, kept |-> kept, losses |-> losses,
         warned |-> {k \in Said(raw) \ DOMAIN kept : k \in DOMAIN EnumRules}
                    \cup (IF raw.losses # <<>> /\ losses = <<>> THEN {"losses"} ELSE {})]
CalculationParams(raw) ==
    LET kept   == KeptNumbers(raw) @@ KeptIntegers(raw) @@ KeptWords(raw)
        losses == KeptLosses(raw.losses)
    IN  [raw |-> raw, kept |-> kept, losses |-> losses,
         warned |-> (Said(raw) \ DOMAIN kept) \cup (IF raw.losses # <<>> /\ losses = <<>> THEN {"losses"} ELSE {})]

(* ---- _build and _resolve_answerability ---------------------------------- *)
GroundedAnywhereWrong(quote) == quote \in {c.id : c \in Range(excerpts["reference"]) \cup Range(excerpts["executable"])}
Grounded(quote) == quote \in {c.id : c \in Range(excerpts["executable"])}

\* a refusal stands only when nothing at all can be served
ResolveAnswerability(p, servable) == p.answerable \/ servable \/ p.calculation

Blocked(by) == [by |-> by, answerable |-> FALSE, calculation |-> FALSE, rows |-> FALSE, quote |-> Nothing, warned |-> {"blocked"}]
BuildRequirement(p, servable) ==
    [by |-> Nothing,
     answerable  |-> ResolveAnswerability(p, servable),
     calculation |-> p.calculation,
     rows        |-> p.rows /\ Grounded(p.quote),
     quote       |-> IF p.rows /\ ~Grounded(p.quote) THEN Nothing ELSE p.quote,
     warned      |-> (IF p.rows /\ Grounded(p.quote) THEN {} ELSE {"rows"})
                     \cup (IF ~p.answerable /\ ResolveAnswerability(p, servable) THEN {"overruled"} ELSE {})]

(* ---- the turn ----------------------------------------------------------- *)
Payloads == [answerable : BOOLEAN, calculation : BOOLEAN, rows : BOOLEAN,
             quote : {Nothing, "recalled"} \cup UNION {{h[i].id : i \in DOMAIN h} : h \in Hits}]

TurnInit ==
    /\ turn = [at |-> "idle", turns |-> 0, kind |-> "", servable |-> FALSE, revised |-> 0]
    /\ excerpts = [c \in Corpora |-> <<>>] /\ found = <<>>
    /\ requirement = Blocked("data")
    /\ cached = [c \in Corpora \cup {"plan"} |-> {}]

\* derive: a stored plan comes with its chunks; retrieve_market_risk and retrieve are stored too
BeginTurn(servable) ==
    /\ turn.at = "idle" /\ turn.turns < MaxTurns
    /\ IF cached["plan"] # {}
       THEN /\ \E plan \in cached["plan"] : excerpts' = plan.excerpts /\ requirement' = plan.requirement
            /\ turn' = [turn EXCEPT !.at = "agreed", !.turns = @ + 1, !.kind = "", !.servable = servable, !.revised = 0]
       ELSE /\ excerpts' = [c \in Corpora |-> <<>>] /\ UNCHANGED requirement
            /\ turn' = [turn EXCEPT !.at = "reference1", !.turns = @ + 1, !.kind = "", !.servable = servable, !.revised = 0]
    /\ found' = <<>> /\ UNCHANGED cached

\* what is left when the two queries of a corpus are done, or were done before
WithChunksKeepsFoundWrong(corpus, list) ==
    /\ excerpts' = [excerpts EXCEPT ![corpus] = list]
    /\ UNCHANGED found
    /\ turn' = [turn EXCEPT !.at = IF corpus = "reference" THEN "executable1" ELSE "reasoning"]
WithChunks(corpus, list) ==
    /\ excerpts' = [excerpts EXCEPT ![corpus] = list]
    /\ found' = <<>>
    /\ turn' = [turn EXCEPT !.at = IF corpus = "reference" THEN "executable1" ELSE "reasoning"]

FromCache(corpus) ==
    /\ turn.at = corpus \o "1"
    /\ \E list \in cached[corpus] : WithChunks(corpus, list)
    /\ UNCHANGED <<requirement, cached>>

\* one query: it may raise, and the other still counts (_retrieve_queries)
StoreRetrieval(corpus, list) == IF list = <<>> THEN cached ELSE [cached EXCEPT ![corpus] = {list}]
Query(corpus, hits) ==
    /\ cached[corpus] = {}
    /\ \/ /\ turn.at = corpus \o "1"
          /\ found' = MergeHits(<<>>, hits)
          /\ turn' = [turn EXCEPT !.at = corpus \o "2"]
          /\ UNCHANGED <<excerpts, cached>>
       \/ /\ turn.at = corpus \o "2"
          /\ LET list == Retrieved(corpus, MergeHits(found, hits))
             IN  WithChunks(corpus, list) /\ cached' = StoreRetrieval(corpus, list)
    /\ UNCHANGED requirement

\* _derive_uncached, and the cache_if of derive
StorePlanAnyWrong(r) == [cached EXCEPT !["plan"] = {[excerpts |-> excerpts, requirement |-> r]}]
StorePlan(r) ==
    IF r.by \in {"model", "account"} \/ turn'.kind # "" \/ excerpts["executable"] = <<>> THEN cached
    ELSE [cached EXCEPT !["plan"] = {[excerpts |-> excerpts, requirement |-> r]}]
Reasoned(kind, r) ==
    /\ turn.at = "reasoning"
    /\ turn' = [turn EXCEPT !.at = "agreed", !.kind = kind]
    /\ requirement' = r
    /\ cached' = StorePlan(r)
    /\ UNCHANGED <<excerpts, found>>
NothingRetrieved == excerpts["executable"] = <<>> /\ Reasoned("", Blocked("data"))
ModelFailsAlikeWrong(kind) ==
    /\ excerpts["executable"] # <<>>
    /\ Reasoned(kind, Blocked("model"))
ModelFails(kind) ==
    /\ excerpts["executable"] # <<>>
    /\ Reasoned(kind, Blocked(IF kind \in Terminal THEN "account" ELSE "model"))
Derives(p) == excerpts["executable"] # <<>> /\ Reasoned("", BuildRequirement(p, turn.servable))

\* _revise_uncached: a revision that fails leaves the proposal, with a warning
ReviseDegradesWrong(answer) ==
    /\ turn.at = "agreed" /\ turn.revised = 0 /\ requirement.by = Nothing
    /\ turn' = [turn EXCEPT !.revised = 1, !.kind = IF answer = {} THEN "schema" ELSE ""]
    /\ requirement' = IF answer = {} THEN Blocked("model") ELSE BuildRequirement(CHOOSE p \in answer : TRUE, turn.servable)
    /\ UNCHANGED <<excerpts, found, cached>>
Revise(answer) ==
    /\ turn.at = "agreed" /\ turn.revised = 0 /\ requirement.by = Nothing
    /\ turn' = [turn EXCEPT !.revised = 1, !.kind = IF answer = {} THEN "schema" ELSE ""]
    /\ requirement' = IF answer = {} THEN [requirement EXCEPT !.warned = @ \cup {"stands"}]
                      ELSE BuildRequirement(CHOOSE p \in answer : TRUE, turn.servable)
    /\ UNCHANGED <<excerpts, found, cached>>

EndTurn ==
    /\ turn.at = "agreed"
    /\ turn' = [turn EXCEPT !.at = "idle"]
    /\ excerpts' = [c \in Corpora |-> <<>>] /\ requirement' = Blocked("data")
    /\ UNCHANGED <<found, cached>>

TurnNext ==
    \/ \E b \in BOOLEAN : BeginTurn(b)
    \/ \E c \in Corpora : FromCache(c) \/ \E h \in Hits \cup {<<>>} : Query(c, h)
    \/ NothingRetrieved \/ \E k \in Kinds : ModelFails(k)
    \/ \E p \in Payloads : Derives(p) \/ Revise({p})
    \/ Revise({}) \/ EndTurn

(* ---- validate_result ---------------------------------------------------- *)
\* a term that was agreed must be reported, in whatever spelling; one that was not is skipped
Fails(expected, actual) == expected.is # Nothing /\ expected.n # actual.n

Mismatches(r) ==
    IF ~r.ran THEN IF r.agreed.tool # Nothing THEN {"nothing"} ELSE {}
    ELSE (IF r.error THEN {"error"} ELSE {})
         \cup (IF r.agreed.tool # Nothing /\ r.agreed.tool # r.tool THEN {"tool"} ELSE {})
         \cup {k \in DOMAIN r.agreed.terms : Fails(r.agreed.terms[k], r.terms[k])}

WrongDay(r) == r.agreed.day # 0 /\ r.delivered # 0 /\ r.agreed.day # r.delivered

\* the look-back and the units are worth a warning only, and not of an empty result
Doubts(r) ==
    IF ~r.ran THEN {}
    ELSE (IF r.agreed.rows # 0 /\ r.days # 0 /\ r.agreed.rows # r.days THEN {"lookback"} ELSE {})
         \cup (IF ~r.error /\ ~r.units THEN {"units"} ELSE {})

\* _interpret: the model is asked only where the checks left something to say
Reading(v, answered) ==
    CASE v = "INVALID" -> "mismatches"
      [] v = "VALID"   -> "agreed plan"
      [] OTHER               -> IF answered THEN "model" ELSE "agreed plan"

Verdict(wrong, doubtful) == IF wrong THEN "INVALID" ELSE IF doubtful THEN "VALID_WITH_WARNINGS" ELSE "VALID"
ValidateAnyDayWrong(r, answered) ==
    LET v == Verdict(Mismatches(r) # {}, Doubts(r) # {})
    IN  [result |-> r, verdict |-> v, reading |-> Reading(v, answered)]
ValidateResult(r, answered) ==
    LET v == Verdict(Mismatches(r) # {} \/ WrongDay(r), Doubts(r) # {})
    IN  [result |-> r, verdict |-> v, reading |-> Reading(v, answered)]

State(raw) == stated = CalculationParams(raw)
Judge(r, answered) == validated = ValidateResult(r, answered)

ExpertInit == TurnInit /\ (\E raw \in RawParams : State(raw)) /\ (\E r \in Results, b \in BOOLEAN : Judge(r, b))
ExpertNext == TurnNext /\ UNCHANGED <<stated, validated>>
ExpertSpec == ExpertInit /\ [][ExpertNext]_expertVars

-----------------------------------------------------------------------------
(* Properties                                                              *)

\* The shape of the state: what was found belongs to a corpus whose second query is to come.
ExpertTypeOK ==
    /\ turn.at \in {"idle", "reference1", "reference2", "executable1", "executable2", "reasoning", "agreed"}
    /\ found # <<>> => turn.at \in {"reference2", "executable2"}
    /\ turn.at = "idle" => \A c \in Corpora : excerpts[c] = <<>>
    /\ requirement.by \in {Nothing, "data", "model", "account"}

\* Two queries may find the same chunk, at two distances: it is kept once, at the smaller, the
\* nearest come first, and the reference corpus never exceeds its share of the prompt
\* (domain_expert_agent.py:636-675, 634).
BestSightings ==
    /\ Len(excerpts["reference"]) <= MaxReference
    /\ turn.at \in {"reference2", "executable2"} => \A hits \in Hits :
           LET list == Retrieved("executable", MergeHits(found, hits))
               all  == Range(found) \cup Range(hits)
           IN  /\ {list[i].id : i \in DOMAIN list} = {h.id : h \in all}
               /\ \A i, j \in DOMAIN list : i < j => list[i].id # list[j].id /\ list[i].dist <= list[j].dist
               /\ \A i \in DOMAIN list : \A h \in all : h.id = list[i].id => list[i].dist <= h.dist

\* A number of rows stands only on a sentence of the executable corpus that this turn has before
\* it, also when plan and chunks come from the cache and after every revision: never on the
\* reference corpus and never on what a model recalls (domain_expert_agent.py:508-520, 936-955).
RowsHaveTheirSource == requirement.rows => requirement.quote \in {c.id : c \in Range(excerpts["executable"])}

\* Why there is no requirement is told as it was: the account, the model or the data; and with
\* one, the user is refused only where nothing they asked for can be served
\* (domain_expert_agent.py:795-808, 1190-1238).
ReasonIsTrue ==
    turn.at = "agreed" /\ turn.revised = 0 =>
        /\ requirement.by = "account" <=> turn.kind \in Terminal
        /\ requirement.by = "model"   <=> turn.kind \in Kinds \ Terminal
        /\ requirement.by = "data"    <=> excerpts["executable"] = <<>>
        /\ requirement.by = Nothing /\ ~requirement.answerable => ~requirement.calculation

\* What the cache returns to a later turn was neither made by a failure nor of nothing
\* (domain_expert_agent.py:560, 608, 752-757).
FailureIsNotCached ==
    /\ \A c \in Corpora : <<>> \notin cached[c]
    /\ \A plan \in cached["plan"] : plan.requirement.by = Nothing /\ plan.excerpts["executable"] # <<>>

\* A revision that gets no answer leaves every term of the plan as it was grounded
\* (domain_expert_agent.py:872-881).
FailedRevisionStands ==
    [][turn'.revised > turn.revised /\ turn'.kind # "" =>
           \A k \in {"by", "answerable", "calculation", "rows", "quote"} : requirement'[k] = requirement[k]]_expertVars

\* A parameter is used as it was stated, within its meaning, or not at all; a list of losses
\* never loses an entry in its middle (domain_expert_agent.py:1107-1187).
NothingClamped ==
    /\ \A k \in DOMAIN stated.kept :
           /\ stated.kept[k] = stated.raw[k].n
           /\ k \in DOMAIN NumberRules  => Within(NumberRules[k], stated.kept[k])
           /\ k \in DOMAIN IntegerRules => Within(IntegerRules[k], stated.kept[k])
    /\ IsPrefix(stated.losses, stated.raw.losses)
    /\ \A i \in DOMAIN stated.losses : stated.losses[i].n > 0

\* A number or a word that was stated and is not used is in a warning; one that is used is in
\* none (domain_expert_agent.py:1131-1139).
DroppedIsSaid ==
    /\ \A k \in Said(stated.raw) : (k \in stated.warned) <=> (k \notin DOMAIN stated.kept)
    /\ "losses" \in stated.warned <=> (stated.raw.losses # <<>> /\ stated.losses = <<>>)

\* A result that is let through ran what was agreed, without an error, on every term that was
\* agreed and on the day that was; the model words it only when a warning is left
\* (domain_expert_agent.py:1262-1371).
ValidMeansAgreed ==
    LET r == validated.result
    IN  /\ validated.verdict # "INVALID" =>
               /\ r.agreed.tool # Nothing => r.ran /\ r.tool = r.agreed.tool
               /\ r.ran => ~r.error /\ \A k \in DOMAIN r.agreed.terms : ~Fails(r.agreed.terms[k], r.terms[k])
               /\ r.agreed.day # 0 => r.delivered \in {0, r.agreed.day}
        /\ validated.reading = "model" => validated.verdict = "VALID_WITH_WARNINGS"

\* A requirement rests on what was retrieved, a failure is told and not stored, parameters are
\* taken as stated, and a result passes only as it was agreed (domain_expert_agent.py:520-1371).
RequirementHolds == [](ExpertTypeOK /\ BestSightings /\ RowsHaveTheirSource /\ ReasonIsTrue /\ FailureIsNotCached
                       /\ NothingClamped /\ DroppedIsSaid /\ ValidMeansAgreed) /\ FailedRevisionStands
=============================================================================
