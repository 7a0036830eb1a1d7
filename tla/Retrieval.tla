----------------------------- MODULE Retrieval -----------------------------
(***************************************************************************)
(* How one agreed requirement becomes a table: McpAgent._execute           *)
(* (agents/mcp_agent.py) over McpDataProvider (backend/providers/mcp.py)   *)
(* over the queries of the data server (mcp_servers/data), which run one   *)
(* by one without a transaction, beside a loader that replaces the rows.   *)
(* A rate is abstracted to the vintage of the files it was loaded from, 0  *)
(* is no row, and the snapshot id to the vintage that is registered.       *)
(***************************************************************************)
EXTENDS Integers, FiniteSets, FiniteSetsExt

CONSTANTS LastDay,       \* the days are 1..LastDay
          Holiday,       \* a day on which nothing is published
          Vintages,      \* bound: the vintages of the files are 1..Vintages
          Lookback,      \* the default window of a history: 365 days in the code
          PageRows,      \* rows of a page: 500
          RowCap,        \* rows after which no page follows: 2000
          SampleRows,    \* SAMPLE_ROWS
          MaxTasks       \* bound

ASSUME RetrievalAssumption ==
    /\ {LastDay, Vintages, Lookback, PageRows, RowCap, SampleRows} \subseteq Nat \ {0}
    /\ Holiday \in Nat /\ MaxTasks \in Nat
    /\ \E d \in 1..LastDay \ {Holiday} : d <= LastDay - Vintages + 1    \* the first vintage has a day

VARIABLES core,       \* the views on treasury.observation: for each curve the vintage of each day
          registered, \* meta.source_file: the vintage behind snapshot_id
          loading,    \* the curves that a load has still to rewrite
          catalogue,  \* _series_cache: whether it is there, and each curve's last observation
          task,       \* the requirement under way and what has come of it
          tasks       \* bound
retVars == <<core, registered, loading, catalogue, task, tasks>>

Days  == 1..LastDay
Kinds == {"nominal", "real"}
Published(v) == {d \in Days \ {Holiday} : d <= LastDay - Vintages + v}
RowsOf(v) == [d \in Days |-> IF d \in Published(v) THEN v ELSE 0]
Has(f)    == {d \in Days : core[f][d] # 0}
Latest(f) == IF Has(f) = {} THEN 0 ELSE Max(Has(f))

\* The requirement: rows = 0 is None, a day = 0 is None; shared says whether some of its tenors
\* are published on both curves.
Requirements ==
    [family : {"ambiguous"}, shared : BOOLEAN, tenors : {1}, rows : {1, 3}, asof : {0},
     from : {0}, to : {0}]
    \cup [family : Kinds, shared : {TRUE}, tenors : {1, 2}, rows : {0, 1, 3}, asof : {0},
          from : {0, 2}, to : {0, LastDay}]
    \cup [family : Kinds, shared : {TRUE}, tenors : {1}, rows : {1, 3}, asof : Days,
          from : {0}, to : {0}]
Wanted     == IF task.req.rows = 0 THEN SampleRows ELSE task.req.rows
IsSnapshot == Wanted <= 1 \/ task.req.asof # 0

NoTask == [at |-> "idle", req |-> [family |-> "nominal", shared |-> FALSE, tenors |-> 1, rows |-> 0,
              asof |-> 0, from |-> 0, to |-> 0],
           answer |-> "none", family |-> "none", asked |-> FALSE, left |-> 0, from |-> 0, to |-> 0,
           cursor |-> 0, got |-> {}, rows |-> {}, day |-> 0, id |-> 0, outcome |-> "none",
           blind |-> FALSE, whole |-> TRUE, calm |-> TRUE, steady |-> TRUE]
Do(changes)     == task' = [x \in DOMAIN task |-> IF x \in DOMAIN changes THEN changes[x] ELSE task[x]]
End(outcome)    == Do([at |-> "done", outcome |-> outcome])
Using(kind)     == Do([at |-> "table", family |-> kind])
Raise           == End("raised") /\ UNCHANGED catalogue

RetInit == /\ core \in [Kinds -> {RowsOf(1), [d \in Days |-> 0]}] /\ core["real"] = core["nominal"]
           /\ registered = 1 /\ loading = {}
           /\ \E last \in {0} \cup {Max(Published(1))} :   \* read before, perhaps during a load
                 catalogue \in [there : BOOLEAN, last : {[f \in Kinds |-> last]}]
           /\ task = NoTask /\ tasks = 0

\* execute, with the reply to an earlier question if there is one
Begin_(req, answer) == /\ task.at \in {"idle", "done"} /\ tasks < MaxTasks
                       /\ task' = [NoTask EXCEPT !.at = "family", !.req = req, !.answer = answer]
                       /\ tasks' = tasks + 1 /\ UNCHANGED catalogue

-----------------------------------------------------------------------------
(* _resolve_family and the catalogue, which is read once in the process.   *)

StatedFamily == /\ task.at = "family" /\ task.req.family \in Kinds
                /\ Using(task.req.family) /\ UNCHANGED catalogue

NeedsCatalogue == \/ task.at = "family" /\ task.req.family = "ambiguous"
                  \/ task.at = "tenor"
ReadCatalogue == /\ NeedsCatalogue /\ ~catalogue.there
                 /\ catalogue' = [there |-> TRUE, last |-> [f \in Kinds |-> Latest(f)]]
                 /\ UNCHANGED task
\* A page of it fails: _shared_tenors then finds none, and _history goes on without the tenor.
CatalogueFails == /\ NeedsCatalogue /\ ~catalogue.there
                  /\ IF task.at = "family" THEN Do([at |-> "table", family |-> "nominal", blind |-> TRUE])
                     ELSE Do([at |-> "next", whole |-> FALSE, got |-> {}])
                  /\ UNCHANGED catalogue

Ambiguous     == task.at = "family" /\ task.req.family = "ambiguous" /\ catalogue.there
NothingShared == Ambiguous /\ ~task.req.shared /\ Using("nominal") /\ UNCHANGED catalogue

\* search_series asks which curve is meant, and the relay answers with the user's reply ...
SearchAnswered == /\ Ambiguous /\ task.req.shared /\ task.answer # "none"
                  /\ Using(task.answer) /\ UNCHANGED catalogue

SearchForgets == /\ Ambiguous /\ task.req.shared /\ task.answer = "none"
                 /\ Using("nominal") /\ UNCHANGED catalogue

\* ... or records the question and declines; the work goes on with the nominal curve.
SearchAsks == /\ Ambiguous /\ task.req.shared /\ task.answer = "none"
              /\ Do([at |-> "table", family |-> "nominal", asked |-> TRUE])
              /\ UNCHANGED catalogue
\* It fails, or finds series of one kind only.
SearchFails == /\ Ambiguous /\ task.req.shared
               /\ Do([at |-> "table", family |-> "nominal", blind |-> TRUE]) /\ UNCHANGED catalogue
SearchRaises == Ambiguous /\ task.req.shared /\ Raise

-----------------------------------------------------------------------------
(* get_curve: of the day that was asked for, or the latest; for a snapshot,*)
(* and after a history for its quoting basis.                              *)

Choose == /\ task.at = "table"
          /\ IF IsSnapshot THEN Do([at |-> "date"]) ELSE Do([at |-> "tenor", left |-> task.req.tenors])
          /\ UNCHANGED catalogue

\* The queries of one look-up are autocommitted: a load may commit between any two of them.
\* A curve without any row has none, and the coverage is not checked.
Within(day) == Min(Has(task.family)) <= day /\ day <= Max(Has(task.family))
CurveBounds == /\ task.at = "date"
               /\ task.req.asof # 0 /\ Has(task.family) # {} => Within(task.req.asof)
               /\ Do([at |-> "exact", steady |-> TRUE])
               /\ UNCHANGED catalogue
\* resolve_curve_date with the policy `previous`: the latest day, or the very day ...
CurveExact == /\ task.at = "exact" /\ (task.req.asof = 0 => Has(task.family) # {})
              /\ IF task.req.asof = 0 THEN Do([at |-> "rows", day |-> Latest(task.family)])
                 ELSE IF task.req.asof \in Has(task.family)
                      THEN Do([at |-> "rows", day |-> task.req.asof]) ELSE Do([at |-> "previous"])
              /\ UNCHANGED catalogue
AfterDay(day) == {d \in Has(task.family) : d > day}
CurveNext == /\ task.at = "previous" /\ AfterDay(task.req.asof) # {}
             /\ Do([at |-> "rows", day |-> Min(AfterDay(task.req.asof))])
             /\ UNCHANGED catalogue
\* ... or, in a query of its own, the last one before it.
BeforeDay(day) == {d \in Has(task.family) : d < day}
CurvePrevious == /\ task.at = "previous" /\ BeforeDay(task.req.asof) # {}
                 /\ Do([at |-> "rows", day |-> Max(BeforeDay(task.req.asof))])
                 /\ UNCHANGED catalogue
\* A day outside the coverage, or no curve at all; or the call fails.  A snapshot is refused, a
\* history goes without basis and snapshot id.
CurveFails == /\ task.at \in {"date", "exact", "previous"}
              /\ IF IsSnapshot THEN End("refused") ELSE End("served")
              /\ UNCHANGED catalogue
CurveRaises == task.at \in {"date", "exact", "previous", "rows", "id"} /\ Raise
CurveRowsAnyway == /\ task.at = "rows"
                   /\ Do([at |-> "id",
                          rows |-> IF ~IsSnapshot THEN task.rows
                                   ELSE {[day |-> task.day, tenor |-> 1,
                                          vintage |-> core[task.family][task.day]]}])
                   /\ UNCHANGED catalogue
CurveRows == /\ task.at = "rows"
             /\ Do([at |-> "id",
                    rows |-> IF ~IsSnapshot THEN task.rows
                             ELSE {[day |-> d, tenor |-> 1, vintage |-> core[task.family][d]] :
                                      d \in {task.day} \cap Has(task.family)}])
             /\ UNCHANGED catalogue
CurveIdCached == /\ task.at = "id"
                 /\ Do([at |-> "done", outcome |-> "served",
                        id |-> IF catalogue.there THEN 1 ELSE registered])
                 /\ UNCHANGED catalogue
\* _envelope is computed after the rows were read.
CurveId == /\ task.at = "id" /\ Do([at |-> "done", outcome |-> "served", id |-> registered])
           /\ UNCHANGED catalogue

-----------------------------------------------------------------------------
(* _history: one tenor after another, each page by page.                   *)

EndOf(f) == IF task.req.to # 0 THEN task.req.to ELSE catalogue.last[f]
StartOf(f) == IF task.req.from # 0 THEN task.req.from
              ELSE IF EndOf(f) > Lookback THEN EndOf(f) - Lookback ELSE 1
Tenor == /\ task.at = "tenor" /\ catalogue.there
         /\ IF EndOf(task.family) # 0 /\ StartOf(task.family) <= EndOf(task.family)
            THEN Do([at |-> "page", from |-> StartOf(task.family), to |-> EndOf(task.family),
                     cursor |-> 0, got |-> {}])
            ELSE Do([at |-> "next", whole |-> FALSE, got |-> {}])
         /\ UNCHANGED catalogue

FirstRows(n, set) == {d \in set : Cardinality({e \in set : e <= d}) <= n}
LastRows(n, set)  == {d \in set : Cardinality({e \in set : e >= d}) <= n}
\* rate_history: in the order of the days, after the key in the cursor
AfterCursor(set) == {d \in set : d > task.cursor}
Page == /\ task.at = "page"
        /\ LET left == AfterCursor({d \in Has(task.family) : task.from <= d /\ d <= task.to})
               page == FirstRows(PageRows, left)
               got  == task.got \cup {[day |-> d, tenor |-> task.left, vintage |-> core[task.family][d]] :
                                         d \in page}
           IN IF page # left /\ Cardinality(got) < RowCap
              THEN Do([got |-> got, cursor |-> Max(page)])
              ELSE Do([at |-> "next", got |-> got])
        /\ UNCHANGED catalogue
\* One failed page, and the tenor comes without any row.
PageFails == /\ task.at = "page" /\ Do([at |-> "next", whole |-> FALSE, got |-> {}])
             /\ UNCHANGED catalogue

WindowOldest(rows) == {r \in rows : r.day \in FirstRows(Wanted, {s.day : s \in rows})}
\* "A window is the N most recent observations, not the first N returned."
Window(rows) == {r \in rows : r.day \in LastRows(Wanted, {s.day : s \in rows})}
NextTenor ==
    /\ task.at = "next"
    /\ LET rows == task.rows \cup task.got IN
       IF task.left > 1 THEN Do([at |-> "tenor", left |-> task.left - 1, rows |-> rows])
       ELSE IF rows = {} /\ (task.req.from # 0 \/ task.req.to # 0)
            THEN Do([at |-> "done", outcome |-> "refused", rows |-> {}])
       ELSE Do([at |-> "date", left |-> 0, rows |-> Window(rows)])
    /\ UNCHANGED catalogue

TaskStep == \/ StatedFamily \/ ReadCatalogue \/ CatalogueFails \/ NothingShared
            \/ SearchAnswered \/ SearchAsks \/ SearchFails \/ SearchRaises
            \/ Choose \/ CurveBounds \/ CurveExact \/ CurvePrevious \/ CurveFails \/ CurveRaises \/ CurveRows \/ CurveId
            \/ Tenor \/ Page \/ PageFails \/ NextTenor

-----------------------------------------------------------------------------
(* The loader beside it (see Loader): the files are registered, a full     *)
(* load empties the table, each dataset is rewritten, or the load fails.   *)

LoadStep(table, vintage, left) ==
    /\ core' = table /\ registered' = vintage /\ loading' = left
    /\ Do([calm |-> FALSE, steady |-> task.steady /\ task.at \notin {"exact", "previous"}])
    /\ UNCHANGED <<catalogue, tasks>>
Register == /\ loading = {} /\ registered < Vintages /\ LoadStep(core, registered + 1, Kinds)
Truncate_ == /\ loading = Kinds
             /\ LoadStep([f \in Kinds |-> [d \in Days |-> 0]], registered, loading)
Rewrite(f) == /\ f \in loading
              /\ LoadStep([core EXCEPT ![f] = RowsOf(registered)], registered, loading \ {f})
LoadFails == loading # {} /\ LoadStep(core, registered, {})

RetNext == \/ TaskStep /\ UNCHANGED <<core, registered, loading, tasks>>
           \/ \E req \in Requirements, answer \in Kinds \cup {"none"} :
                 /\ req.family # "ambiguous" => answer = "none"
                 /\ Begin_(req, answer) /\ UNCHANGED <<core, registered, loading>>
           \/ Register \/ Truncate_ \/ LoadFails \/ \E f \in Kinds : Rewrite(f)

-----------------------------------------------------------------------------
(* What is checked.                                                        *)

Served == task.at = "done" /\ task.outcome = "served"
DaysOf(rows) == {r.day : r \in rows}

\* A curve is never chosen for the user: a table that is served without a pending question is of
\* the curve that was stated or answered, unless no maturity was on both or the look-up failed.
CurveIsTheUsers == Served /\ ~task.asked /\ ~task.blind =>
    \/ task.family = task.req.family
    \/ task.req.family = "ambiguous" /\ (task.family = task.answer \/ ~task.req.shared)

\* The curve of a requested day is one that was published, of that day or an earlier one.  Where
\* no load committed between the queries of the look-up it is that day's or, on a day without one,
\* the one before it, and a day outside the coverage is refused.  (A load between them can make it
\* an earlier day's than need be: the rows are there again when the second query looks.)
DayIsRight == Served /\ task.req.asof # 0 =>
    \E v \in 1..registered :
        /\ task.day \in Published(v) /\ task.day <= task.req.asof
        /\ task.steady => /\ task.req.asof \in Min(Published(v))..Max(Published(v))
                          /\ task.day = Max({d \in Published(v) : d <= task.req.asof})

\* No row is newer than the snapshot id that is stated for it, so that what is cached under an id
\* is never newer than the id, although rows and id come from different queries.
NeverNewerThanItsId == Served /\ task.id # 0 => \A r \in task.rows : r.vintage <= task.id

\* A history whose calls all worked and that no load disturbed is the most recent days of its
\* period, all tenors of them, provided that it does not reach the row cap and the catalogue was
\* not read before a load.
Period == {d \in Has(task.family) : task.from <= d /\ d <= task.to}
HistoryIsRecent ==
    Served /\ ~IsSnapshot /\ task.whole /\ task.calm /\ Cardinality(Period) <= RowCap =>
        /\ DaysOf(task.rows) = LastRows(Wanted, Period)
        /\ \A d \in DaysOf(task.rows), t \in 1..task.req.tenors :
              \E r \in task.rows : r.day = d /\ r.tenor = t
        /\ task.req.to = 0 /\ catalogue.last[task.family] = Latest(task.family) =>
              Latest(task.family) \in DaysOf(task.rows)

RetTypeOK == /\ core \in [Kinds -> [Days -> 0..Vintages]] /\ registered \in 1..Vintages
             /\ loading \subseteq Kinds /\ catalogue.last \in [Kinds -> 0..LastDay]
             /\ task.rows \cup task.got \subseteq [day : Days, tenor : 1..2, vintage : 1..Vintages]
             /\ task.day \in 0..LastDay /\ task.id \in 0..Vintages
             /\ task.family \in Kinds \cup {"none"}
             /\ task.outcome \in {"none", "served", "refused", "raised"}

\* The table a requirement becomes is of the curve, the day and the days the user meant, and of
\* the load its id names (server.py:300-470, repository.py:120-200).
TableIsTheUsers == RetTypeOK /\ CurveIsTheUsers /\ DayIsRight /\ NeverNewerThanItsId /\ HistoryIsRecent
=============================================================================
