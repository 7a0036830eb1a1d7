----------------------------- MODULE FeedTable ------------------------------
(***************************************************************************)
(* What data/acquisition/download_us_treasury.py knows of the feeds.  Its  *)
(* calendar, which only detects gaps: the days on which the Treasury is    *)
(* expected to publish; days are numbers of Gregorian, and one after       *)
(* another is looked at.                                                   *)
(*                                                                         *)
(* And what it makes of the feeds of one dataset: each year's answer is    *)
(* parsed, the years are put into one table without exact duplicates, and  *)
(* the table is validated and profiled.  A property of an entry is a       *)
(* record [name, edm, text, n]: its declared type and whether its text is  *)
(* missing, good or bad; n tells texts apart.                              *)
(***************************************************************************)
EXTENDS Gregorian, FiniteSets, Sequences, SequencesExt, FiniteSetsExt

CONSTANTS FirstYear, LastYear,     \* the years looked at
          SpecialClosures          \* KNOWN_SPECIAL_CLOSURES, as days

ASSUME CalendarAssumption == FirstYear \in Int /\ LastYear \in Int

VARIABLES looked, within           \* the day, and its year
calVars == <<looked, within>>

Monday == 0
Thursday == 3
Saturday == 5
Sunday == 6

\* _nth_weekday: the n-th of a weekday in a month, the last for n = -1.
NthWeekday(y, m, weekday, n) ==
    LET first == Day(<<y, m, 1>>)
        last  == (IF m = 12 THEN Day(<<y + 1, 1, 1>>) ELSE Day(<<y, m + 1, 1>>)) - 1
    IN  IF n > 0 THEN first + ((weekday - Weekday(first)) % 7) + 7 * (n - 1)
        ELSE last - ((Weekday(last) - weekday) % 7)

\* _observed: a holiday on a weekend is kept on the Friday or Monday beside it.
Observed(day) == CASE Weekday(day) = Saturday -> day - 1
                   [] Weekday(day) = Sunday   -> day + 1
                   [] OTHER                   -> day

\* Each definition named ...Wrong is a mutation of the one that follows it and is part of no
\* behaviour: it shows that some property notices the bug.
EasterNoCenturyWrong(y) ==
    LET h == (19 * (y % 19) + 15) % 30
        l == (32 + 2 * ((y % 100) \div 4) - h - ((y % 100) % 4)) % 7
        n == h + l + 114
    IN  Day(<<y, n \div 31, (n % 31) + 1>>)

\* easter_sunday, the anonymous computus, letter for letter
Easter(y) ==
    LET a == y % 19
        b == y \div 100
        c == y % 100
        d == b \div 4
        e == b % 4
        f == (b + 8) \div 25
        g == (b - f + 1) \div 3
        h == (19 * a + b - d - g + 15) % 30
        l == (32 + 2 * e + 2 * (c \div 4) - h - (c % 4)) % 7
        m == (a + 11 * h + 22 * l) \div 451
        n == h + l - 7 * m + 114
    IN  Day(<<y, n \div 31, (n % 31) + 1>>)

FederalHolidaysOfTheYearWrong(y) ==
    {Observed(Day(<<y, 1, 1>>)), NthWeekday(y, 1, Monday, 3), NthWeekday(y, 2, Monday, 3),
     NthWeekday(y, 5, Monday, -1), Observed(Day(<<y, 7, 4>>)), NthWeekday(y, 9, Monday, 1),
     NthWeekday(y, 10, Monday, 2), Observed(Day(<<y, 11, 11>>)), NthWeekday(y, 11, Thursday, 4),
     Observed(Day(<<y, 12, 25>>))}
    \cup (IF y >= 2021 THEN {Observed(Day(<<y, 6, 19>>))} ELSE {})

\* us_federal_holidays: from 2021 with Juneteenth, and with the New Year's Day of the next year
\* where that is kept on the 31st of December
FederalHolidays(y) ==
    {Observed(Day(<<y, 1, 1>>)), NthWeekday(y, 1, Monday, 3), NthWeekday(y, 2, Monday, 3),
     NthWeekday(y, 5, Monday, -1), Observed(Day(<<y, 7, 4>>)), NthWeekday(y, 9, Monday, 1),
     NthWeekday(y, 10, Monday, 2), Observed(Day(<<y, 11, 11>>)), NthWeekday(y, 11, Thursday, 4),
     Observed(Day(<<y, 12, 25>>))}
    \cup (IF y >= 2021 THEN {Observed(Day(<<y, 6, 19>>))} ELSE {})
    \cup {day \in {Observed(Day(<<y + 1, 1, 1>>))} : day < Day(<<y + 1, 1, 1>>)}

\* expected_business_days from one day, of the year first, to another, of the year last
ExpectedBusinessDays(start, first, end, last) ==
    LET closed == (UNION {FederalHolidays(y) \cup {Easter(y) - 2} : y \in first..last}) \cup SpecialClosures
    IN  {day \in start..end : Weekday(day) < Saturday /\ day \notin closed}

-----------------------------------------------------------------------------
LookFrom(y) == within = y /\ looked = Day(<<y, 1, 1>>)
CalInit == \E y \in FirstYear..LastYear : LookFrom(y)
CalNextBeyondWrong == looked <= Day(<<within, 12, 31>>) /\ looked' = looked + 1 /\ UNCHANGED within
CalNext == looked < Day(<<within, 12, 31>>) /\ looked' = looked + 1 /\ UNCHANGED within
CalSpec == CalInit /\ [][CalNext]_calVars

-----------------------------------------------------------------------------
(* What is checked.                                                        *)

\* The days of the calendar keep inside their year.
CalTypeOK == /\ within \in FirstYear..LastYear
             /\ looked \in Day(<<within, 1, 1>>)..Day(<<within, 12, 31>>)

\* A federal holiday by the words of the law: a date, or a weekday by its place in the month.
Legal(y, day) ==
    LET On(m, x)    == day = Day(<<y, m, x>>)
        In(m, x, w) == Weekday(day) = w /\ day - Day(<<y, m, x>>) \in 0..6
    IN  \/ On(1, 1) \/ On(7, 4) \/ On(11, 11) \/ On(12, 25) \/ (y >= 2021 /\ On(6, 19))
        \/ day = Day(<<y + 1, 1, 1>>)
        \/ In(1, 15, Monday) \/ In(2, 15, Monday) \/ In(5, 25, Monday)
        \/ In(9, 1, Monday) \/ In(10, 8, Monday) \/ In(11, 22, Thursday)

\* Every day of every year, the last of December included: the day is expected exactly when it is
\* a weekday, no holiday, no Friday before or Monday after one on a weekend, no Good Friday and no
\* recorded closure.
ExpectedIsOpen ==
    looked \in ExpectedBusinessDays(looked, within, looked, within) <=>
       /\ Weekday(looked) \notin {Saturday, Sunday} /\ looked \notin SpecialClosures
       /\ ~Legal(within, looked)
       /\ ~(Weekday(looked) = 4 /\ Legal(within, looked + 1))
       /\ ~(Weekday(looked) = Monday /\ Legal(within, looked - 1))
       /\ looked # Easter(within) - 2

\* The paschal full moon by golden number and epact, as the reform of the calendar defines it.
PaschalMoon(y) ==
    LET golden  == (y % 19) + 1
        century == y \div 100 + 1
        epact   == (11 * golden + 20 + (8 * century + 5) \div 25 - 5 - ((3 * century) \div 4 - 12)) % 30
        moon    == 44 - (IF epact = 24 \/ (epact = 25 /\ golden > 11) THEN epact + 1 ELSE epact)
    IN  Day(<<y, 3, 1>>) - 1 + (IF moon < 21 THEN moon + 30 ELSE moon)

\* Easter is the first Sunday after the paschal full moon, in every year.
EasterAfterTheMoon == /\ Weekday(Easter(within)) = Sunday
                      /\ Easter(within) - PaschalMoon(within) \in 1..7

\* The calendar of the feeds expects the open days and no others (download_us_treasury.py:264-395).
CalendarHolds == CalTypeOK /\ ExpectedIsOpen /\ EasterAfterTheMoon

-----------------------------------------------------------------------------
(* The table of one dataset.                                               *)

CONSTANTS FeedYears,       \* the requested years, a set of consecutive numbers
          Feeds,           \* the yearly a year may get: sequences of entries
          DateField, NaturalKey, Wide,      \* of the DatasetSpec
          FeedToday, RateMin, RateMax, RateJump, SentinelZeroRun

ASSUME FeedAssumption == /\ IsFiniteSet(FeedYears) /\ FeedYears # {} /\ Wide \in BOOLEAN
                         /\ RateMin < RateMax /\ SentinelZeroRun \in Nat

VARIABLES yearly,      \* YearOutcome: by year what was parsed, or that it failed
          dataset,     \* NormalisedDataset
          judged       \* validate_dataset's report
tabVars == <<yearly, dataset, judged>>

Unasked  == [asked |-> FALSE, ok |-> FALSE, records |-> <<>>, order |-> <<>>]
NoTable  == [there |-> FALSE, columns |-> <<>>, rows |-> <<>>, dropped |-> <<>>, errors |-> 0, before |-> 0]
NoReport == [status |-> "none", failed |-> {}, gaps |-> {}, chronological |-> TRUE,
             malformed |-> 0, repeated |-> {}, placeholders |-> {}, added |-> <<>>, removed |-> <<>>]

(* ---- parsing ------------------------------------------------------------ *)
\* parse_feed: an entry without properties is passed over; of a name that comes twice in an entry
\* the later property counts; columns stand in the order in which they are first met.
Properties(entry) == [c \in {entry[i].name : i \in DOMAIN entry} |->
                     entry[Max({i \in DOMAIN entry : entry[i].name = c})]]
InOrder(names) == FoldLeft(LAMBDA met, c : IF Contains(met, c) THEN met ELSE Append(met, c), <<>>, names)
Parsed(feed) ==
    LET entries == SelectSeq(feed, LAMBDA e : e # <<>>)
    IN  [asked |-> TRUE, ok |-> TRUE, records |-> [i \in DOMAIN entries |-> Properties(entries[i])],
         order |-> InOrder(FlattenSeq([i \in DOMAIN entries |->
                              [k \in DOMAIN entries[i] |-> entries[i][k].name]]))]

Null == [kind |-> "null", n |-> 0]
\* normalise_value: a missing token is null and never zero; a text that its declared type cannot
\* read, or that is no date of the calendar, stays a text and is an error.
NormalisedValue(p) ==
    CASE p.text = "missing"                        -> Null
      [] p.text = "good" /\ p.edm = "date"         -> [kind |-> "date", n |-> p.n]
      [] p.text = "good" /\ p.edm \in {"double", "int"} -> [kind |-> "number", n |-> p.n]
      [] OTHER                                     -> [kind |-> "text", n |-> p.n]
IsError(p) == p.text = "bad"

(* ---- the table ---------------------------------------------------------- *)
Populated == {y \in FeedYears : yearly[y].records # <<>>}
Cell(row, c) == IF c \in DOMAIN row.cells THEN row.cells[c] ELSE Null
RowsOf(y) == [i \in DOMAIN yearly[y].records |->
                 [cells  |-> [c \in DOMAIN yearly[y].records[i] |-> NormalisedValue(yearly[y].records[i][c])],
                  source |-> y]]
Ascended(set) == SetToSortSeq(set, <)
AllRows == LET years == Ascended(FeedYears) IN FlattenSeq([k \in DOMAIN years |-> RowsOf(years[k])])
AllColumns == LET years == Ascended(FeedYears)
              IN  InOrder(FlattenSeq([k \in DOMAIN years |-> yearly[years[k]].order]))
ErrorCount ==
    Cardinality(UNION {UNION {{<<y, i, c>> : c \in {x \in Range(AllColumns) \cap DOMAIN yearly[y].records[i] :
                                                            IsError(yearly[y].records[i][x])}}
                              : i \in DOMAIN yearly[y].records} : y \in FeedYears})

\* Two records are one when they agree in every source column; lineage is not compared.
\* Each definition named ...Wrong is a mutation of the one that follows it, as above.
SameByKeyWrong(r, s) == \A i \in DOMAIN NaturalKey : Cell(r, NaturalKey[i]) = Cell(s, NaturalKey[i])
SameRecord(r, s) == \A c \in DOMAIN r.cells \cup DOMAIN s.cells : Cell(r, c) = Cell(s, c)
DeduplicatedSilentlyWrong(rows) ==
    [rows |-> [k \in 1..Cardinality(Range(rows)) |-> SetToSeq(Range(rows))[k]], dropped |-> <<>>]
Deduplicated(rows) ==
    LET First(i) == Min({k \in 1..i : SameRecord(rows[k], rows[i])})
        kept     == Ascended({i \in DOMAIN rows : First(i) = i})
        again    == Ascended({i \in DOMAIN rows : First(i) # i})
    IN  [rows    |-> [k \in DOMAIN kept |-> rows[kept[k]]],
         dropped |-> [k \in DOMAIN again |-> [row |-> rows[again[k]], kept |-> rows[First(again[k])].source]]]

\* sort_key: the natural key as text, null first; what could not be read sorts behind every date.
KeyRank(cell) == CASE cell.kind = "null" -> -1 [] cell.kind = "text" /\ cell.n >= 0 -> 10000000 + cell.n
                [] OTHER -> cell.n
KeyBefore(r, s) == \E i \in DOMAIN NaturalKey :
    /\ KeyRank(Cell(r, NaturalKey[i])) < KeyRank(Cell(s, NaturalKey[i]))
    /\ \A k \in 1..(i - 1) : KeyRank(Cell(r, NaturalKey[k])) = KeyRank(Cell(s, NaturalKey[k]))
SortedByYearWrong(rows) == rows
Sorted(rows) ==
    LET order == SetToSortSeq(DOMAIN rows, LAMBDA i, k : KeyBefore(rows[i], rows[k])
                                                        \/ (~KeyBefore(rows[k], rows[i]) /\ i < k))
    IN  [i \in DOMAIN rows |-> rows[order[i]]]

(* ---- the columns -------------------------------------------------------- *)
Values(c) == [i \in DOMAIN dataset.rows |-> Cell(dataset.rows[i], c)]
NonNull(c) == SelectSeq(Values(c), LAMBDA v : v.kind # "null")
EdmTypes(c) == UNION {{r[c].edm : r \in {q \in Range(yearly[y].records) : c \in DOMAIN q}} : y \in FeedYears}
\* infer_type: the declared types first, then what the values look like
InferType(c) ==
    LET kinds == {v.kind : v \in Range(NonNull(c))}
    IN  CASE "int" \in EdmTypes(c)    -> "integer"
          [] "double" \in EdmTypes(c) -> "numeric"
          [] "date" \in EdmTypes(c) \/ kinds = {"date"} -> "date"
          [] OTHER -> IF kinds = {"number"} THEN "numeric" ELSE "string"
RateColumns == {c \in Range(dataset.columns) : InferType(c) = "numeric"}
NumbersOf(c) == SelectSeq(Values(c), LAMBDA v : v.kind = "number")

\* screen_zero_values: zeros that open a column, enough of them, and none later
SentinelAnyRunWrong(c) ==
    \E k \in SentinelZeroRun..Len(NumbersOf(c)) : k > 0 /\ \A i \in 1..k : NumbersOf(c)[i].n = 0
Sentinel(c) ==
    LET numbers == NumbersOf(c)
        zeros   == {i \in DOMAIN numbers : numbers[i].n = 0}
        leading == {i \in zeros : \A k \in 1..i : k \in zeros}
    IN  zeros # {} /\ Cardinality(leading) >= SentinelZeroRun /\ leading = zeros

\* screen_rate_column: levels out of band and, in a wide table, moves between observations
Flagged(c) ==
    LET numbers == NumbersOf(c)
        level   == {i \in DOMAIN numbers : numbers[i].n < RateMin \/ numbers[i].n > RateMax}
        Move(i) == numbers[i].n - numbers[i - 1].n
        jumps   == {i \in 2..Len(numbers) : Move(i) > RateJump \/ -Move(i) > RateJump}
    IN  IF Wide THEN Cardinality(level) + Cardinality(jumps) ELSE Cardinality(level)

(* ---- validation --------------------------------------------------------- *)
DateOf(row)  == Cell(row, DateField)
Malformed(row) == DateOf(row).kind # "date"
Dates        == LET sound == SelectSeq(dataset.rows, LAMBDA r : ~Malformed(r))
                IN  [i \in DOMAIN sound |-> DateOf(sound[i]).n]
FailedYears  == {y \in FeedYears : ~yearly[y].ok}
GapsEndlessWrong == {}
Gaps == IF Dates = <<>> THEN {}
        ELSE ExpectedBusinessDays(Min(Range(Dates)), Min(FeedYears), Max(Range(Dates)), Max(FeedYears))
             \ Range(Dates)
KeyOf(row)   == [i \in DOMAIN NaturalKey |-> Cell(row, NaturalKey[i])]
Repeated     == {KeyOf(dataset.rows[p[1]]) : p \in {q \in (DOMAIN dataset.rows) \X (DOMAIN dataset.rows) :
                    q[1] < q[2] /\ KeyOf(dataset.rows[q[1]]) = KeyOf(dataset.rows[q[2]])}}
Chronological == \A i, k \in DOMAIN Dates : i < k => Dates[i] <= Dates[k]
Errors == {e \in {"failed", "empty", "malformed", "order", "future", "numeric", "parse"} :
    CASE e = "failed"    -> FailedYears # {}
      [] e = "empty"     -> dataset.rows = <<>>
      [] e = "malformed" -> \E r \in Range(dataset.rows) : Malformed(r)
      [] e = "order"     -> ~Chronological
      [] e = "future"    -> \E d \in Range(Dates) : d > FeedToday
      [] e = "numeric"   -> \E c \in Range(dataset.columns) : /\ InferType(c) \in {"numeric", "integer"}
                                                           /\ \E v \in Range(NonNull(c)) : v.kind # "number"
      [] e = "parse"     -> dataset.errors > 0}
Warnings == {w \in {"years", "gaps", "weekend", "keys", "duplicates", "null", "rates", "zeros"} :
    CASE w = "years"      -> \E y \in FeedYears : yearly[y].ok /\ yearly[y].records = <<>>
      [] w = "gaps"       -> Gaps # {}
      [] w = "weekend"    -> \E d \in Range(Dates) : Weekday(d) >= Saturday
      [] w = "keys"       -> Repeated # {}
      [] w = "duplicates" -> dataset.dropped # <<>>
      [] w = "null"       -> dataset.rows # <<>> /\ \E c \in Range(dataset.columns) : NonNull(c) = <<>>
      [] w = "rates"      -> \E c \in RateColumns : Flagged(c) > 0
      [] w = "zeros"      -> \E c \in RateColumns : Sentinel(c)}

\* schema_timeline: what comes and goes from one populated year to the next
ColumnsIn(y) == UNION {DOMAIN r : r \in Range(yearly[y].records)}
PreviousOfAllWrong(y) == {x \in FeedYears : x < y}
\* The year before, among those that have records.
PreviousOf(y) == {x \in Populated : x < y}
Before(y) == IF PreviousOf(y) = {} THEN {} ELSE ColumnsIn(Max(PreviousOf(y)))
AddedIn   == [y \in Populated |-> ColumnsIn(y) \ Before(y)]
RemovedIn == [y \in Populated |-> Before(y) \ ColumnsIn(y)]

-----------------------------------------------------------------------------
Empty == yearly = [y \in FeedYears |-> Unasked] /\ dataset = NoTable /\ judged = NoReport
TabInit == Empty

Answered(y, feed) == /\ ~yearly[y].asked /\ \A x \in FeedYears : x < y => yearly[x].asked
                     /\ yearly' = [yearly EXCEPT ![y] = Parsed(feed)]
                     /\ UNCHANGED <<dataset, judged>>
NotAnswered(y)    == /\ ~yearly[y].asked /\ \A x \in FeedYears : x < y => yearly[x].asked
                     /\ yearly' = [yearly EXCEPT ![y].asked = TRUE]
                     /\ UNCHANGED <<dataset, judged>>

\* normalise, once there is anything to carry
Normalise == /\ ~dataset.there /\ \A y \in FeedYears : yearly[y].asked
             /\ LET unique == Deduplicated(AllRows) IN
                dataset' = [there |-> TRUE, rows |-> Sorted(unique.rows), dropped |-> unique.dropped,
                          columns |-> <<DateField>> \o SelectSeq(AllColumns, LAMBDA c : c # DateField),
                          errors |-> ErrorCount, before |-> Len(AllRows)]
             /\ UNCHANGED <<yearly, judged>>

\* validate_dataset and build_schema_report
Validate == /\ dataset.there /\ judged.status = "none"
            /\ judged' = [status |-> IF Errors # {} THEN "FAIL" ELSE IF Warnings # {} THEN "WARNING" ELSE "PASS",
                          failed |-> FailedYears, gaps |-> Gaps, chronological |-> Chronological,
                          malformed |-> Len(dataset.rows) - Len(Dates), repeated |-> Repeated,
                          placeholders |-> {c \in RateColumns : Sentinel(c)},
                          added |-> AddedIn, removed |-> RemovedIn]
            /\ UNCHANGED <<yearly, dataset>>

TabNext == \/ \E y \in FeedYears : NotAnswered(y) \/ \E feed \in Feeds : Answered(y, feed)
           \/ Normalise \/ Validate
-----------------------------------------------------------------------------
(* What is checked.                                                        *)

\* Nothing is parsed of a year that was not asked for, and no record vanishes between rows and duplicates.
TabTypeOK == /\ \A y \in FeedYears : yearly[y].ok => yearly[y].asked
             /\ dataset.there \in BOOLEAN /\ Len(dataset.rows) + Len(dataset.dropped) = dataset.before
             /\ judged.status \in {"none", "PASS", "WARNING", "FAIL"}

\* A row says what a record of its year says: absence and the missing tokens as null, never as a
\* number, and every other text as it was published.
Says(row, record) ==
    \A c \in Range(dataset.columns) :
       LET cell == Cell(row, c) IN
       IF c \notin DOMAIN record \/ record[c].text = "missing" THEN cell = Null
       ELSE cell.kind # "null" /\ cell.n = record[c].n

\* normalise loses nothing and adds nothing, whatever the years repeat of each other: every record
\* of every year is a row or is recorded as the duplicate of a row that says the same, every row is
\* a record of the year it names, and no two rows say the same.
EveryRecordAccountedFor == dataset.there =>
    /\ \A y \in FeedYears : \A i \in DOMAIN yearly[y].records :
          \E row \in Range(dataset.rows) :
             /\ Says(row, yearly[y].records[i])
             /\ row.source = y \/ \E d \in Range(dataset.dropped) : d.row.source = y /\ d.kept = row.source
    /\ \A row \in Range(dataset.rows) : \E record \in Range(yearly[row.source].records) : Says(row, record)
    /\ \A i, k \in DOMAIN dataset.rows : i # k => \E c \in Range(dataset.columns) :
          Cell(dataset.rows[i], c) # Cell(dataset.rows[k], c)

\* Whatever order the feeds come in, a later day never stands before an earlier one, so the
\* error that validation keeps for it is never raised.
DaysAscend == judged.status # "none" => /\ judged.chronological
    /\ \A i, k \in DOMAIN dataset.rows :
          i < k /\ DateOf(dataset.rows[i]).kind = "date" /\ DateOf(dataset.rows[k]).kind = "date"
          => DateOf(dataset.rows[i]).n <= DateOf(dataset.rows[k]).n

\* A table that passes is one that needs no review: every year answered with data, one row on
\* every day on which the market was open between the first and the last, none later than today,
\* and every rate in the band and near the one before it.
PassIsClean == judged.status = "PASS" =>
    LET OnDay(d) == {i \in DOMAIN dataset.rows : DateOf(dataset.rows[i]) = [kind |-> "date", n |-> d]}
        days     == {DateOf(r).n : r \in Range(dataset.rows)}
    IN  /\ \A y \in FeedYears : yearly[y].ok /\ yearly[y].records # <<>>
        /\ \A d \in Min(days)..Max(days) :
              (Weekday(d) < Saturday /\ \A y \in FeedYears : d \notin FederalHolidays(y) /\ d # Easter(y) - 2
               /\ d \notin SpecialClosures) <=> Cardinality(OnDay(d)) = 1
        /\ Max(days) <= FeedToday
        /\ \A c \in RateColumns : \A i \in DOMAIN NumbersOf(c) :
              /\ NumbersOf(c)[i].n \in RateMin..RateMax
              /\ i > 1 /\ Wide => NumbersOf(c)[i].n - NumbersOf(c)[i - 1].n \in -RateJump..RateJump

\* What is called a placeholder is zeros before a series begins: a rate that was once not zero and
\* came down to zero is never called one.
PlaceholderIsBefore == \A c \in judged.placeholders :
    /\ Cardinality({i \in DOMAIN NumbersOf(c) : NumbersOf(c)[i].n = 0}) >= SentinelZeroRun
    /\ \A i, k \in DOMAIN NumbersOf(c) : i < k /\ NumbersOf(c)[k].n = 0 => NumbersOf(c)[i].n = 0

\* The columns of any year can be read off the report, by following what came and went since the
\* first, over the years that are empty or failed.
TimelineReplays == judged.status # "none" => \A y \in Populated :
    ColumnsIn(y) = {c \in Range(dataset.columns) : \E x \in Populated :
                       /\ x <= y /\ c \in judged.added[x]
                       /\ \A z \in Populated : x < z /\ z <= y => c \notin judged.removed[z]}

\* From the feeds to the verdict no record is lost, invented, misplaced or taken for what it is not
\* (download_us_treasury.py:500-640, 917-1475).
TableHolds == TabTypeOK /\ EveryRecordAccountedFor /\ DaysAscend /\ PassIsClean /\ PlaceholderIsBefore
              /\ TimelineReplays
=============================================================================
