---------------------------- MODULE BondSchedule ----------------------------
(***************************************************************************)
(* The cash-flow schedule of a semiannual bond (mcp_servers/risk/          *)
(* pricing.py): it is walked backwards from maturity, six months at a      *)
(* time, to the quasi-coupon date at or before valuation.  Valuation,      *)
(* accrual and carry (carry_roll.py) all read the same schedule.  Values   *)
(* are left out; times count in coupon periods, as fractions of days.      *)
(***************************************************************************)
EXTENDS Gregorian, Sequences, FiniteSets

CONSTANTS Maturities, Valuations    \* dates <<year, month, day>>

MonthsPerCoupon == 6

VARIABLES maturity, valuation, forward,   \* of one carry calculation
          reached,    \* the date the walk has reached
          ahead,      \* the flow dates met so far, earliest first
          schedule    \* the schedules at valuation and at the later date, when built

bondVars == <<maturity, valuation, forward, reached, ahead, schedule>>

(* ---- the calendar ------------------------------------------------------- *)
DaysInMonth(y, m) ==
    IF m = 2 THEN (IF Leap(y) THEN 29 ELSE 28) ELSE IF m \in {4, 6, 9, 11} THEN 30 ELSE 31
CalendarDates == {x \in Int \X (1..12) \X (1..31) : x[3] <= DaysInMonth(x[1], x[2])}
Earlier(a, b) == Day(a) < Day(b)

ASSUME BondAssumption == Maturities \cup Valuations \subseteq CalendarDates

\* Each definition named ...Wrong is a mutation of the one that follows it and is
\* part of no behaviour: it shows that some property notices the bug.
SubtractMonthsUnclampedWrong(x, months) ==
    LET n == 12 * x[1] + x[2] - 1 - months IN <<n \div 12, (n % 12) + 1, x[3]>>

\* _subtract_months: the day is kept, clamped to the end of a short month.
SubtractMonths(x, months) ==
    LET n == 12 * x[1] + x[2] - 1 - months
        y == n \div 12
        m == (n % 12) + 1
        last == DaysInMonth(y, m)
    IN  <<y, m, IF x[3] < last THEN x[3] ELSE last>>

(* ---- the walk ----------------------------------------------------------- *)
Due == IF schedule = <<>> THEN valuation ELSE forward

Carry(last, from, to) ==
    /\ maturity = last /\ valuation = from /\ forward = to
    /\ reached = last /\ ahead = <<>> /\ schedule = <<>>
\* A horizon that is not later is refused.
BondInit == \E last \in Maturities, from, to \in Valuations : Earlier(from, to) /\ Carry(last, from, to)

DueTodayAheadWrong == ~Earlier(reached, Due)
StillAhead == Earlier(Due, reached)

\* One flow date further back.
Back == /\ Len(schedule) < 2 /\ StillAhead
        /\ ahead' = <<reached>> \o ahead
        /\ reached' = SubtractMonths(reached, MonthsPerCoupon)
        /\ UNCHANGED <<maturity, valuation, forward, schedule>>

\* current_quasi_period: no schedule once the bond has matured; reached is the start
\* of the current period.  The next date to look at starts from maturity again.
Settle == /\ Len(schedule) < 2 /\ ~StillAhead
          /\ schedule' = Append(schedule,
                IF ~Earlier(Due, maturity) THEN [matured |-> TRUE, flows |-> <<>>]
                ELSE [matured |-> FALSE, flows |-> ahead, start |-> reached,
                      elapsed |-> Day(Due) - Day(reached), span |-> Day(ahead[1]) - Day(reached)])
          /\ reached' = maturity /\ ahead' = <<>>
          /\ UNCHANGED <<maturity, valuation, forward>>

BondNext == Back \/ Settle
BondSpec == BondInit /\ [][BondNext]_bondVars

BothBuilt == Len(schedule) = 2
PaidOneMoreWrong == Len(schedule[1].flows) - Len(schedule[2].flows) + 1
\* compute_carry_roll: the coupons that fall between the two dates.
Paid == Len(schedule[1].flows) - Len(schedule[2].flows)
TimesSpanWholeWrong(s, i, other) == i * s.span * other
\* generate_cash_flows: (i + 1 - w), times the days of both periods.
TimesSpan(s, i, other) == (i * s.span - s.elapsed) * other

BondTypeOK == /\ Len(schedule) <= 2 /\ 1 <= reached[3] /\ reached[3] <= DaysInMonth(reached[1], reached[2])

\* Valuation lies within the current period, every flow is still to come, in
\* order, and the last one is the maturity.
FlowsAreAhead ==
    \A k \in DOMAIN schedule : ~schedule[k].matured =>
        LET s == schedule[k]
            at == IF k = 1 THEN valuation ELSE forward
        IN  /\ 0 <= s.elapsed /\ s.elapsed < s.span
            /\ s.flows[Len(s.flows)] = maturity
            /\ \A i \in DOMAIN s.flows : /\ Earlier(at, s.flows[i])
                                         /\ i > 1 => Earlier(s.flows[i - 1], s.flows[i])

\* Carry counts each coupon once: what it takes as paid by the later date is what
\* falls due after valuation and by the later date, the rest is what is left.
EachCouponOnce ==
    BothBuilt => LET all == schedule[1].flows
             IN  /\ \A i \in DOMAIN all : i <= Paid <=> ~Earlier(forward, all[i])
                 /\ SubSeq(all, Paid + 1, Len(all)) = schedule[2].flows

\* Moving the valuation forward brings every flow nearer, never further away.
TimeOnlyPasses ==
    (BothBuilt /\ ~schedule[2].matured) =>
        TimesSpan(schedule[2], 1, schedule[1].span)
            < TimesSpan(schedule[1], Paid + 1, schedule[2].span)

\* Each coupon that is ahead is counted once, on its day, and comes nearer (pricing.py:120-200).
ScheduleHolds == BondTypeOK /\ FlowsAreAhead /\ EachCouponOnce /\ TimeOnlyPasses
=============================================================================
