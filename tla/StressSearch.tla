---------------------------- MODULE StressSearch ----------------------------
(***************************************************************************)
(* Reverse stress (mcp_servers/risk/reverse_stress.py over numerics.py):   *)
(* which multiple of a scenario loses a given amount.  The book's P&L      *)
(* under a multiple is a function on a grid of multiples, `Broken` where   *)
(* the shocked curve cannot be bootstrapped.  One call runs through a list *)
(* of target losses: a threshold table, the two levels of a limit, or one  *)
(* target.  The interpolated point of the solver is any grid point: what   *)
(* its formula yields does not matter to what the bracket promises.        *)
(***************************************************************************)
EXTENDS Integers, Sequences, FiniteSets

CONSTANTS Shapes,     \* the P&L functions, each [-Reach..Reach -> Int \cup {Broken}]
          Reach,      \* the grid of multiples is -Reach..Reach
          Searches,       \* calls: [kind, low, high, targets]
          Halvings,   \* how often a bound is halved before the side is given up
          MaxIter,    \* max_iterations of the solver
          Samples     \* the points the monotonicity is sampled at, less one

ASSUME SearchAssumption == /\ Reach \in Nat \ {0}
                           /\ {Halvings, MaxIter, Samples} \subseteq Nat \ {0}
\* A limit has two targets, its own loss and then that of its amber level.
ASSUME SearchInputs ==
    /\ \A f \in Shapes : f \in [-Reach..Reach -> Int]
    /\ \A s \in Searches : /\ {s.low, s.high} \subseteq -Reach..Reach
                           /\ s.targets \in Seq(Int) \ {<<>>}
                           /\ s.kind = "limit" => Len(s.targets) = 2 /\ s.targets[2] < s.targets[1]

Broken == 999         \* a CurveError instead of a value
NoRoot == 998         \* nan in a row without a solution
Tolerance == 2        \* the grid's own width: neighbours are as close as it gets

VARIABLES gain,       \* f: multiple -> P&L
          search,        \* the call
          at,         \* "begin" | "low" | "high" | "bracket" | "solve" | "done" | "raised"
          bounds,     \* usable_low, usable_high as far as they are found
          tries,      \* how often the current bound has been halved
          solver,     \* a, b, c, d, used_bisection, i of solve_scalar
          answers        \* one answer per target so far

searchVars == <<gain, search, at, bounds, tries, solver, answers>>

Size(x) == IF x < 0 THEN -x ELSE x
Between(x, p, q) == \/ p < x /\ x < q
                    \/ q < x /\ x < p
Halve(x) == IF x < 0 THEN -(Size(x) \div 2) ELSE x \div 2

\* Each definition named ...Wrong is a mutation of the one that follows it and is
\* part of no behaviour: it shows that some property notices the bug.
TargetFromLastWrong == -search.targets[Len(search.targets) - Len(answers)]
Target == -search.targets[Len(answers) + 1]
Off(x) == gain[x] - Target

\* samples: evenly spaced over the usable interval.
Sampled(lo, hi) == {lo + ((hi - lo) * i) \div Samples : i \in 0..Samples}

\* is_monotone over the points P.
Monotone(P) ==
    \/ \A x, y \in P : x < y => gain[x] <= gain[y]
    \/ \A x, y \in P : x < y => gain[x] >= gain[y]

SearchFor(f, call) ==
    /\ gain = f /\ search = call
    /\ at = "begin"
    /\ bounds = [low |-> 0, high |-> 0]
    /\ tries = 0
    /\ solver = [a |-> 0, b |-> 0, c |-> 0, d |-> 0, bisected |-> TRUE, i |-> 1]
    /\ answers = <<>>
SearchInit == \E f \in Shapes, call \in Searches : SearchFor(f, call)

\* A row of the table: solved, or refused with its reason.
Row(root, converged, monotone, reason) ==
    [root |-> root, converged |-> converged, monotone |-> monotone,
     reason |-> reason, bounds |-> bounds']

RefuseTargetAlwaysWrong(reason) ==
    /\ answers' = Append(answers, Row(NoRoot, FALSE, FALSE, reason))
    /\ at' = "raised"
    /\ UNCHANGED solver

\* compute_thresholds and find_limit_breach keep a refusal as a row and go on;
\* run_reverse_stress itself raises it.
RefuseTarget(reason) ==
    /\ answers' = Append(answers, Row(NoRoot, FALSE, FALSE, reason))
    /\ at' = IF search.kind = "single" THEN "raised"
             ELSE IF Len(answers') = Len(search.targets) THEN "done" ELSE "begin"
    /\ UNCHANGED solver

\* The two ends with the one whose P&L is nearer to the target as b.
Ordered(a, b) == IF Size(Off(a)) < Size(Off(b)) THEN <<b, a>> ELSE <<a, b>>

EnclosesStrictlyWrong(lo, hi) == Off(lo) * Off(hi) < 0

\* bracket_target: the target lies between the values at the two ends.
Encloses(lo, hi) == Off(lo) * Off(hi) <= 0

\* run_reverse_stress: the sign of the target and the order of the bounds.
Begin ==
    /\ at = "begin"
    /\ UNCHANGED <<gain, search>>
    /\ bounds' = [low |-> search.low, high |-> search.high]
    /\ tries' = 0
    /\ IF search.targets[Len(answers) + 1] < 0 \/ search.high <= search.low
       THEN RefuseTarget("input")
       ELSE at' = "low" /\ UNCHANGED <<solver, answers>>

MayTryOneMoreWrong == tries <= Halvings
MayTry == tries < Halvings

\* _usable_bound, for the low end and then for the high one: halved towards
\* zero until the curve survives it.
Shrink ==
    /\ at \in {"low", "high"}
    /\ UNCHANGED <<gain, search>>
    /\ \/ /\ ~MayTry
          /\ UNCHANGED <<bounds, tries>>
          /\ RefuseTarget("empty side")
       \/ /\ MayTry /\ gain[bounds[at]] = Broken
          /\ bounds' = [bounds EXCEPT ![at] = Halve(@)]
          /\ tries' = tries + 1
          /\ UNCHANGED <<at, solver, answers>>
       \/ /\ MayTry /\ gain[bounds[at]] # Broken
          /\ tries' = 0
          /\ at' = IF at = "low" THEN "high" ELSE "bracket"
          /\ UNCHANGED <<bounds, solver, answers>>

\* The samples, bracket_target and the solver's first ordering of the ends.
Bracket ==
    /\ at = "bracket"
    /\ UNCHANGED <<gain, search, bounds, tries>>
    /\ \/ /\ \E x \in Sampled(bounds.low, bounds.high) : gain[x] = Broken
          /\ at' = "raised"
          /\ UNCHANGED <<solver, answers>>
       \/ /\ \A x \in Sampled(bounds.low, bounds.high) : gain[x] # Broken
          /\ bounds.high <= bounds.low \/ ~Encloses(bounds.low, bounds.high)
          /\ RefuseTarget("unreachable")
       \/ /\ \A x \in Sampled(bounds.low, bounds.high) : gain[x] # Broken
          /\ bounds.low < bounds.high /\ Encloses(bounds.low, bounds.high)
          /\ at' = "solve"
          /\ LET ab == Ordered(bounds.low, bounds.high)
             IN solver' = [a |-> ab[1], b |-> ab[2], c |-> ab[1],
                           d |-> ab[2] - ab[1], bisected |-> TRUE, i |-> 1]
          /\ UNCHANGED answers

SettledEarlyWrong == Off(solver.b) = 0 \/ Size(solver.b - solver.a) < 2 * Tolerance
Settled == Off(solver.b) = 0 \/ Size(solver.b - solver.a) < Tolerance

\* The result of one target: converged, or the last iterate after MaxIter.
Conclude ==
    /\ at = "solve"
    /\ Settled \/ solver.i > MaxIter
    /\ UNCHANGED <<gain, search, bounds, tries, solver>>
    /\ answers' = Append(answers, Row(solver.b, solver.i <= MaxIter,
                                Monotone(Sampled(bounds.low, bounds.high)), "none"))
    /\ at' = IF Len(answers') = Len(search.targets) THEN "done" ELSE "begin"

\* The five conditions under which an interpolated point is not trusted.
Distrusted(s) ==
    LET back == IF solver.bisected THEN Size(solver.b - solver.c)
                ELSE Size(solver.c - solver.d)
    IN  \/ ~Between(4 * s, 3 * solver.a + solver.b, 4 * solver.b)
        \/ 2 * Size(s - solver.b) >= back
        \/ back < Tolerance

NarrowUnorderedWrong(s) == IF Off(solver.a) * Off(s) < 0 THEN <<solver.a, s>> ELSE <<s, solver.b>>

\* The half of the bracket that still encloses the target.
Narrow(s) == IF Off(solver.a) * Off(s) < 0 THEN Ordered(solver.a, s) ELSE Ordered(s, solver.b)

\* One iteration of Brent's method.
Iterate ==
    /\ at = "solve" /\ ~Settled /\ solver.i <= MaxIter
    /\ UNCHANGED <<gain, search, bounds, tries>>
    /\ \E guess \in -Reach..Reach :
         LET s == IF Distrusted(guess) THEN (solver.a + solver.b) \div 2 ELSE guess
         IN \/ /\ gain[s] = Broken
               /\ at' = "raised"
               /\ UNCHANGED <<solver, answers>>
            \/ /\ gain[s] # Broken
               /\ LET ab == Narrow(s)
                  IN solver' = [a |-> ab[1], b |-> ab[2], c |-> solver.b, d |-> solver.c,
                                bisected |-> Distrusted(guess), i |-> solver.i + 1]
               /\ UNCHANGED <<at, answers>>

SearchNext == Begin \/ Shrink \/ Bracket \/ Conclude \/ Iterate

SearchSpec == SearchInit /\ [][SearchNext]_searchVars

SearchTypeOK ==
    /\ at \in {"begin", "low", "high", "bracket", "solve", "done", "raised"}
    /\ tries \in 0..Halvings
    /\ {bounds.low, bounds.high, solver.a, solver.b, solver.c} \subseteq -Reach..Reach
    /\ Len(answers) <= Len(search.targets)

\* While the solver runs, the target stays between the P&L at its two ends, and
\* b is the better of the two: the method cannot lose its root (numerics.py:7).
RootStaysEnclosed ==
    at = "solve" => /\ Off(solver.a) * Off(solver.b) <= 0
                    /\ Size(Off(solver.b)) <= Size(Off(solver.a))
                    /\ {solver.a, solver.b} \subseteq bounds.low..bounds.high

\* A row that says it converged is an answer: the P&L there is the loss asked
\* for, or a neighbouring multiple lies on the other side of it.
ConvergedIsAnswer ==
    \A k \in 1..Len(answers) : answers[k].converged =>
        LET t == -search.targets[k]
        IN \E y \in answers[k].bounds.low..answers[k].bounds.high :
              /\ Size(y - answers[k].root) < Tolerance /\ gain[y] # Broken
              /\ (gain[y] - t) * (gain[answers[k].root] - t) <= 0

\* A loss reported as unreachable is unreachable, as far as the P&L is monotone
\* over the interval that was searched.
UnreachableIsTrue ==
    \A k \in 1..Len(answers) :
        (answers[k].reason = "unreachable" /\ answers[k].bounds.low < answers[k].bounds.high) =>
            LET I == answers[k].bounds.low..answers[k].bounds.high
            IN  ((\A x \in I : gain[x] # Broken) /\ Monotone(I)) =>
                    \A x \in I : gain[x] # -search.targets[k]

\* One unreachable target does not cost the table its other answers: every target
\* is answered or refused in its own row.
EveryTargetHasItsRow ==
    (at = "done" \/ (at = "raised" /\ search.kind # "single" /\
                     \A x \in -Reach..Reach : gain[x] # Broken)) =>
        Len(answers) = Len(search.targets)

\* A book that only loses as the multiple grows meets its amber level no later
\* than its limit (up to the width of the grid).
AmberComesFirst ==
    (search.kind = "limit" /\ Len(answers) = 2) =>
        LET I == bounds.low..bounds.high
        IN  (answers[1].converged /\ answers[2].converged /\
             \A x, y \in I : x < y => gain[x] > gain[y]) =>
                answers[2].root <= answers[1].root + 1

\* A reverse stress finds what it says it found, and says so of every target (numerics.py,
\* reverse_stress.py).
SearchHolds == SearchTypeOK /\ RootStaysEnclosed /\ ConvergedIsAnswer /\ UnreachableIsTrue
               /\ EveryTargetHasItsRow /\ AmberComesFirst
=============================================================================
