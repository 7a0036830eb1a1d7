---------------------------- MODULE Negotiation ----------------------------
(***************************************************************************)
(* The bounded negotiation of one plan (DataPlanner in agents/planning.py):*)
(* the domain expert opens with a hypothesis, the data layer assesses it,  *)
(* the expert revises, and so on until the expert commits, the talk stalls *)
(* or the rounds run out.                                                  *)
(*                                                                         *)
(* What the two agents say comes from models and is chosen freely, within  *)
(* what DomainExpertAgent._build and _keep_ambiguity let through.          *)
(***************************************************************************)
EXTENDS Naturals, Sequences

CONSTANTS
  Plans,         \* fields, rows, calculation and period: what a diff compares
  Settings,      \* tenors and calculation parameters: what it does not
  Questions,     \* what the expert may leave open
  MaxRounds,     \* MAX_NEGOTIATION_ROUNDS
  MaxUnchanged   \* MAX_UNCHANGED_ROUNDS

ASSUME NegotiationAssumption ==
  MaxRounds \in Nat \ {0} /\ MaxUnchanged \in Nat \ {0}

VARIABLES
  phase,       \* what happens next
  trail,       \* the hypothesis, then the requirement each round ended with
  assessment,  \* what the data layer said in the latest round
  unchanged,   \* consecutive rounds without a difference
  decision     \* negotiation.decision

planVars == <<phase, trail, assessment, unchanged, decision>>

Decisions ==
  {"AGREED", "NEEDS_USER_INPUT", "UNSUPPORTED", "CANNOT_REACH_AGREEMENT"}

\* What the expert may put on the table.  A hypothesis is whatever carries no
\* decision, and a requirement that carries one is stripped of its questions.
Requirement ==
  {r \in [plan : Plans, settings : Settings, family : {"stated", "ambiguous"},
          questions : SUBSET Questions, answerable : BOOLEAN,
          decision : Decisions \cup {"none"}] :
     r.decision # "none" => r.questions = {}}

Current == trail[Len(trail)]
Round   == Len(trail) - 1

\* A diff that does not look at the curve family.
ChangedWrong(before, after) ==
  \/ before.plan # after.plan
  \/ before.questions \ after.questions # {}
  \/ before.decision = "none" /\ after.decision # "none"

\* _describe_changes: what a reader of the diff would see.
Changed(before, after) ==
  \/ before.plan # after.plan \/ before.family # after.family
  \/ before.questions \ after.questions # {}
  \/ before.decision = "none" /\ after.decision # "none"

\* A stated decision that yields to doubts about the plan.
DecisionOfWrong(r) ==
  CASE r.questions # {} \/ ~r.answerable -> "none"
    [] OTHER -> r.decision

\* What the expert has committed to, if anything.
DecisionOf(r) ==
  CASE r.decision = "NEEDS_USER_INPUT" /\ r.questions = {} ->
         IF r.answerable THEN "AGREED" ELSE "UNSUPPORTED"
    [] r.decision = "none" /\ ~r.answerable -> "UNSUPPORTED"
    [] OTHER -> r.decision

\* An ambiguity that the next draft may settle.
KeepAmbiguityWrong(before, after) == after

\* An ambiguous curve family is not the expert's to settle.
KeepAmbiguity(before, after) ==
  IF before.family = "ambiguous"
  THEN [after EXCEPT !.family = "ambiguous"] ELSE after

-----------------------------------------------------------------------------

\* The opening move.  A task that cannot be answered is not negotiated.
Derive ==
  /\ phase = "derive"
  /\ \E r \in Requirement :
       /\ r.decision = "none"
       /\ trail' = <<r>>
       /\ phase' = IF r.answerable THEN "assess" ELSE "done"
       /\ decision' = IF r.answerable THEN "none" ELSE "UNSUPPORTED"
  /\ UNCHANGED <<assessment, unchanged>>

\* A round begins: the data layer judges the requirement, or its call fails and
\* the requirement counts as accepted.
Assess ==
  /\ phase = "assess"
  /\ assessment' \in {"feasible", "infeasible", "missing"}
  /\ phase' = "revise"
  /\ UNCHANGED <<trail, unchanged, decision>>

\* A last round after which the loop is left without a word.
SettleSilently(next) ==
  /\ decision' = CASE DecisionOf(next) # "none" -> DecisionOf(next)
                   [] DecisionOf(next) = "none" /\ unchanged' >= MaxUnchanged
                        -> "CANNOT_REACH_AGREEMENT"
                   [] OTHER -> "none"
  /\ phase' = CASE decision' # "none" -> "done"
                [] Round + 1 = MaxRounds -> "revised"
                [] OTHER -> "assess"

\* How a round ends.
Settle(next) ==
  /\ decision' = CASE DecisionOf(next) # "none" -> DecisionOf(next)
                   [] DecisionOf(next) = "none" /\
                        (unchanged' >= MaxUnchanged \/ Round + 1 = MaxRounds)
                        -> "CANNOT_REACH_AGREEMENT"
                   [] OTHER -> "none"
  /\ phase' = IF decision' = "none" THEN "assess" ELSE "done"

\* The expert revises, or fails to and keeps what it had.
Revise ==
  /\ phase = "revise"
  /\ \E r \in Requirement :
       LET next == KeepAmbiguity(Current, r) IN
       /\ trail' = Append(trail, next)
       /\ unchanged' = IF Changed(Current, next) THEN 0 ELSE unchanged + 1
       /\ Settle(next)
  /\ UNCHANGED assessment

PlanInit ==
  /\ phase = "derive" /\ trail = <<>> /\ assessment = "missing"
  /\ unchanged = 0 /\ decision = "none"

PlanNext == Derive \/ Assess \/ Revise

\* Every call the planner makes has a deadline, so the loop is never stuck.
PlanSpec == PlanInit /\ [][PlanNext]_planVars /\ WF_planVars(PlanNext)

-----------------------------------------------------------------------------
(* Properties.                                                             *)

\* The talk stays within its rounds and ends with one of the four decisions.
PlanTypeOK ==
  /\ trail \in Seq(Requirement) /\ Len(trail) <= MaxRounds + 1
  /\ unchanged \in 0..MaxUnchanged
  /\ decision \in Decisions \cup {"none"}
  /\ phase \in {"derive", "assess", "revise", "done"}
  /\ assessment \in {"feasible", "infeasible", "missing"}
  /\ phase = "done" <=> decision # "none"

\* Round k + 1 left the plan as it was and answered no question.
Still(k) ==
  /\ trail[k].plan = trail[k + 1].plan
  /\ trail[k].family = trail[k + 1].family
  /\ trail[k].questions \subseteq trail[k + 1].questions

\* A failed agreement is one the expert declared, or all rounds were held, or
\* the last MaxUnchanged of them made no difference.
StallIsEarned ==
  decision = "CANNOT_REACH_AGREEMENT" =>
    \/ Current.decision = "CANNOT_REACH_AGREEMENT"
    \/ Round = MaxRounds
    \/ \A k \in Len(trail) - MaxUnchanged..Len(trail) - 1 : k > 0 /\ Still(k)

\* No round is held that cannot matter: after a commitment, for a plan that
\* cannot be answered, or after MaxUnchanged still rounds.
NoIdleRound ==
  \A k \in 1..Len(trail) - 1 :
    /\ trail[k].decision = "none" /\ trail[k].answerable
    /\ k > MaxUnchanged => \E j \in k - MaxUnchanged..k - 1 : ~Still(j)

\* An ambiguity once raised is in every later requirement, so that the one who
\* executes the plan asks the user.
AmbiguityStands ==
  \A j, k \in DOMAIN trail :
    j < k /\ trail[j].family = "ambiguous" => trail[k].family = "ambiguous"

\* What the talk looks like to whoever waits for the plan.
Promise == INSTANCE Deliberation WITH
  Rounds <- MaxRounds, Verdicts <- Decisions \ {"NEEDS_USER_INPUT"},
  Refusal <- "UNSUPPORTED", drafts <- Len(trail),
  doubt <- trail # <<>> /\ Current.family = "ambiguous", verdict <- decision

\* Whatever the two models say, the negotiation ends.
Concludes == <>(phase = "done")

\* The talk stays in its rounds, fails only for a reason, wastes no round and settles no
\* ambiguity by itself (planning.py:195-312, domain_expert_agent.py:886-914).
PlanIsSettled == PlanTypeOK /\ StallIsEarned /\ NoIdleRound /\ AmbiguityStands
=============================================================================
