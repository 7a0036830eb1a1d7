--------------------------- MODULE Agents_proofs ----------------------------
(***************************************************************************)
(* What holds of the talk between agents and user, for every bound on      *)
(* rounds, retries, turns and evictions and whatever models, servers and   *)
(* the user may say.  A negotiation fails only for a reason, wastes no     *)
(* round, settles no ambiguity by itself and is the plain deliberation it  *)
(* stands for.  A conversation runs nothing that was called off or has run *)
(* before, loses no plan it waits for, and asks a patient user a bounded   *)
(* number of questions in a row.                                           *)
(***************************************************************************)
EXTENDS Negotiation, Conversation, SequenceTheorems, TLAPS

(* The inductive invariant of a negotiation.                               *)

Talking == phase \in {"assess", "revise"}

\* There is something on the table from the opening move on.
Opened ==
  /\ phase = "derive" => trail = <<>> /\ unchanged = 0
  /\ phase # "derive" => trail # <<>>

\* A talk that goes on may go on.
MayGoOn ==
  Talking => /\ Len(trail) <= MaxRounds /\ unchanged < MaxUnchanged
             /\ Current.decision = "none" /\ Current.answerable

\* The count of still rounds is exact: that many at the end were still, and the one
\* before them was not.
CountIsExact ==
  Talking => /\ unchanged < Len(trail)
             /\ \A k \in Len(trail) - unchanged..Len(trail) - 1 : Still(k)
             /\ unchanged < Len(trail) - 1 => ~Still(Len(trail) - 1 - unchanged)

IInv == /\ PlanTypeOK /\ Opened /\ MayGoOn /\ CountIsExact
        /\ StallIsEarned /\ NoIdleRound /\ AmbiguityStands

-----------------------------------------------------------------------------
(* Lemmas about a negotiation.                                             *)

\* Still, of any trail.
StillIn(t, k) ==
  /\ t[k].plan = t[k + 1].plan /\ t[k].family = t[k + 1].family
  /\ t[k].questions \subseteq t[k + 1].questions

\* What a longer trail shares with the shorter one.
LEMMA LongerTrail ==
  ASSUME NEW S, NEW s \in Seq(S), NEW e \in S
  PROVE  /\ Append(s, e) \in Seq(S) /\ Len(Append(s, e)) = Len(s) + 1
         /\ DOMAIN s = 1..Len(s) /\ DOMAIN Append(s, e) = 1..Len(s) + 1
         /\ Len(s) \in Nat
         /\ \A k \in 1..Len(s) : Append(s, e)[k] = s[k]
         /\ Append(s, e)[Len(s) + 1] = e
BY AppendProperties, LenProperties

\* A kept ambiguity changes nothing else about a requirement.
LEMMA KeptFacts ==
  ASSUME NEW before \in Requirement, NEW after \in Requirement
  PROVE  /\ KeepAmbiguity(before, after) \in Requirement
         /\ before.family = "ambiguous" => KeepAmbiguity(before, after).family = "ambiguous"
BY DEF KeepAmbiguity, Requirement

\* No decision is read into a requirement that can be carried out and states none; and
\* nothing the expert says is read as a question.
LEMMA DecisionFacts ==
  ASSUME NEW r \in Requirement
  PROVE  /\ DecisionOf(r) \in (Decisions \ {"NEEDS_USER_INPUT"}) \cup {"none"}
         /\ DecisionOf(r) = "none" => r.decision = "none" /\ r.answerable
         /\ DecisionOf(r) = "CANNOT_REACH_AGREEMENT" => r.decision = "CANNOT_REACH_AGREEMENT"
<1>1. r.decision \in Decisions \cup {"none"} /\ (r.decision # "none" => r.questions = {})
  BY DEF Requirement
<1>2. CASE r.decision = "NEEDS_USER_INPUT"
  BY <1>1, <1>2 DEF DecisionOf, Decisions
<1>3. CASE r.decision = "none"
  BY <1>3 DEF DecisionOf, Decisions
<1>4. CASE r.decision \notin {"none", "NEEDS_USER_INPUT"}
  BY <1>1, <1>4 DEF DecisionOf, Decisions
<1> QED
  BY <1>2, <1>3, <1>4

\* A round between two undecided drafts is counted as a change exactly if it was none of
\* the still ones.
LEMMA ChangedFacts ==
  ASSUME NEW before, NEW after, before.decision = "none"
  PROVE  /\ ~Changed(before, after) =>
              /\ before.plan = after.plan /\ before.family = after.family
              /\ before.questions \subseteq after.questions
         /\ Changed(before, after) /\ after.decision = "none" =>
              ~(/\ before.plan = after.plan /\ before.family = after.family
                /\ before.questions \subseteq after.questions)
BY DEF Changed

-----------------------------------------------------------------------------
(* The steps of a negotiation.                                             *)

LEMMA Initially == PlanInit => IInv
<1> SUFFICES ASSUME PlanInit PROVE IInv
  OBVIOUS
<1>1. trail \in Seq(Requirement) /\ Len(trail) = 0 /\ DOMAIN trail = {}
  BY DEF PlanInit
<1>2. PlanTypeOK
  BY <1>1, NegotiationAssumption DEF PlanInit, PlanTypeOK, Decisions
<1> QED
  BY <1>1, <1>2 DEF PlanInit, IInv, Opened, MayGoOn, CountIsExact, Talking,
                    StallIsEarned, NoIdleRound, AmbiguityStands

\* The opening move.
LEMMA DeriveIInv == IInv /\ Derive => IInv'
<1> SUFFICES ASSUME IInv, Derive PROVE IInv'
  OBVIOUS
<1>1. PICK r \in Requirement :
        /\ r.decision = "none" /\ trail' = <<r>>
        /\ phase' = IF r.answerable THEN "assess" ELSE "done"
        /\ decision' = IF r.answerable THEN "none" ELSE "UNSUPPORTED"
  BY DEF Derive
<1>2. /\ trail' \in Seq(Requirement) /\ Len(trail') = 1 /\ DOMAIN trail' = {1}
      /\ trail'[1] = r /\ trail' # <<>>
  BY <1>1
<1>3. unchanged' = 0 /\ assessment' = assessment
  BY DEF IInv, Opened, Derive
<1>4. PlanTypeOK'
  BY <1>1, <1>2, <1>3, NegotiationAssumption DEF IInv, PlanTypeOK, Decisions
<1>5. (Opened /\ MayGoOn)'
  BY <1>1, <1>2, <1>3, NegotiationAssumption DEF Opened, MayGoOn, Talking, Current
<1>6. CountIsExact'
  BY <1>2, <1>3 DEF CountIsExact
<1>7. (StallIsEarned /\ NoIdleRound /\ AmbiguityStands)'
  BY <1>1, <1>2 DEF StallIsEarned, NoIdleRound, AmbiguityStands
<1> QED
  BY <1>4, <1>5, <1>6, <1>7 DEF IInv

\* A word of the data layer moves nothing.
LEMMA AssessIInv == IInv /\ (Assess \/ UNCHANGED planVars) => IInv'
<1> SUFFICES ASSUME IInv, Assess \/ UNCHANGED planVars PROVE IInv'
  OBVIOUS
<1>1. /\ trail' = trail /\ unchanged' = unchanged /\ decision' = decision
      /\ assessment' \in {"feasible", "infeasible", "missing"}
      /\ phase' = phase \/ (phase = "assess" /\ phase' = "revise")
  BY DEF Assess, planVars, IInv, PlanTypeOK
<1>2. Talking' = Talking /\ Current' = Current /\ Round' = Round /\ \A k : Still(k)' = Still(k)
  BY <1>1 DEF Talking, Current, Round, Still
<1>3. PlanTypeOK'
  BY <1>1 DEF IInv, PlanTypeOK
<1>4. Opened' /\ MayGoOn' /\ CountIsExact'
  BY <1>1, <1>2 DEF IInv, Opened, MayGoOn, CountIsExact
<1>5. StallIsEarned' /\ NoIdleRound' /\ AmbiguityStands'
  BY <1>1, <1>2 DEF IInv, StallIsEarned, NoIdleRound, AmbiguityStands
<1> QED
  BY <1>3, <1>4, <1>5 DEF IInv

\* What a revision does to the trail, and when the talk goes on.
Revision(next) ==
  /\ phase = "revise" /\ next \in Requirement
  /\ Current.family = "ambiguous" => next.family = "ambiguous"
  /\ trail' = Append(trail, next)
  /\ unchanged' = IF Changed(Current, next) THEN 0 ELSE unchanged + 1
  /\ Settle(next)
  /\ assessment' = assessment

LEMMA ReviseIsRevision == IInv /\ Revise => \E next \in Requirement : Revision(next)
<1> SUFFICES ASSUME IInv, Revise PROVE \E next \in Requirement : Revision(next)
  OBVIOUS
<1>1. PICK r \in Requirement :
        /\ trail' = Append(trail, KeepAmbiguity(Current, r))
        /\ unchanged' = IF Changed(Current, KeepAmbiguity(Current, r)) THEN 0 ELSE unchanged + 1
        /\ Settle(KeepAmbiguity(Current, r))
  BY DEF Revise
<1>2. Current \in Requirement
  BY LenProperties DEF IInv, PlanTypeOK, Opened, Revise, Current
<1>3. KeepAmbiguity(Current, r) \in Requirement
  BY <1>2, KeptFacts
<1> QED
  BY <1>1, <1>2, <1>3, KeptFacts DEF Revise, Revision

LEMMA RevisionIInv ==
  ASSUME NEW next \in Requirement, IInv, Revision(next)
  PROVE  IInv'
<1> DEFINE L == Len(trail)
<1>1. /\ L \in Nat \ {0} /\ L <= MaxRounds /\ DOMAIN trail = 1..L
      /\ trail' \in Seq(Requirement) /\ Len(trail') = L + 1 /\ DOMAIN trail' = 1..L + 1
      /\ \A k \in 1..L : trail'[k] = trail[k]
      /\ trail'[L + 1] = next
      /\ Current = trail[L] /\ Current' = next /\ trail[L] \in Requirement
  <2>1. trail \in Seq(Requirement) /\ trail # <<>> /\ L <= MaxRounds
    BY DEF IInv, PlanTypeOK, Opened, MayGoOn, Talking, Revision
  <2>2. L \in Nat \ {0} /\ trail[L] \in Requirement
    BY <2>1, LenProperties
  <2> QED
    BY <2>1, <2>2, LongerTrail DEF Revision, Current
<1>2. /\ unchanged \in Nat /\ unchanged < MaxUnchanged /\ unchanged < L
      /\ trail[L].decision = "none" /\ trail[L].answerable /\ decision = "none"
      /\ MaxRounds \in Nat \ {0} /\ MaxUnchanged \in Nat \ {0}
  BY <1>1, NegotiationAssumption
     DEF IInv, PlanTypeOK, MayGoOn, CountIsExact, Talking, Revision
<1>3. /\ decision' \in Decisions \cup {"none"}
      /\ phase' = IF decision' = "none" THEN "assess" ELSE "done"
      /\ decision' = "none" =>
           /\ DecisionOf(next) = "none" /\ unchanged' < MaxUnchanged /\ L + 1 <= MaxRounds
      /\ decision' = "CANNOT_REACH_AGREEMENT" =>
           \/ DecisionOf(next) = "CANNOT_REACH_AGREEMENT"
           \/ DecisionOf(next) = "none" /\ (unchanged' >= MaxUnchanged \/ L = MaxRounds)
  <2>1. unchanged' \in Nat
    BY <1>2 DEF Revision
  <2>2. Round + 1 = L
    BY <1>1 DEF Round
  <2> QED
    BY <1>1, <1>2, <2>1, <2>2, DecisionFacts DEF Revision, Settle, Decisions
<1>4. \A k \in 1..L - 1 : StillIn(trail', k) <=> StillIn(trail, k)
  BY <1>1 DEF StillIn
<1>5. /\ unchanged' = unchanged + 1 \/ unchanged' = 0
      /\ unchanged' = unchanged + 1 => StillIn(trail', L)
      /\ unchanged' = 0 /\ next.decision = "none" => ~StillIn(trail', L)
  <2>1. unchanged' = IF Changed(trail[L], next) THEN 0 ELSE unchanged + 1
    BY <1>1 DEF Revision
  <2>2. StillIn(trail', L) <=>
          /\ trail[L].plan = next.plan /\ trail[L].family = next.family
          /\ trail[L].questions \subseteq next.questions
    BY <1>1 DEF StillIn
  <2> QED
    BY <1>2, <2>1, <2>2, ChangedFacts
<1>6. PlanTypeOK'
  <2>1. trail' \in Seq(Requirement) /\ Len(trail') <= MaxRounds + 1
    BY <1>1, <1>2
  <2>2. unchanged' \in 0..MaxUnchanged
    BY <1>2, <1>5
  <2>3. assessment' \in {"feasible", "infeasible", "missing"}
    BY DEF IInv, PlanTypeOK, Revision
  <2>4. phase' \in {"derive", "assess", "revise", "done"} /\ (phase' = "done" <=> decision' # "none")
    BY <1>3
  <2> QED
    BY <1>3, <2>1, <2>2, <2>3, <2>4 DEF PlanTypeOK
<1>7. Opened'
  BY <1>1, <1>3 DEF Opened
<1>8. MayGoOn'
  BY <1>1, <1>3, DecisionFacts DEF MayGoOn, Talking
<1>9. \A k \in L - unchanged..L - 1 : StillIn(trail, k)
  BY <1>1 DEF IInv, CountIsExact, Talking, Revision, Still, StillIn
<1>10. unchanged' = unchanged + 1 => \A k \in L + 1 - unchanged'..L : StillIn(trail', k)
  BY <1>1, <1>2, <1>4, <1>5, <1>9
<1>11. unchanged < L - 1 => ~StillIn(trail, L - 1 - unchanged)
  BY <1>1 DEF IInv, CountIsExact, Talking, Revision, Still, StillIn
<1>12. CountIsExact'
  <2> SUFFICES ASSUME Talking'
               PROVE  /\ unchanged' < L + 1
                      /\ \A k \in L + 1 - unchanged'..L : StillIn(trail', k)
                      /\ unchanged' < L => ~StillIn(trail', L - unchanged')
    <3>1. CountIsExact' <=>
            (Talking' => /\ unchanged' < Len(trail')
                         /\ \A k \in Len(trail') - unchanged'..Len(trail') - 1 :
                              StillIn(trail', k)
                         /\ unchanged' < Len(trail') - 1
                              => ~StillIn(trail', Len(trail') - 1 - unchanged'))
      BY DEF CountIsExact, Still, StillIn
    <3>2. /\ Len(trail') - 1 = L /\ Len(trail') = L + 1
          /\ Len(trail') - 1 - unchanged' = L - unchanged'
      BY <1>1, <1>2, <1>5
    <3>3. unchanged' \in Nat /\ L \in Nat
      BY <1>1, <1>2, <1>5
    <3> QED
      BY <3>1, <3>2, <3>3
  <2>1. next.decision = "none"
    BY <1>1, <1>3, DecisionFacts DEF Talking
  <2>2. CASE unchanged' = unchanged + 1
    BY <1>1, <1>2, <1>4, <1>10, <1>11, <2>2
  <2>3. CASE unchanged' = 0
    BY <1>1, <1>5, <2>1, <2>3
  <2> QED
    BY <1>5, <2>2, <2>3
<1>13. StallIsEarned'
  <2> SUFFICES ASSUME decision' = "CANNOT_REACH_AGREEMENT"
               PROVE  \/ next.decision = "CANNOT_REACH_AGREEMENT" \/ L = MaxRounds
                      \/ \A k \in L + 1 - MaxUnchanged..L : k > 0 /\ StillIn(trail', k)
    <3>1. StallIsEarned' <=>
            (decision' = "CANNOT_REACH_AGREEMENT" =>
               \/ Current'.decision = "CANNOT_REACH_AGREEMENT"
               \/ Len(trail') - 1 = MaxRounds
               \/ \A k \in Len(trail') - MaxUnchanged..Len(trail') - 1 :
                    k > 0 /\ StillIn(trail', k))
      BY DEF StallIsEarned, Round, Still, StillIn
    <3>2. Len(trail') - 1 = L /\ Len(trail') = L + 1
      BY <1>1
    <3>3. Current'.decision = next.decision /\ L \in Nat /\ MaxUnchanged \in Nat
      BY <1>1, <1>2
    <3>4. Len(trail') - MaxUnchanged..Len(trail') - 1 = L + 1 - MaxUnchanged..L
      BY <3>2, <3>3
    <3> QED
      BY <3>1, <3>2, <3>3, <3>4
  <2>1. CASE DecisionOf(next) = "CANNOT_REACH_AGREEMENT"
    BY <2>1, DecisionFacts
  <2>2. CASE unchanged' >= MaxUnchanged
    <3>1. unchanged' = unchanged + 1 /\ unchanged' = MaxUnchanged
      BY <1>2, <1>5, <2>2
    <3>2. \A k \in L + 1 - MaxUnchanged..L : StillIn(trail', k)
      BY <1>10, <3>1
    <3>3. \A k \in L + 1 - MaxUnchanged..L : k > 0
      BY <1>1, <1>2, <3>1
    <3> QED
      BY <3>2, <3>3
  <2> QED
    BY <1>3, <2>1, <2>2
<1>14. NoIdleRound'
  <2> SUFFICES ASSUME NEW k \in 1..L
               PROVE  /\ trail'[k].decision = "none" /\ trail'[k].answerable
                      /\ k > MaxUnchanged => \E j \in k - MaxUnchanged..k - 1 : ~StillIn(trail', j)
    BY <1>1 DEF NoIdleRound, Still, StillIn
  <2>1. CASE k < L
    <3>1. /\ trail[k].decision = "none" /\ trail[k].answerable
          /\ k > MaxUnchanged => \E j \in k - MaxUnchanged..k - 1 : ~StillIn(trail, j)
      BY <1>1, <2>1 DEF IInv, NoIdleRound, Still, StillIn
    <3> QED
      BY <1>1, <1>2, <1>4, <2>1, <3>1
  <2>2. CASE k = L
    <3>1. L > MaxUnchanged =>
            L - 1 - unchanged \in L - MaxUnchanged..L - 1 /\ L - 1 - unchanged \in 1..L - 1
      BY <1>1, <1>2
    <3>2. L > MaxUnchanged => ~StillIn(trail', L - 1 - unchanged)
      BY <1>1, <1>2, <1>4, <1>11, <3>1
    <3> QED
      BY <1>1, <1>2, <2>2, <3>1, <3>2
  <2> QED
    BY <1>1, <2>1, <2>2
<1>15. AmbiguityStands'
  <2>1. ASSUME NEW j \in 1..L, trail[j].family = "ambiguous"
        PROVE  next.family = "ambiguous"
    BY <1>1, <2>1 DEF IInv, AmbiguityStands, Revision
  <2> QED
    BY <1>1, <2>1 DEF IInv, AmbiguityStands
<1> QED
  BY <1>6, <1>7, <1>8, <1>12, <1>13, <1>14, <1>15 DEF IInv

LEMMA Inductive == IInv /\ [PlanNext]_planVars => IInv'
<1>1. IInv /\ Revise => IInv'
  BY ReviseIsRevision, RevisionIInv
<1> QED
  BY <1>1, DeriveIInv, AssessIInv DEF PlanNext

-----------------------------------------------------------------------------
(* The theorems about a negotiation.                                       *)

\* The inductive invariant holds in every state of the specification.
THEOREM Invariance == PlanSpec => []IInv
BY Initially, Inductive, PTL DEF PlanSpec

\* A negotiation stays in its rounds, fails only for a reason, wastes no round and settles no
\* ambiguity by itself, for every bound on rounds and still rounds.
THEOREM NegotiationCorrect == PlanSpec => []PlanIsSettled
<1>1. IInv => PlanIsSettled
  BY DEF IInv, PlanIsSettled
<1> QED
  BY <1>1, Invariance, PTL

\* A step of the negotiation is a draft of the deliberation, or none of its business.
LEMMA StepIsDraft == IInv /\ [PlanNext]_planVars => [Promise!Draft]_(Promise!talk)
<1> SUFFICES ASSUME IInv, [PlanNext]_planVars PROVE [Promise!Draft]_(Promise!talk)
  OBVIOUS
<1> DEFINE doubt == trail # <<>> /\ Current.family = "ambiguous"
<1>1. CASE Assess \/ UNCHANGED planVars
  <2>1. trail' = trail /\ decision' = decision
    BY <1>1 DEF Assess, planVars
  <2> QED
    BY <2>1 DEF Promise!talk, Current
<1>2. CASE Derive
  <2>1. decision = "none" /\ trail = <<>> /\ Len(trail) = 0 /\ Len(trail') = 1
    BY <1>2 DEF Derive, IInv, PlanTypeOK, Opened
  <2>2. decision' \in {"none", "UNSUPPORTED"}
    BY <1>2 DEF Derive
  <2> QED
    BY <2>1, <2>2, NegotiationAssumption DEF Promise!Draft, Decisions
<1>3. CASE Revise
  <2>1. PICK next \in Requirement : Revision(next)
    BY <1>3, ReviseIsRevision
  <2>2. /\ Len(trail) \in Nat \ {0} /\ trail # <<>> /\ decision = "none"
        /\ Len(trail') = Len(trail) + 1 /\ trail' # <<>> /\ Current' = next
    <3>1. trail \in Seq(Requirement) /\ trail # <<>> /\ decision = "none"
      BY <2>1 DEF IInv, PlanTypeOK, Opened, Revision
    <3>2. Len(trail) \in Nat \ {0}
      BY <3>1, LenProperties
    <3> QED
      BY <2>1, <3>1, <3>2, LongerTrail DEF Revision, Current
  <2>3. doubt => doubt'
    BY <2>1, <2>2 DEF Revision
  <2>4. /\ decision' \in (Decisions \ {"NEEDS_USER_INPUT"}) \cup {"none"}
        /\ Len(trail) = MaxRounds => decision' # "none"
    BY <2>1, <2>2, DecisionFacts DEF Revision, Settle, Round, Decisions
  <2> QED
    BY <2>2, <2>3, <2>4 DEF Promise!Draft
<1> QED
  BY <1>1, <1>2, <1>3 DEF PlanNext

\* The negotiation, seen by whoever waits for the plan, is the deliberation it promises.
THEOREM NegotiationDeliberates == PlanSpec => Promise!Safe
<1>1. PlanInit => Promise!Init
  BY DEF PlanInit, Promise!Init
<1> QED
  BY <1>1, StepIsDraft, Invariance, PTL DEF PlanSpec, Promise!Safe

-----------------------------------------------------------------------------
(* The inductive invariant of a conversation.                              *)

Owners  == 0..MaxTurns
Entries == [task : Turns, left : 0..Retries]
Steps   == {"idle", "answer", "provide", "resume", "rerun", "classify", "gate", "derive",
            "execute", "compose", "reply", "done", "failed"}
Holding == {"answer", "provide", "resume", "rerun"}
Asking  == {"classify", "gate", "derive", "execute"}
Spoken  == {s \in [clarified : BOOLEAN, waiting : Unfinished \cup {NoTask},
                   rounds : 0..GateRounds \cup {1}] :
              /\ s.waiting # NoTask \/ s.rounds > 0 => s.clarified
              /\ s.waiting = NoTask \/ s.rounds = 0}
Sessions == {s \in [turns : SUBSET Turns, clarified : BOOLEAN, waiting : Unfinished \cup {NoTask},
                    rounds : 0..GateRounds \cup {1}] :
               /\ s.waiting # NoTask \/ s.rounds > 0 => s.clarified
               /\ s.waiting = NoTask \/ s.rounds = 0}

Unique == \A i, j \in DOMAIN store : store[i].task = store[j].task => i = j

TalkShape == /\ Bounds
             /\ session \in Sessions /\ heard \in [Turns -> Sessions] /\ out \in [Turns -> Spoken]
             /\ store \in Seq(Entries) /\ Unique
             /\ closed \subseteq Turns /\ live \subseteq Turns /\ ran \subseteq Turns
             /\ pc \in [Turns -> Steps] /\ reply \in [Turns -> Replies]
             /\ plan \in [Turns -> Kinds \cup {"none"}] /\ left \in [Turns -> 0..Retries]
             /\ evictions \in Nat /\ streak \in Nat
             /\ asks \in [Turns -> Nat] /\ runs \in [Turns -> Nat]
             /\ \A t \in Turns : pc[t] \in Holding => heard[t].waiting # NoTask
             /\ \A t \in Turns : pc[t] = "execute" => plan[t] \in Kinds

-----------------------------------------------------------------------------
(* The store.                                                              *)

LEMMA StoreFacts ==
  ASSUME store \in Seq(Entries)
  PROVE  /\ Len(store) \in Nat /\ DOMAIN store = 1..Len(store)
         /\ \A k \in DOMAIN store : store[k] \in Entries
BY LenProperties, ElementOfSeq

LEMMA RememberFacts ==
  ASSUME TalkShape, NEW task \in Turns, NEW n \in 0..Retries, Remember(task, n)
  PROVE  /\ store' \in Seq(Entries) /\ Unique' /\ Stored' = Stored \cup {task}
         /\ \A k \in DOMAIN store' :
               \/ store'[k] = [task |-> task, left |-> n]
               \/ store'[k].task # task /\ \E j \in DOMAIN store : store[j] = store'[k]
<1> DEFINE e == [task |-> task, left |-> n]
<1>1. e \in Entries /\ e.task = task
  BY DEF Entries
<1>2. /\ Len(store) \in Nat /\ DOMAIN store = 1..Len(store)
      /\ \A k \in DOMAIN store : store[k] \in Entries
  BY StoreFacts DEF TalkShape
<1> HIDE DEF e
<1>3. CASE task \in Stored
  <2>1. store' = [k \in 1..Len(store) |-> IF store[k].task = task THEN e ELSE store[k]]
    BY <1>2, <1>3 DEF Remember, e
  <2>2. store' \in Seq(Entries) /\ DOMAIN store' = DOMAIN store
    BY <1>1, <1>2, <2>1, SeqDef
  <2>3. \A k \in DOMAIN store : store'[k] = IF store[k].task = task THEN e ELSE store[k]
    BY <1>2, <2>1
  <2>4. \A k \in DOMAIN store : store'[k].task = store[k].task
    BY <1>1, <2>3
  <2>5. Stored' = Stored
    BY <2>2, <2>4 DEF Stored
  <2> QED
    BY <1>1, <1>3, <2>2, <2>3, <2>4, <2>5 DEF Unique, TalkShape, e
<1>4. CASE task \notin Stored
  <2>1. store' = Append(store, e)
    BY <1>4 DEF Remember, e
  <2>2. /\ store' \in Seq(Entries) /\ Len(store') = Len(store) + 1 /\ DOMAIN store' = 1..(Len(store) + 1)
        /\ \A k \in 1..Len(store) : store'[k] = store[k]
        /\ store'[Len(store) + 1] = e
    BY <1>1, <1>2, <2>1, AppendProperties, LenProperties DEF TalkShape
  <2>3. \A k \in DOMAIN store : store[k].task # task
    BY <1>4 DEF Stored
  <2>4. \A k \in DOMAIN store' : k \in DOMAIN store \/ k = Len(store) + 1
    BY <1>2, <2>2
  <2>5. Unique'
    BY <1>1, <1>2, <2>2, <2>3, <2>4 DEF Unique, TalkShape
  <2>6. Stored' = Stored \cup {task}
    <3>1. \A x \in Stored' : x \in Stored \cup {task}
      BY <1>1, <1>2, <2>2, <2>4 DEF Stored
    <3>2. \A x \in Stored : x \in Stored'
      BY <1>2, <2>2 DEF Stored
    <3>3. task \in Stored'
      BY <1>1, <1>2, <2>2 DEF Stored
    <3> QED
      BY <3>1, <3>2, <3>3
  <2> QED
    BY <1>1, <1>2, <2>2, <2>3, <2>4, <2>5, <2>6 DEF e
<1> QED
  BY <1>3, <1>4

\* What a store keeps of another one.
Shrinks(gone) == /\ store' \in Seq(Entries) /\ Unique' /\ Stored' = Stored \ gone
                 /\ \A k \in DOMAIN store' : \E j \in DOMAIN store : store[j] = store'[k]

LEMMA RemoveAtFacts ==
  ASSUME NEW S, NEW s \in Seq(S), NEW p \in 1..Len(s)
  PROVE  /\ RemoveAt(s, p) \in Seq(S) /\ Len(RemoveAt(s, p)) = Len(s) - 1
         /\ \A k \in 1..(Len(s) - 1) : RemoveAt(s, p)[k] = s[IF k < p THEN k ELSE k + 1]
<1> DEFINE n == Len(s)
           a == SubSeq(s, 1, p - 1)
           b == SubSeq(s, p + 1, n)
<1>1. n \in Nat /\ p \in 1..n /\ \A i \in 1..n : s[i] \in S
  BY LenProperties, ElementOfSeq
<1>2. p \in Int /\ p - 1 \in Int /\ p + 1 \in Int /\ n \in Int /\ 1 \in Int
  BY <1>1
<1>3. (\A i \in 1..(p - 1) : s[i] \in S) /\ (\A i \in (p + 1)..n : s[i] \in S)
  BY <1>1
<1> HIDE DEF n
<1>4. /\ a \in Seq(S) /\ Len(a) = p - 1
      /\ \A i \in 1..(p - 1) : a[i] = s[i]
  <2>1. /\ a \in Seq(S) /\ Len(a) = IF 1 <= p - 1 THEN (p - 1) - 1 + 1 ELSE 0
        /\ \A i \in 1..((p - 1) - 1 + 1) : a[i] = s[1 + i - 1]
    BY <1>2, <1>3, SubSeqProperties
  <2> HIDE DEF a
  <2>2. \A i \in 1..(p - 1) : i \in 1..((p - 1) - 1 + 1) /\ 1 + i - 1 = i
    BY <1>1
  <2>3. \A i \in 1..(p - 1) : a[i] = s[i]
    BY <2>1, <2>2
  <2> QED
    BY <2>1, <2>3, <1>1
<1>5. /\ b \in Seq(S) /\ Len(b) = n - p
      /\ \A i \in 1..(n - p) : b[i] = s[p + i]
  <2>1. /\ b \in Seq(S) /\ Len(b) = IF p + 1 <= n THEN n - (p + 1) + 1 ELSE 0
        /\ \A i \in 1..(n - (p + 1) + 1) : b[i] = s[(p + 1) + i - 1]
    BY <1>2, <1>3, SubSeqProperties
  <2> HIDE DEF b
  <2>2. \A i \in 1..(n - p) : i \in 1..(n - (p + 1) + 1) /\ (p + 1) + i - 1 = p + i
    BY <1>1
  <2>3. \A i \in 1..(n - p) : b[i] = s[p + i]
    BY <2>1, <2>2
  <2> QED
    BY <2>1, <2>3, <1>1
<1>6. RemoveAt(s, p) = a \o b
  BY DEF RemoveAt, n
<1> HIDE DEF a, b
<1>7. /\ a \o b \in Seq(S) /\ Len(a \o b) = Len(a) + Len(b)
      /\ \A i \in 1..(Len(a) + Len(b)) : (a \o b)[i] = IF i <= Len(a) THEN a[i] ELSE b[i - Len(a)]
  BY <1>4, <1>5, ConcatProperties
<1>8. Len(a) + Len(b) = n - 1
  BY <1>1, <1>4, <1>5
<1>9. ASSUME NEW k \in 1..(n - 1) PROVE (a \o b)[k] = s[IF k < p THEN k ELSE k + 1]
  <2>1. (a \o b)[k] = IF k <= Len(a) THEN a[k] ELSE b[k - Len(a)]
    BY <1>7, <1>8
  <2>2. CASE k < p
    <3>1. k <= Len(a) /\ k \in 1..(p - 1)
      BY <1>1, <1>4, <2>2
    <3> QED
      BY <2>1, <2>2, <3>1, <1>4
  <2>3. CASE ~(k < p)
    <3>1. ~(k <= Len(a)) /\ k - Len(a) \in 1..(n - p) /\ p + (k - Len(a)) = k + 1
      BY <1>1, <1>4, <2>3
    <3>2. b[k - Len(a)] = s[p + (k - Len(a))]
      BY <1>5, <3>1
    <3> QED
      BY <2>1, <2>3, <3>1, <3>2
  <2> QED
    BY <2>2, <2>3
<1> QED
  BY <1>6, <1>7, <1>8, <1>9 DEF n

LEMMA ForgetFacts ==
  ASSUME TalkShape, NEW task \in Turns, Forget(task)
  PROVE  Shrinks({task})
<1>1. /\ Len(store) \in Nat /\ DOMAIN store = 1..Len(store)
      /\ \A k \in DOMAIN store : store[k] \in Entries
  BY StoreFacts DEF TalkShape
<1>2. CASE task \notin Stored
  BY <1>2 DEF Forget, Shrinks, TalkShape, Unique, Stored
<1>3. CASE task \in Stored
  <2> DEFINE p == Place(task)
  <2>1. p \in 1..Len(store) /\ store[p].task = task
    BY <1>1, <1>3 DEF Place, Stored
  <2>2. store' = RemoveAt(store, p) /\ store \in Seq(Entries)
    BY <1>3 DEF Forget, TalkShape
  <2> HIDE DEF p
  <2>6. /\ store' \in Seq(Entries) /\ DOMAIN store' = 1..(Len(store) - 1)
        /\ \A k \in 1..(Len(store) - 1) : store'[k] = store[IF k < p THEN k ELSE k + 1]
    BY <2>1, <2>2, RemoveAtFacts, LenProperties
  <2>7. \A k \in DOMAIN store' :
           (IF k < p THEN k ELSE k + 1) \in DOMAIN store /\ (IF k < p THEN k ELSE k + 1) # p
    BY <1>1, <2>1, <2>6
  <2>8. Unique'
    <3> SUFFICES ASSUME NEW i \in DOMAIN store', NEW j \in DOMAIN store',
                        store'[i].task = store'[j].task
                 PROVE  i = j
      BY DEF Unique
    <3>1. (IF i < p THEN i ELSE i + 1) = (IF j < p THEN j ELSE j + 1)
      BY <2>6, <2>7 DEF TalkShape, Unique
    <3> QED
      BY <3>1, <1>1, <2>1, <2>6
  <2>9. Stored' = Stored \ {task}
    <3>1. ASSUME NEW x \in Stored' PROVE x \in Stored \ {task}
      <4> PICK k \in DOMAIN store' : store'[k].task = x
        BY <3>1 DEF Stored
      <4>1. store[IF k < p THEN k ELSE k + 1].task = x
        BY <2>6
      <4>2. x # task
        BY <4>1, <2>1, <2>7, <1>1 DEF TalkShape, Unique
      <4> QED
        BY <4>1, <4>2, <2>7 DEF Stored
    <3>2. ASSUME NEW x \in Stored \ {task} PROVE x \in Stored'
      <4> PICK j \in DOMAIN store : store[j].task = x
        BY <3>2 DEF Stored
      <4>1. j # p
        BY <2>1
      <4>2. CASE j < p
        <5>1. j \in DOMAIN store' /\ store'[j] = store[j]
          BY <4>2, <1>1, <2>1, <2>6
        <5> QED
          BY <5>1 DEF Stored
      <4>3. CASE j > p
        <5>1. j - 1 \in DOMAIN store' /\ ~(j - 1 < p) /\ (j - 1) + 1 = j
          BY <4>3, <1>1, <2>1, <2>6
        <5>2. store'[j - 1] = store[j]
          BY <5>1, <2>6
        <5> QED
          BY <5>1, <5>2 DEF Stored
      <4> QED
        BY <4>1, <4>2, <4>3, <1>1, <2>1
    <3> QED
      BY <3>1, <3>2
  <2> QED
    BY <2>6, <2>7, <2>8, <2>9 DEF Shrinks
<1> QED
  BY <1>2, <1>3

LEMMA EvictFacts ==
  ASSUME TalkShape, Evict
  PROVE  \E gone \in SUBSET Turns : Shrinks(gone)
<1>1. /\ Len(store) \in Nat /\ DOMAIN store = 1..Len(store) /\ store # <<>> /\ store \in Seq(Entries)
      /\ \A k \in DOMAIN store : store[k] \in Entries
  BY StoreFacts DEF TalkShape, Evict
<1>2. Len(store) > 0
  BY <1>1, EmptySeq
<1>3. /\ store' \in Seq(Entries) /\ DOMAIN store' = 1..(Len(store) - 1)
      /\ \A k \in 1..(Len(store) - 1) : store'[k] = store[k + 1]
  BY <1>1, <1>2, HeadTailProperties, LenProperties DEF Evict
<1>4. \A k \in DOMAIN store' : k + 1 \in DOMAIN store
  BY <1>1, <1>3
<1>5. Unique'
  <2> SUFFICES ASSUME NEW i \in DOMAIN store', NEW j \in DOMAIN store',
                      store'[i].task = store'[j].task
               PROVE  i = j
    BY DEF Unique
  <2>1. i + 1 \in DOMAIN store /\ j + 1 \in DOMAIN store /\ i \in Nat /\ j \in Nat
    BY <1>1, <1>3, <1>4
  <2>2. store[i + 1].task = store[j + 1].task
    BY <1>3
  <2>3. i + 1 = j + 1
    BY <2>1, <2>2 DEF TalkShape, Unique
  <2> QED
    BY <2>1, <2>3
<1>6. Stored' \subseteq Stored /\ Stored \subseteq Turns
  BY <1>1, <1>3, <1>4 DEF Stored, Entries
<1>7. Stored' = Stored \ (Stored \ Stored') /\ Stored \ Stored' \in SUBSET Turns
  BY <1>6
<1>8. Shrinks(Stored \ Stored')
  BY <1>3, <1>4, <1>5, <1>7 DEF Shrinks
<1> QED
  BY <1>7, <1>8

-----------------------------------------------------------------------------
(* Who has a task: the session (0) while everybody rests, or the turn that *)
(* took it from the session or is about to hand it over.                   *)

Driving(t) == t \in live /\ ~AtRest(t)
Resting    == \A t \in Turns : Idle(t)
TaskOf(o)  == IF o = 0 THEN IF Resting THEN session.waiting.task ELSE 0
              ELSE IF pc[o] \in Holding THEN heard[o].waiting.task
              ELSE IF pc[o] = "reply" /\ o \in live THEN out[o].waiting.task
              ELSE 0
Begun(t)   == pc[t] \in {"compose", "reply", "done"}

\* What holds of a task, of its plan in the store and of its owner.
TaskOK(task) ==
  /\ asks[task] <= 1 + Retries /\ runs[task] <= 1
  /\ ~Begun(task) => /\ asks[task] = 0 /\ runs[task] = 0
                     /\ task \notin closed /\ task \notin Stored
                     /\ \A o \in Owners : TaskOf(o) # task
  /\ \A k \in DOMAIN store : store[k].task = task =>
        asks[task] + store[k].left <= 1 + Retries /\ runs[task] = 0
  /\ \A o, p \in Owners : TaskOf(o) = task /\ TaskOf(p) = task => o = p
  /\ \A o \in Owners : TaskOf(o) = task =>
        /\ task \notin closed
        /\ evictions = 0 => (o # 0 /\ pc[o] = "rerun") \/ task \in Stored
        /\ o # 0 /\ pc[o] = "resume" => asks[task] + left[o] <= 1 + Retries /\ runs[task] = 0
        /\ o # 0 /\ pc[o] = "rerun" => runs[task] = 0 /\ task \notin Stored

OneTurn  == \A t, u \in Turns : Driving(t) /\ Driving(u) => t = u
TasksOK  == \A task \in Turns : TaskOK(task)

LEMMA TurnFacts ==
  ASSUME Bounds
  PROVE  /\ 0 \in Owners /\ \A t \in Turns : t \in Owners /\ t # 0
         /\ \A o \in Owners : o = 0 \/ o \in Turns
         /\ NoTask.task = 0
         /\ \A w \in Unfinished \cup {NoTask} : w.task \in Owners /\ (w = NoTask <=> w.task = 0)
BY DEF Bounds, Owners, Turns, Unfinished, NoTask

LEMMA OwnersTyped ==
  ASSUME TalkShape
  PROVE  /\ \A o \in Owners : TaskOf(o) \in Owners
         /\ \A t \in Turns : /\ heard[t].waiting.task \in Owners /\ out[t].waiting.task \in Owners
                             /\ pc[t] \in Holding => heard[t].waiting.task \in Turns
                             /\ heard[t].waiting = NoTask <=> heard[t].waiting.task = 0
                             /\ out[t].waiting = NoTask <=> out[t].waiting.task = 0
         /\ session.waiting.task \in Owners
         /\ session.waiting = NoTask <=> session.waiting.task = 0
<1>1. \A t \in Turns : /\ heard[t].waiting \in Unfinished \cup {NoTask}
                       /\ out[t].waiting \in Unfinished \cup {NoTask}
  BY DEF TalkShape, Sessions, Spoken
<1>2. session.waiting \in Unfinished \cup {NoTask}
  BY DEF TalkShape, Sessions
<1>3. Bounds /\ \A t \in Turns : pc[t] \in Holding => heard[t].waiting # NoTask
  BY DEF TalkShape
<1> QED
  BY <1>1, <1>2, <1>3, TurnFacts DEF TaskOf

\* A step leaves a task alone whose owners are those it had, under names that may be exchanged.
LEMMA Untouched ==
  ASSUME NEW task \in Turns, TaskOK(task), Begun(task) => Begun(task)',
         NEW f \in [Owners -> Owners], \A o, p \in Owners : f[o] = f[p] => o = p,
         asks'[task] = asks[task], runs'[task] = runs[task], task \in closed' => task \in closed,
         task \in Stored' => task \in Stored,
         evictions' = 0 => evictions = 0 /\ (task \in Stored => task \in Stored'),
         \A k \in DOMAIN store' : store'[k].task = task => \E j \in DOMAIN store : store[j] = store'[k],
         \A o \in Owners : TaskOf(o)' = task =>
            /\ TaskOf(f[o]) = task
            /\ o # 0 /\ pc'[o] \in {"resume", "rerun"} => f[o] = o /\ pc[o] = pc'[o] /\ left'[o] = left[o]
            /\ f[o] # 0 /\ pc[f[o]] = "rerun" => f[o] = o /\ pc'[o] = "rerun"
  PROVE  TaskOK(task)'
<1>1. asks'[task] <= 1 + Retries /\ runs'[task] <= 1
  BY DEF TaskOK
<1>2. ~Begun(task)' => /\ asks'[task] = 0 /\ runs'[task] = 0
                      /\ task \notin closed' /\ task \notin Stored'
                      /\ \A o \in Owners : TaskOf(o)' # task
  BY DEF TaskOK
<1>3. \A k \in DOMAIN store' : store'[k].task = task =>
        asks'[task] + store'[k].left <= 1 + Retries /\ runs'[task] = 0
  BY DEF TaskOK
<1>4. \A o, p \in Owners : TaskOf(o)' = task /\ TaskOf(p)' = task => o = p
  BY DEF TaskOK
<1>5. ASSUME NEW o \in Owners, TaskOf(o)' = task
      PROVE  /\ task \notin closed'
             /\ evictions' = 0 => (o # 0 /\ pc'[o] = "rerun") \/ task \in Stored'
             /\ o # 0 /\ pc'[o] = "resume" => asks'[task] + left'[o] <= 1 + Retries /\ runs'[task] = 0
             /\ o # 0 /\ pc'[o] = "rerun" => runs'[task] = 0 /\ task \notin Stored'
  <2>1. TaskOf(f[o]) = task /\ f[o] \in Owners
    BY <1>5
  <2>2. /\ task \notin closed
        /\ evictions = 0 => (f[o] # 0 /\ pc[f[o]] = "rerun") \/ task \in Stored
        /\ f[o] # 0 /\ pc[f[o]] = "resume" => asks[task] + left[f[o]] <= 1 + Retries /\ runs[task] = 0
        /\ f[o] # 0 /\ pc[f[o]] = "rerun" => runs[task] = 0 /\ task \notin Stored
    BY <2>1 DEF TaskOK
  <2>3. evictions' = 0 => (o # 0 /\ pc'[o] = "rerun") \/ task \in Stored'
    BY <2>2, <1>5
  <2>4. o # 0 /\ pc'[o] = "resume" => asks'[task] + left'[o] <= 1 + Retries /\ runs'[task] = 0
    BY <2>2, <1>5
  <2>5. o # 0 /\ pc'[o] = "rerun" => runs'[task] = 0 /\ task \notin Stored'
    BY <2>2, <1>5
  <2> QED
    BY <2>2, <2>3, <2>4, <2>5
<1> QED
  BY <1>1, <1>2, <1>3, <1>4, <1>5 DEF TaskOK

-----------------------------------------------------------------------------
(* A step of the worker of one turn, which others do not feel.             *)

Working == Steps \ {"idle", "done", "failed"}
Works(t) == /\ UNCHANGED <<session, live, evictions, streak>>
            /\ pc[t] \in Working /\ pc'[t] \in Working /\ (Begun(t) => Begun(t)')
            /\ \A u \in Turns \ {t} : /\ pc'[u] = pc[u] /\ heard'[u] = heard[u] /\ out'[u] = out[u]
                                       /\ left'[u] = left[u] /\ reply'[u] = reply[u]

LEMMA OthersKept ==
  ASSUME TalkShape, NEW t \in Turns, Works(t)
  PROVE  /\ Resting' <=> Resting
         /\ \A u \in Turns : (Driving(u)' <=> Driving(u)) /\ (Begun(u) => Begun(u)')
         /\ \A o \in Owners \ {t} : TaskOf(o)' = TaskOf(o)
<1>1. \A u \in Turns : AtRest(u)' <=> AtRest(u)
  BY DEF AtRest, Works, Working
<1>2. \A u \in Turns : (Idle(u)' <=> Idle(u)) /\ (Driving(u)' <=> Driving(u))
  BY <1>1 DEF Idle, Driving, Works
<1>3. Resting' <=> Resting
  BY <1>2 DEF Resting
<1>4. \A u \in Turns : Begun(u) => Begun(u)'
  BY DEF Begun, Works
<1>5. TaskOf(0)' = TaskOf(0)
  BY <1>3 DEF TaskOf, Works
<1>6. \A u \in Turns \ {t} : TaskOf(u)' = TaskOf(u)
  BY TurnFacts DEF TaskOf, Works, TalkShape
<1> QED
  BY <1>2, <1>3, <1>4, <1>5, <1>6, TurnFacts DEF TalkShape

\* What a step does not do to a task.
Keeps(task) == /\ asks'[task] = asks[task] /\ runs'[task] = runs[task]
               /\ task \in closed' <=> task \in closed
               /\ task \in Stored' <=> task \in Stored
               /\ \A k \in DOMAIN store' : store'[k].task = task =>
                     \E j \in DOMAIN store : store[j] = store'[k]

\* The tasks that others have.
OthersMind(t) == \A task \in Turns, o \in Owners \ {t} : TaskOf(o) = task => Keeps(task)

LEMMA KeptTask ==
  ASSUME TalkShape, NEW t \in Turns, Works(t), NEW task \in Turns, TaskOK(task), Keeps(task),
         \/ TaskOf(t)' # task
         \/ TaskOf(t) = task /\ pc'[t] \notin {"resume", "rerun"} /\ pc[t] # "rerun"
  PROVE  TaskOK(task)'
<1> DEFINE f == [o \in Owners |-> o]
<1>1. f \in [Owners -> Owners] /\ \A o \in Owners : f[o] = o
  OBVIOUS
<1> HIDE DEF f
<1>2. /\ \A o \in Owners \ {t} : TaskOf(o)' = TaskOf(o)
      /\ Begun(task) => Begun(task)'
  BY OthersKept
<1>3. \A o \in Owners \ {t} : o # 0 => pc'[o] = pc[o] /\ left'[o] = left[o]
  BY TurnFacts DEF Works, TalkShape
<1>4. ASSUME NEW o \in Owners, TaskOf(o)' = task
      PROVE  /\ TaskOf(f[o]) = task
             /\ o # 0 /\ pc'[o] \in {"resume", "rerun"} => f[o] = o /\ pc[o] = pc'[o] /\ left'[o] = left[o]
             /\ f[o] # 0 /\ pc[f[o]] = "rerun" => f[o] = o /\ pc'[o] = "rerun"
  BY <1>1, <1>2, <1>3, <1>4
<1>5. evictions' = evictions
  BY DEF Works
<1> QED
  BY <1>1, <1>2, <1>4, <1>5, Untouched DEF Keeps

\* If it takes care of its own task and of the one it has, all are well.
LEMMA KeptTasks ==
  ASSUME TalkShape, NEW t \in Turns, Works(t), TasksOK, ~Begun(t),
         TaskOf(t)' \in {0, t, TaskOf(t)},
         \A task \in Turns : task # t /\ task # TaskOf(t) => Keeps(task),
         \A task \in Turns : task = t \/ task = TaskOf(t) => TaskOK(task)'
  PROVE  TasksOK' /\ OthersMind(t)
<1>1. ASSUME NEW task \in Turns, task # t, task # TaskOf(t) PROVE TaskOK(task)'
  <2>1. TaskOf(t)' # task
    BY <1>1, TurnFacts DEF TalkShape
  <2> QED
    BY <1>1, <2>1, KeptTask DEF TasksOK
<1>2. ASSUME NEW task \in Turns, NEW o \in Owners \ {t}, TaskOf(o) = task PROVE Keeps(task)
  <2>1. TaskOK(task) /\ TaskOK(t) /\ t \in Owners
    BY TurnFacts DEF TasksOK, TalkShape
  <2>2. task # t /\ task # TaskOf(t)
    BY <1>2, <2>1 DEF TaskOK
  <2> QED
    BY <2>2
<1> QED
  BY <1>1, <1>2 DEF TasksOK, OthersMind

LEMMA OneTurnKept ==
  ASSUME TalkShape, NEW t \in Turns, Works(t), OneTurn
  PROVE  OneTurn'
BY OthersKept DEF OneTurn

-----------------------------------------------------------------------------
(* Types.                                                                  *)

LEMMA SpokenFacts ==
  ASSUME Bounds
  PROVE  /\ Final \in Spoken /\ Outcome(TRUE, NoTask, 0) \in Spoken
         /\ \A w \in Unfinished : Outcome(TRUE, w, 0) \in Spoken
         /\ \A r \in 0..GateRounds \cup {1} : Outcome(TRUE, NoTask, r) \in Spoken
BY DEF Bounds, Final, Outcome, Spoken, Unfinished, NoTask

LEMMA ReturnTyped ==
  ASSUME TalkShape, NEW t \in Turns, NEW outcome \in Spoken, Return(t, outcome)
  PROVE  /\ out' \in [Turns -> Spoken] /\ pc' = [pc EXCEPT ![t] = "reply"]
         /\ \A u \in Turns \ {t} : out'[u] = out[u]
         /\ out'[t] = outcome
<1>1. out \in [Turns -> Spoken] /\ out' = [out EXCEPT ![t] = outcome]
  BY DEF Return, TalkShape
<1>2. pc' = [pc EXCEPT ![t] = "reply"]
  BY DEF Return, Goto
<1> QED
  BY ONLY <1>1, <1>2

LEMMA HeardTyped ==
  ASSUME TalkShape, NEW t \in Turns, NEW outcome \in Spoken, Hear(t, outcome)
  PROVE  /\ out' \in [Turns -> Spoken] /\ pc' = [pc EXCEPT ![t] = "reply"]
         /\ \A u \in Turns \ {t} : out'[u] = out[u]
         /\ out'[t] = outcome \/ out'[t] = Final
         /\ ~timedOut' => out'[t] = outcome
<1>1. Final \in Spoken
  BY SpokenFacts DEF TalkShape
<1>2. CASE Return(t, outcome)
  BY ONLY TalkShape, <1>2, ReturnTyped
<1>3. CASE Return(t, Final) /\ timedOut' = TRUE
  BY ONLY TalkShape, <1>1, <1>3, ReturnTyped
<1> QED
  BY <1>2, <1>3 DEF Hear

LEMMA MovedTyped ==
  ASSUME TalkShape, NEW t \in Turns, NEW to \in Steps, pc' = [pc EXCEPT ![t] = to]
  PROVE  pc' \in [Turns -> Steps] /\ pc'[t] = to /\ \A u \in Turns \ {t} : pc'[u] = pc[u]
BY DEF TalkShape

\* What only moves a turn and speaks.
LEMMA SpeakShape ==
  ASSUME TalkShape, NEW t \in Turns, NEW to \in Steps, pc' = [pc EXCEPT ![t] = to],
         to \notin Holding, to # "execute",
         out' \in [Turns -> Spoken],
         UNCHANGED <<session, live, evictions, agents, heard, reply, plan, left, ghosts>>
  PROVE  TalkShape'
BY MovedTyped DEF TalkShape, Unique, agents, ghosts

LEMMA ClassifyShape ==
  ASSUME TalkShape, NEW t \in Turns, Classify(t)
  PROVE  TalkShape'
<1>1. CASE Return(t, Final) \/ Clarify(t)
  <2>1. out' \in [Turns -> Spoken] /\ pc' = [pc EXCEPT ![t] = "reply"]
    <3>1. Bounds
      BY DEF TalkShape
    <3>2. Return(t, Final) \/ Return(t, Outcome(TRUE, NoTask, 0))
      BY <1>1 DEF Clarify
    <3>3. Final \in Spoken /\ Outcome(TRUE, NoTask, 0) \in Spoken
      BY ONLY <3>1, SpokenFacts
    <3> QED BY ONLY TalkShape, <3>2, <3>3, ReturnTyped
  <2> QED
    BY <1>1, <2>1, SpeakShape DEF Classify, Steps, Holding
<1>2. CASE Goto(t, "gate") /\ UNCHANGED out
  BY <1>2, SpeakShape DEF Classify, Goto, TalkShape, Steps, Holding
<1> QED
  BY <1>1, <1>2 DEF Classify

LEMMA GateShape ==
  ASSUME TalkShape, NEW t \in Turns, Gate(t)
  PROVE  TalkShape'
<1>1. CASE Goto(t, "derive") /\ UNCHANGED out
  BY <1>1, SpeakShape DEF Gate, Goto, TalkShape, Steps, Holding
<1>2. CASE MayAsk(t) /\ ClarifyFromGate(t)
  <2>1. /\ heard[t].rounds \in 0..GateRounds \cup {1} /\ GateRounds \in Nat
        /\ ~(heard[t].rounds > 0 /\ heard[t].rounds >= GateRounds)
    BY <1>2 DEF TalkShape, Sessions, Bounds, MayAsk, AfterClarification
  <2>2. heard[t].rounds + 1 \in 0..GateRounds \cup {1}
    BY <2>1
  <2>3. Outcome(TRUE, NoTask, heard[t].rounds + 1) \in Spoken
    BY <2>2, SpokenFacts DEF TalkShape
  <2> QED
    BY <1>2, <2>3, SpeakShape DEF Gate, ClarifyFromGate, Return, Goto, TalkShape, Steps, Holding
<1> QED
  BY <1>1, <1>2 DEF Gate

LEMMA DerivePlanShape ==
  ASSUME TalkShape, NEW t \in Turns, DerivePlan(t)
  PROVE  TalkShape'
<1>1. CASE NotAgreed(t) /\ UNCHANGED plan
  BY <1>1, SpokenFacts, SpeakShape DEF DerivePlan, NotAgreed, Return, Goto, TalkShape, Steps, Holding
<1>2. ASSUME NEW k \in Kinds, Goto(t, "execute"), UNCHANGED out, plan' = [plan EXCEPT ![t] = k]
      PROVE  TalkShape'
  <2>1. pc' \in [Turns -> Steps] /\ pc'[t] = "execute" /\ \A u \in Turns \ {t} : pc'[u] = pc[u]
    BY <1>2, MovedTyped DEF Goto, Steps
  <2>2. plan' \in [Turns -> Kinds \cup {"none"}] /\ \A u \in Turns : pc'[u] = "execute" => plan'[u] \in Kinds
    BY <1>2, <2>1 DEF TalkShape
  <2>3. \A u \in Turns : pc'[u] \in Holding => heard[u].waiting # NoTask
    BY <2>1 DEF TalkShape, Holding
  <2> QED
    BY <1>2, <2>1, <2>2, <2>3 DEF TalkShape, DerivePlan, agents, ghosts, Unique
<1> QED
  BY <1>1, <1>2 DEF DerivePlan

LEMMA ComposeShape ==
  ASSUME TalkShape, NEW t \in Turns, Compose(t)
  PROVE  TalkShape'
BY SpokenFacts, SpeakShape DEF Compose, Return, Goto, TalkShape, Steps, Holding, ghosts

LEMMA CountTyped ==
  ASSUME TalkShape, NEW task \in Turns
  PROVE  /\ Ask(task) => asks' \in [Turns -> Nat] /\ asks'[task] = asks[task] + 1
                         /\ \A u \in Turns \ {task} : asks'[u] = asks[u]
         /\ \A t \in Turns : RunToEnd(t, task) =>
               /\ runs' \in [Turns -> Nat] /\ runs'[task] = runs[task] + 1
               /\ \A u \in Turns \ {task} : runs'[u] = runs[u]
               /\ ran' \subseteq Turns
<1>1. asks \in [Turns -> Nat] /\ runs \in [Turns -> Nat] /\ ran \subseteq Turns
  BY DEF TalkShape
<1>2. Ask(task) => /\ asks' \in [Turns -> Nat] /\ asks'[task] = asks[task] + 1
                   /\ \A u \in Turns \ {task} : asks'[u] = asks[u]
  BY <1>1 DEF Ask
<1>3. ASSUME NEW t \in Turns, RunToEnd(t, task)
      PROVE  /\ runs' \in [Turns -> Nat] /\ runs'[task] = runs[task] + 1
             /\ \A u \in Turns \ {task} : runs'[u] = runs[u]
             /\ ran' \subseteq Turns
  BY <1>1, <1>3 DEF RunToEnd
<1> QED
  BY <1>2, <1>3

\* What moves a turn past its talk, and may touch the MCP agent.
LEMMA ActShape ==
  ASSUME TalkShape, NEW t \in Turns, NEW to \in {"compose", "reply"}, pc' = [pc EXCEPT ![t] = to],
         out' \in [Turns -> Spoken], store' \in Seq(Entries), Unique', closed' \subseteq Turns,
         asks' \in [Turns -> Nat], runs' \in [Turns -> Nat], ran' \subseteq Turns,
         UNCHANGED <<session, live, evictions, heard, reply, plan, left, streak, revised>>
  PROVE  TalkShape'
<1>1. pc' \in [Turns -> Steps] /\ \A u \in Turns : pc'[u] = pc[u] \/ pc'[u] \in {"compose", "reply"}
  BY MovedTyped DEF Steps
<1> QED
  BY <1>1 DEF TalkShape, Holding

LEMMA ExecuteShape ==
  ASSUME TalkShape, NEW t \in Turns, Execute(t)
  PROVE  TalkShape'
<1>1. CASE RunToEnd(t, t) /\ Goto(t, "compose") /\ UNCHANGED <<out, store, asks>>
  BY <1>1, ActShape, CountTyped DEF Execute, Goto, TalkShape, Unique
<1>2. CASE Remember(t, Retries) /\ Ask(t) /\ RelayQuestion(t, t, plan[t]) /\ UNCHANGED <<runs, ran>>
  <2>1. Retries \in 0..Retries /\ [task |-> t, plan |-> plan[t]] \in Unfinished
    BY DEF TalkShape, Bounds, Unfinished, Execute
  <2>2. out' \in [Turns -> Spoken] /\ pc' = [pc EXCEPT ![t] = "reply"]
    BY <1>2, <2>1, SpokenFacts, HeardTyped DEF RelayQuestion, TalkShape
  <2>3. store' \in Seq(Entries) /\ Unique'
    BY <1>2, <2>1, RememberFacts
  <2> QED
    BY <1>2, <2>2, <2>3, ActShape, CountTyped DEF Execute, TalkShape
<1>3. CASE Return(t, Final) /\ UNCHANGED <<store, asks, runs, ran>>
  BY <1>3, ActShape, SpokenFacts DEF Execute, Return, Goto, TalkShape, Unique
<1> QED
  BY <1>1, <1>2, <1>3 DEF Execute

LEMMA RelayShape ==
  ASSUME TalkShape, NEW t \in Turns, Relay(t)
  PROVE  TalkShape'
<1> PICK r \in Replies : /\ reply' = [reply EXCEPT ![t] = r]
                         /\ IF r.answers /\ IsDomainMaterial(t) THEN Revalidate(t)
                            ELSE Goto(t, "provide") /\ UNCHANGED revised
  BY DEF Relay
<1>1. pc[t] = "answer" /\ pc' = [pc EXCEPT ![t] = pc'[t]] /\ pc'[t] \in {"provide", "derive"}
  BY DEF Relay, Revalidate, Goto, TalkShape
<1>2. pc' \in [Turns -> Steps] /\ \A u \in Turns \ {t} : pc'[u] = pc[u]
  BY <1>1, MovedTyped DEF Steps
<1>3. \A u \in Turns : pc'[u] \in Holding => heard[u].waiting # NoTask
  BY <1>1, <1>2 DEF TalkShape, Holding
<1>4. \A u \in Turns : pc'[u] = "execute" => plan[u] \in Kinds
  BY <1>1, <1>2 DEF TalkShape
<1> QED
  BY <1>2, <1>3, <1>4 DEF TalkShape, Relay, agents, Unique

\* A session that has given up a task.
Dropped(s) == [s EXCEPT !.clarified = TRUE, !.waiting = NoTask]

LEMMA ProvideShape ==
  ASSUME TalkShape, NEW t \in Turns, Provide(t)
  PROVE  TalkShape'
<1> DEFINE task == heard[t].waiting.task
<1>1. task \in Turns /\ pc[t] = "provide"
  BY OwnersTyped DEF Provide, Holding
<1>2. CASE Return(t, Final) /\ UNCHANGED <<closed, heard, left>>
  BY <1>2, ActShape, SpokenFacts DEF Provide, Return, Goto, TalkShape, Unique, ghosts
<1>3. CASE /\ closed' = closed \cup {task}
           /\ heard' = [heard EXCEPT ![t].clarified = TRUE, ![t].waiting = NoTask]
           /\ Goto(t, "classify") /\ UNCHANGED <<left, out>>
  <2>1. Dropped(heard[t]) \in Sessions
    <3>1. heard[t] \in Sessions
      BY DEF TalkShape
    <3> QED BY ONLY <3>1 DEF Dropped, Sessions
  <2>2. heard' = [heard EXCEPT ![t] = Dropped(heard[t])]
    BY <1>3 DEF Dropped, TalkShape
  <2>3. heard' \in [Turns -> Sessions] /\ \A u \in Turns \ {t} : heard'[u] = heard[u]
    BY <2>1, <2>2 DEF TalkShape
  <2>4. pc' \in [Turns -> Steps] /\ pc'[t] = "classify" /\ \A u \in Turns \ {t} : pc'[u] = pc[u]
    BY <1>3, MovedTyped DEF Goto, Steps
  <2>5. \A u \in Turns : pc'[u] \in Holding => heard'[u].waiting # NoTask
    BY <2>3, <2>4 DEF TalkShape, Holding
  <2>6. \A u \in Turns : pc'[u] = "execute" => plan[u] \in Kinds
    BY <2>4 DEF TalkShape
  <2> QED
    BY <1>1, <1>3, <2>3, <2>4, <2>5, <2>6 DEF TalkShape, Provide, ghosts, Unique
<1>4. CASE /\ task \in Stored /\ left' = [left EXCEPT ![t] = LeftOf(task)]
           /\ Goto(t, "resume") /\ UNCHANGED <<closed, heard, out>>
  <2>1. LeftOf(task) \in 0..Retries
    BY <1>4, StoreFacts DEF LeftOf, Place, Stored, Entries, TalkShape
  <2>2. pc' \in [Turns -> Steps] /\ pc'[t] = "resume" /\ \A u \in Turns \ {t} : pc'[u] = pc[u]
    BY <1>4, MovedTyped DEF Goto, Steps
  <2>3. \A u \in Turns : pc'[u] \in Holding => heard[u].waiting # NoTask
    BY <1>1, <2>2 DEF TalkShape, Holding
  <2>4. \A u \in Turns : pc'[u] = "execute" => plan[u] \in Kinds
    BY <2>2 DEF TalkShape
  <2> QED
    BY <1>4, <2>1, <2>2, <2>3, <2>4 DEF TalkShape, Provide, ghosts, Unique
<1> QED
  BY <1>2, <1>3, <1>4 DEF Provide

LEMMA ResumeShape ==
  ASSUME TalkShape, NEW t \in Turns, Resume(t)
  PROVE  TalkShape'
<1> DEFINE task == heard[t].waiting.task
<1>1. task \in Turns /\ pc[t] = "resume"
  BY OwnersTyped DEF Resume, Holding
<1> HIDE DEF task
<1>2. CASE Forget(task) /\ closed' = closed \cup {task} /\ Return(t, Final) /\ UNCHANGED asks
  BY <1>1, <1>2, ActShape, SpokenFacts, ForgetFacts DEF Resume, Return, Goto, TalkShape, Shrinks
<1>3. CASE TakeUp(t, task) /\ UNCHANGED <<closed, out, asks>>
  <2>1. pc' \in [Turns -> Steps] /\ pc'[t] = "rerun" /\ \A u \in Turns \ {t} : pc'[u] = pc[u]
    BY <1>3, MovedTyped DEF TakeUp, Goto, Steps
  <2>2. store' \in Seq(Entries) /\ Unique'
    BY <1>1, <1>3, ForgetFacts DEF TakeUp, Shrinks
  <2>3. \A u \in Turns : pc'[u] \in Holding => heard[u].waiting # NoTask
    BY <1>1, <2>1 DEF TalkShape, Holding
  <2>4. \A u \in Turns : pc'[u] = "execute" => plan[u] \in Kinds
    BY <2>1 DEF TalkShape
  <2> QED
    BY <1>3, <2>1, <2>2, <2>3, <2>4 DEF TalkShape, Resume
<1>4. CASE left[t] > 0 /\ AskAgain(t, task) /\ UNCHANGED closed
  <2>1. left[t] - 1 \in 0..Retries /\ [task |-> task, plan |-> "lost"] \in Unfinished
    BY <1>1, <1>4 DEF TalkShape, Bounds, Unfinished
  <2>2. out' \in [Turns -> Spoken] /\ pc' = [pc EXCEPT ![t] = "reply"]
    BY <1>4, <2>1, SpokenFacts, HeardTyped DEF AskAgain, RelayQuestion, TalkShape
  <2>3. store' \in Seq(Entries) /\ Unique'
    BY <1>1, <1>4, <2>1, RememberFacts DEF AskAgain
  <2> QED
    BY <1>1, <1>4, <2>2, <2>3, ActShape, CountTyped DEF Resume, AskAgain, TalkShape
<1> QED
  BY <1>2, <1>3, <1>4 DEF Resume, task

LEMMA RerunShape ==
  ASSUME TalkShape, NEW t \in Turns, Rerun(t)
  PROVE  TalkShape'
<1> DEFINE task == heard[t].waiting.task
<1>1. task \in Turns /\ pc[t] = "rerun"
  BY OwnersTyped DEF Rerun, Holding
<1> HIDE DEF task
<1>2. RunToEnd(t, task) \/ UNCHANGED <<runs, ran>>
  BY DEF Rerun, task
<1>3. runs' \in [Turns -> Nat] /\ ran' \subseteq Turns
  BY <1>1, <1>2, CountTyped DEF TalkShape
<1>4. closed' = closed \cup {task}
  BY DEF Rerun, task
<1> QED
  BY <1>1, <1>3, <1>4, ActShape, SpokenFacts DEF Rerun, Return, Goto, TalkShape, Unique

LEMMA ServiceShape ==
  ASSUME TalkShape, NEW t \in Turns, Arrive(t) \/ Unreachable(t) \/ Save(t) \/ TimeOut(t)
  PROVE  TalkShape'
<1>1. CASE Arrive(t)
  <2>1. pc' = [pc EXCEPT ![t] = pc'[t]] /\ pc'[t] \in {"answer", "classify"}
        /\ (pc'[t] = "answer" => session.waiting # NoTask)
    BY <1>1 DEF Arrive, Goto, TalkShape
  <2>2. pc' \in [Turns -> Steps] /\ \A u \in Turns \ {t} : pc'[u] = pc[u]
    BY <2>1, MovedTyped DEF Steps
  <2>3. heard' \in [Turns -> Sessions] /\ heard'[t] = session /\ \A u \in Turns \ {t} : heard'[u] = heard[u]
    BY <1>1 DEF Arrive, TalkShape
  <2>4. \A u \in Turns : pc'[u] \in Holding => heard'[u].waiting # NoTask
    BY <2>1, <2>2, <2>3 DEF TalkShape, Holding
  <2>5. \A u \in Turns : pc'[u] = "execute" => plan[u] \in Kinds
    BY <2>1, <2>2 DEF TalkShape
  <2> QED
    BY <1>1, <2>2, <2>3, <2>4, <2>5 DEF Arrive, TalkShape, agents, ghosts, Unique
<1>2. CASE Unreachable(t)
  BY <1>2, SpeakShape DEF Unreachable, Goto, locals, Steps, Holding, TalkShape
<1>3. ASSUME NEW outcome \in Spoken, Write(t, outcome)
      PROVE  session' \in Sessions
  <2>1. heard[t].turns \cup {t} \subseteq Turns
    BY DEF TalkShape, Sessions
  <2> QED
    BY <1>3, <2>1 DEF Write, Sessions, Spoken
<1>4. CASE Save(t)
  <2>1. pc' \in [Turns -> Steps] /\ pc'[t] = "done" /\ \A u \in Turns \ {t} : pc'[u] = pc[u]
    BY <1>4, MovedTyped DEF Save, Goto, Steps
  <2>2. session' \in Sessions /\ streak' \in Nat
    <3>1. out[t] \in Spoken /\ session \in Sessions /\ streak \in Nat
      BY DEF TalkShape
    <3>2. (Write(t, out[t]) /\ streak' = IF out[t].clarified THEN streak + 1 ELSE 0) \/ UNCHANGED <<session, streak>>
      BY <1>4 DEF Save
    <3> QED
      BY <3>1, <3>2, <1>3
  <2>3. \A u \in Turns : pc'[u] \in Holding => heard[u].waiting # NoTask
    BY <2>1 DEF TalkShape, Holding
  <2>4. \A u \in Turns : pc'[u] = "execute" => plan[u] \in Kinds
    BY <2>1 DEF TalkShape
  <2> QED
    BY <1>4, <2>1, <2>2, <2>3, <2>4 DEF Save, TalkShape, agents, locals, Unique
<1>5. CASE TimeOut(t)
  <2>1. session' \in Sessions
    BY <1>3, <1>5, SpokenFacts DEF TimeOut, TalkShape
  <2> QED
    BY <1>5, <2>1 DEF TimeOut, TalkShape, agents, locals, Unique
<1> QED
  BY <1>1, <1>2, <1>4, <1>5

LEMMA TalkShapeKept ==
  ASSUME TalkShape, [TalkNext]_talkVars
  PROVE  TalkShape'
<1>1. CASE Evict
  <2>1. store' \in Seq(Entries) /\ Unique'
    BY <1>1, EvictFacts DEF Shrinks
  <2> QED
    BY <1>1, <2>1 DEF Evict, TalkShape, locals, ghosts
<1>2. CASE UNCHANGED talkVars
  BY <1>2 DEF talkVars, TalkShape, agents, locals, ghosts, Unique
<1> QED
  BY <1>1, <1>2, ServiceShape, ClassifyShape, GateShape, DerivePlanShape, ExecuteShape, ComposeShape,
     RelayShape, ProvideShape, ResumeShape, RerunShape DEF TalkNext

LEMMA TalkShapeInit ==
  ASSUME Bounds, TalkInit
  PROVE  TalkShape
<1>1. session \in Sessions
  BY DEF TalkInit, Sessions, Bounds, NoTask
<1>2. out \in [Turns -> Spoken]
  BY SpokenFacts DEF TalkInit
<1>3. store \in Seq(Entries) /\ Unique
  BY EmptySeq DEF TalkInit, Unique
<1>4. left \in [Turns -> 0..Retries]
  BY DEF TalkInit, Bounds
<1>5. reply \in [Turns -> Replies]
  BY DEF TalkInit, Replies
<1>6. plan \in [Turns -> Kinds \cup {"none"}] /\ asks \in [Turns -> Nat] /\ runs \in [Turns -> Nat]
  BY DEF TalkInit
<1> QED
  BY <1>1, <1>2, <1>3, <1>4, <1>5, <1>6 DEF TalkInit, TalkShape, Steps, Holding

-----------------------------------------------------------------------------
(* Tasks and their owners.                                                 *)

LEMMA WorkerSteps ==
  ASSUME TalkShape, NEW t \in Turns,
         \/ Classify(t) \/ Gate(t) \/ DerivePlan(t) \/ Execute(t) \/ Compose(t)
         \/ Relay(t) \/ Provide(t) \/ Resume(t) \/ Rerun(t)
  PROVE  Works(t)
<1>1. ASSUME NEW to \in Steps, pc' = [pc EXCEPT ![t] = to]
      PROVE  pc'[t] = to /\ \A u \in Turns \ {t} : pc'[u] = pc[u]
  BY <1>1, MovedTyped
<1>2. ASSUME NEW x, out' = [out EXCEPT ![t] = x] \/ out' = out
      PROVE  \A u \in Turns \ {t} : out'[u] = out[u]
  BY <1>2 DEF TalkShape
<1> DEFINE Same == \A u \in Turns \ {t} : /\ pc'[u] = pc[u] /\ heard'[u] = heard[u] /\ out'[u] = out[u]
                                          /\ left'[u] = left[u] /\ reply'[u] = reply[u]
           Onward == /\ pc[t] \in Working /\ pc'[t] \in Working
                     /\ Begun(t) => Begun(t)'
<1>3. CASE Classify(t) \/ Gate(t) \/ DerivePlan(t) \/ Compose(t) \/ Execute(t) \/ Rerun(t)
  <2>1. Onward
    BY <1>3, <1>1 DEF Classify, Gate, DerivePlan, Compose, Execute, Rerun, Return, Clarify, ClarifyFromGate,
       NotAgreed, RelayQuestion, Hear, Goto, Working, Steps, Begun
  <2>2. Same
    BY <1>3, <1>1, <1>2 DEF Classify, Gate, DerivePlan, Compose, Execute, Rerun, Return, Clarify, ClarifyFromGate,
       NotAgreed, RelayQuestion, Hear, Goto, Steps
  <2> QED
    BY <1>3, <2>1, <2>2 DEF Works, Classify, Gate, DerivePlan, Compose, Execute, Rerun, ghosts
<1>4. CASE Relay(t)
  <2>1. Onward /\ Same
    BY <1>4, <1>1 DEF Relay, Revalidate, Goto, Working, Steps, Begun, TalkShape
  <2> QED
    BY <1>4, <2>1 DEF Works, Relay
<1>5. CASE Provide(t)
  <2>1. Onward
    BY <1>5, <1>1 DEF Provide, Return, Goto, Working, Steps, Begun
  <2>2. \A u \in Turns \ {t} : pc'[u] = pc[u] /\ heard'[u] = heard[u]
    BY <1>5, <1>1 DEF Provide, Return, Goto, Steps, TalkShape
  <2>3. \A u \in Turns \ {t} : left'[u] = left[u] /\ reply'[u] = reply[u] /\ out'[u] = out[u]
    BY <1>5, <1>2 DEF Provide, Return, TalkShape
  <2> QED
    BY <1>5, <2>1, <2>2, <2>3 DEF Works, Provide, ghosts
<1>6. CASE Resume(t)
  <2>1. Onward
    BY <1>6, <1>1 DEF Resume, TakeUp, AskAgain, RelayQuestion, Hear, Return, Goto, Working, Steps, Begun
  <2>2. Same
    BY <1>6, <1>1, <1>2 DEF Resume, TakeUp, AskAgain, RelayQuestion, Hear, Return, Goto, Steps, TalkShape
  <2> QED
    BY <1>6, <2>1, <2>2 DEF Works, Resume
<1> QED
  BY <1>3, <1>4, <1>5, <1>6

\* Steps that do not touch the MCP agent: the turn keeps its task, or lets it go.
LEMMA CalmTasks ==
  ASSUME TalkShape, NEW t \in Turns, Works(t), TasksOK, UNCHANGED <<store, closed, asks, runs>>,
         \/ TaskOf(t)' = 0
         \/ TaskOf(t)' = TaskOf(t) /\ pc'[t] \notin {"resume", "rerun"} /\ pc[t] # "rerun"
  PROVE  TasksOK' /\ OthersMind(t)
<1> SUFFICES ASSUME NEW task \in Turns PROVE TaskOK(task)' /\ Keeps(task)
  BY DEF TasksOK, OthersMind
<1>1. Keeps(task)
  BY DEF Keeps, Stored
<1>2. task # 0 /\ TaskOK(task)
  BY TurnFacts DEF TalkShape, TasksOK
<1> QED
  BY <1>1, <1>2, KeptTask

LEMMA OwnTask ==
  ASSUME TalkShape, NEW t \in Turns
  PROVE  /\ pc[t] \in Holding => TaskOf(t) = heard[t].waiting.task /\ TaskOf(t) \in Turns
         /\ pc[t] \notin Holding \cup {"reply"} => TaskOf(t) = 0
         /\ pc[t] = "reply" => TaskOf(t) \in {0, out[t].waiting.task}
BY TurnFacts, OwnersTyped DEF TaskOf, TalkShape, Holding

LEMMA OwnTaskNext ==
  ASSUME TalkShape', NEW t \in Turns
  PROVE  /\ pc'[t] \in Holding => TaskOf(t)' = heard'[t].waiting.task /\ TaskOf(t)' \in Turns
         /\ pc'[t] \notin Holding \cup {"reply"} => TaskOf(t)' = 0
         /\ pc'[t] = "reply" => TaskOf(t)' \in {0, out'[t].waiting.task}
<1>1. t # 0 /\ Bounds
  BY TurnFacts DEF TalkShape
<1>2. heard'[t].waiting \in Unfinished \cup {NoTask} /\ (pc'[t] \in Holding => heard'[t].waiting # NoTask)
  BY DEF TalkShape, Sessions
<1> QED
  BY <1>1, <1>2, TurnFacts DEF TaskOf, Holding

\* What a turn says at its end without a question.
LEMMA NothingAsked ==
  /\ Final.waiting.task = 0 /\ ~Final.clarified
  /\ \A asked, rounds : Outcome(asked, NoTask, rounds).waiting.task = 0
BY DEF Final, Outcome, NoTask

LEMMA CalmSteps ==
  ASSUME TalkShape, NEW t \in Turns, TasksOK,
         Classify(t) \/ Gate(t) \/ DerivePlan(t) \/ Compose(t) \/ Relay(t)
  PROVE  TasksOK' /\ OthersMind(t)
<1>1. TalkShape' /\ Works(t)
  BY ClassifyShape, GateShape, DerivePlanShape, ComposeShape, RelayShape, WorkerSteps
<1>2. UNCHANGED <<store, closed, asks, runs>>
  BY DEF Classify, Gate, DerivePlan, Compose, Relay, agents, ghosts
<1>3. CASE Classify(t) \/ Gate(t) \/ DerivePlan(t) \/ Compose(t)
  <2>1. pc'[t] \in {"gate", "derive", "execute"} \/ (pc'[t] = "reply" /\ out'[t].waiting.task = 0)
    <3>1. CASE \E outcome \in {Final, Outcome(TRUE, NoTask, 0), Outcome(TRUE, NoTask, heard[t].rounds + 1)} :
                  Return(t, outcome)
      <4>1. PICK outcome : outcome.waiting.task = 0 /\ Return(t, outcome)
        BY <3>1, NothingAsked
      <4> QED
        BY <4>1 DEF Return, Goto, TalkShape
    <3>2. CASE \E to \in {"gate", "derive", "execute"} : Goto(t, to)
      BY <3>2 DEF Goto, TalkShape
    <3> QED
      BY <1>3, <3>1, <3>2 DEF Classify, Gate, DerivePlan, Compose, Clarify, ClarifyFromGate, NotAgreed
  <2>2. TaskOf(t)' = 0
    BY <1>1, <2>1, OwnTaskNext DEF Holding
  <2> QED
    BY <1>1, <1>2, <2>2, CalmTasks
<1>4. CASE Relay(t)
  <2>1. pc[t] = "answer" /\ heard' = heard /\ pc'[t] \in {"provide", "derive"}
    BY <1>4 DEF Relay, Revalidate, Goto, TalkShape
  <2>2. TaskOf(t)' = 0 \/ TaskOf(t)' = TaskOf(t)
    BY <1>1, <2>1, OwnTask, OwnTaskNext DEF Holding
  <2> QED
    BY <1>1, <1>2, <2>1, <2>2, CalmTasks
<1> QED
  BY <1>3, <1>4

\* A task that nobody but one turn can have.
LEMMA SoleOwner ==
  ASSUME NEW t \in Turns, NEW task \in Turns, Bounds, Begun(task)',
         asks'[task] <= 1 + Retries, runs'[task] <= 1,
         \A k \in DOMAIN store' : store'[k].task = task =>
            asks'[task] + store'[k].left <= 1 + Retries /\ runs'[task] = 0,
         \A o \in Owners \ {t} : TaskOf(o)' # task,
         TaskOf(t)' = task =>
            /\ task \notin closed'
            /\ evictions' = 0 => pc'[t] = "rerun" \/ task \in Stored'
            /\ pc'[t] = "resume" => asks'[task] + left'[t] <= 1 + Retries /\ runs'[task] = 0
            /\ pc'[t] = "rerun" => runs'[task] = 0 /\ task \notin Stored'
  PROVE  TaskOK(task)'
<1>1. t # 0
  BY TurnFacts
<1>2. \A o \in Owners : TaskOf(o)' = task => o = t
  OBVIOUS
<1> QED
  BY <1>1, <1>2 DEF TaskOK

\* What follows for the task a turn has.
LEMMA TakenFacts ==
  ASSUME TalkShape, NEW t \in Turns, NEW task \in Turns, TasksOK, TaskOf(t) = task
  PROVE  /\ Begun(task) /\ (~Begun(t) => task # t)
         /\ \A o \in Owners \ {t} : TaskOf(o) # task
         /\ asks[task] <= 1 + Retries /\ runs[task] <= 1 /\ task \notin closed
         /\ pc[t] = "resume" => asks[task] + left[t] <= 1 + Retries /\ runs[task] = 0
         /\ pc[t] = "rerun" => runs[task] = 0 /\ task \notin Stored
         /\ \A k \in DOMAIN store : store[k].task = task =>
               asks[task] + store[k].left <= 1 + Retries /\ runs[task] = 0
<1>1. t \in Owners /\ t # 0 /\ TaskOK(task)
  BY TurnFacts DEF TalkShape, TasksOK
<1> QED
  BY <1>1 DEF TaskOK

LEMMA ExecuteTasks ==
  ASSUME TalkShape, NEW t \in Turns, TasksOK, Execute(t)
  PROVE  TasksOK' /\ OthersMind(t)
<1>1. TalkShape' /\ Works(t)
  BY ExecuteShape, WorkerSteps
<1>2. pc[t] = "execute" /\ ~Begun(t) /\ TaskOf(t) = 0 /\ closed' = closed
  BY OwnTask DEF Execute, Holding, Begun
<1>3. /\ asks[t] = 0 /\ runs[t] = 0 /\ t \notin closed /\ t \notin Stored
      /\ \A o \in Owners : TaskOf(o) # t
  BY <1>2 DEF TasksOK, TaskOK, Begun
<1>4. \A o \in Owners \ {t} : TaskOf(o)' # t
  BY <1>1, <1>3, OthersKept
<1>5. Retries \in Nat /\ evictions' = evictions /\ Bounds
  BY DEF TalkShape, Bounds, Execute
<1>6. CASE RunToEnd(t, t) /\ Goto(t, "compose") /\ UNCHANGED <<out, store, asks>>
  <2>1. pc'[t] = "compose" /\ runs'[t] = 1 /\ \A u \in Turns \ {t} : runs'[u] = runs[u]
    BY <1>3, <1>6, CountTyped DEF Goto, TalkShape
  <2>2. TaskOf(t)' = 0
    BY <1>1, <2>1, OwnTaskNext DEF Holding
  <2>3. \A k \in DOMAIN store' : store'[k].task # t
    BY <1>3, <1>6 DEF Stored
  <2>4. TaskOK(t)'
    <3>1. Begun(t)' /\ t # 0 /\ asks'[t] = 0
      BY <1>3, <1>5, <1>6, <2>1, TurnFacts DEF Begun
    <3> QED
      BY <1>4, <1>5, <2>1, <2>2, <2>3, <3>1, SoleOwner
  <2>5. \A task \in Turns : task # t => Keeps(task)
    BY <1>2, <1>6, <2>1 DEF Keeps, Stored
  <2>6. \A task \in Turns : task = TaskOf(t) => task = t
    BY <1>2, <1>5, TurnFacts
  <2> QED
    BY <1>1, <1>2, <2>2, <2>4, <2>5, <2>6, KeptTasks
<1>7. CASE Remember(t, Retries) /\ Ask(t) /\ RelayQuestion(t, t, plan[t]) /\ UNCHANGED <<runs, ran>>
  <2>1. Retries \in 0..Retries
    BY <1>5
  <2>2. /\ Stored' = Stored \cup {t}
        /\ \A k \in DOMAIN store' :
              \/ store'[k] = [task |-> t, left |-> Retries]
              \/ store'[k].task # t /\ \E j \in DOMAIN store : store[j] = store'[k]
    BY <1>7, <2>1, RememberFacts
  <2>3. asks'[t] = 1 /\ (\A u \in Turns \ {t} : asks'[u] = asks[u]) /\ runs' = runs
    BY <1>3, <1>7, CountTyped
  <2>4. pc'[t] = "reply" /\ out'[t].waiting.task \in {0, t}
    <3>1. [task |-> t, plan |-> plan[t]] \in Unfinished
      BY <1>2 DEF TalkShape, Unfinished
    <3>2. out'[t] \in {Final, Outcome(TRUE, [task |-> t, plan |-> plan[t]], 0)} /\ pc' = [pc EXCEPT ![t] = "reply"]
      BY <1>5, <1>7, <3>1, HeardTyped, SpokenFacts DEF RelayQuestion
    <3> QED
      BY <3>2, NothingAsked DEF Outcome, TalkShape
  <2>5. TaskOf(t)' \in {0, t}
    BY <1>1, <2>4, OwnTaskNext
  <2>6. TaskOK(t)'
    <3>1. Begun(t)' /\ pc'[t] # "resume" /\ pc'[t] # "rerun" /\ runs'[t] = 0
      BY <1>3, <2>3, <2>4 DEF Begun
    <3>2. \A k \in DOMAIN store' : store'[k].task = t => asks'[t] + store'[k].left <= 1 + Retries /\ runs'[t] = 0
      BY <1>5, <2>2, <2>3, <3>1
    <3>3. asks'[t] <= 1 + Retries /\ runs'[t] <= 1 /\ t \notin closed' /\ t \in Stored'
      BY <1>2, <1>3, <1>5, <2>2, <2>3, <3>1
    <3> QED
      BY <1>4, <1>5, <3>1, <3>2, <3>3, SoleOwner
  <2>7. \A task \in Turns : task # t => Keeps(task)
    BY <1>2, <2>2, <2>3 DEF Keeps
  <2>8. \A task \in Turns : task = TaskOf(t) => task = t
    BY <1>2, <1>5, TurnFacts
  <2> QED
    BY <1>1, <1>2, <2>5, <2>6, <2>7, <2>8, KeptTasks
<1>8. CASE Return(t, Final) /\ UNCHANGED <<store, asks, runs, ran>>
  <2>1. pc'[t] = "reply" /\ out'[t].waiting.task = 0
    BY <1>8, NothingAsked DEF Return, Goto, TalkShape
  <2>2. TaskOf(t)' = 0
    BY <1>1, <2>1, OwnTaskNext
  <2> QED
    BY <1>1, <1>2, <1>8, <2>2, CalmTasks
<1> QED
  BY <1>6, <1>7, <1>8 DEF Execute

\* A step that ends what a turn did with the task it had.
LEMMA EndTask ==
  ASSUME TalkShape, NEW t \in Turns, NEW task \in Turns, TasksOK, Works(t), TaskOf(t) = task, ~Begun(t),
         TaskOf(t)' \in {0, task},
         \A u \in Turns \ {task} : Keeps(u),
         asks'[task] <= 1 + Retries, runs'[task] <= 1,
         \A k \in DOMAIN store' : store'[k].task = task =>
            asks'[task] + store'[k].left <= 1 + Retries /\ runs'[task] = 0,
         TaskOf(t)' = task =>
            /\ task \notin closed'
            /\ evictions' = 0 => pc'[t] = "rerun" \/ task \in Stored'
            /\ pc'[t] = "resume" => asks'[task] + left'[t] <= 1 + Retries /\ runs'[task] = 0
            /\ pc'[t] = "rerun" => runs'[task] = 0 /\ task \notin Stored'
  PROVE  TasksOK' /\ OthersMind(t)
<1>1. Begun(task) /\ task # t /\ \A o \in Owners \ {t} : TaskOf(o) # task
  BY TakenFacts
<1>2. Begun(task)' /\ \A o \in Owners \ {t} : TaskOf(o)' # task
  BY <1>1, OthersKept
<1>3. TaskOK(task)'
  BY <1>2, SoleOwner DEF TalkShape
<1>4. TaskOK(t)'
  <2>1. Keeps(t) /\ TaskOK(t) /\ TaskOf(t)' # t
    BY <1>1, TurnFacts DEF TasksOK, TalkShape
  <2> QED
    BY <2>1, KeptTask
<1> QED
  BY <1>1, <1>3, <1>4, KeptTasks

LEMMA ProvideTasks ==
  ASSUME TalkShape, NEW t \in Turns, TasksOK, Provide(t)
  PROVE  TasksOK' /\ OthersMind(t)
<1> DEFINE task == heard[t].waiting.task
<1>1. TalkShape' /\ Works(t)
  BY ProvideShape, WorkerSteps
<1>2. /\ pc[t] = "provide" /\ task \in Turns /\ TaskOf(t) = task /\ ~Begun(t)
      /\ UNCHANGED <<store, asks, runs, evictions>>
  BY OwnTask DEF Provide, Holding, Begun, ghosts
<1>3. /\ asks[task] <= 1 + Retries /\ runs[task] <= 1 /\ task \notin closed
      /\ \A k \in DOMAIN store : store[k].task = task =>
            asks[task] + store[k].left <= 1 + Retries /\ runs[task] = 0
  BY <1>2, TakenFacts
<1>4. CASE /\ closed' = closed \cup {task}
           /\ heard' = [heard EXCEPT ![t].clarified = TRUE, ![t].waiting = NoTask]
           /\ Goto(t, "classify") /\ UNCHANGED <<left, out>>
  <2>1. pc'[t] = "classify"
    BY <1>4 DEF Goto, TalkShape
  <2>2. TaskOf(t)' = 0
    BY <1>1, <2>1, OwnTaskNext DEF Holding
  <2> HIDE DEF task
  <2>3. \A u \in Turns \ {task} : Keeps(u)
    BY <1>2, <1>4 DEF Keeps, Stored
  <2>4. task # 0
    BY <1>2, TurnFacts DEF TalkShape
  <2> QED
    BY <1>1, <1>2, <1>3, <2>2, <2>3, <2>4, EndTask
<1>5. CASE /\ task \in Stored /\ left' = [left EXCEPT ![t] = LeftOf(task)]
           /\ Goto(t, "resume") /\ UNCHANGED <<closed, heard, out>>
  <2>1. pc'[t] = "resume" /\ heard' = heard /\ left'[t] = LeftOf(task)
    BY <1>5 DEF Goto, TalkShape
  <2>2. TaskOf(t)' = task
    BY <1>1, <2>1, OwnTaskNext DEF Holding
  <2> HIDE DEF task
  <2>3. Place(task) \in DOMAIN store /\ store[Place(task)].task = task
    BY <1>5 DEF Place, Stored
  <2>4. asks[task] + left'[t] <= 1 + Retries /\ runs[task] = 0
    BY <1>3, <2>1, <2>3 DEF LeftOf
  <2>5. \A u \in Turns \ {task} : Keeps(u)
    BY <1>2, <1>5 DEF Keeps, Stored
  <2>6. task \in Stored' /\ task \notin closed'
    BY <1>2, <1>3, <1>5 DEF Stored
  <2> QED
    BY <1>1, <1>2, <1>3, <2>1, <2>2, <2>4, <2>5, <2>6, EndTask
<1> QED
  BY <1>3, <1>4, <1>5 DEF Provide

LEMMA ResumeTasks ==
  ASSUME TalkShape, NEW t \in Turns, TasksOK, Resume(t)
  PROVE  TasksOK' /\ OthersMind(t)
<1> DEFINE task == heard[t].waiting.task
<1>1. TalkShape' /\ Works(t)
  BY ResumeShape, WorkerSteps
<1>2. /\ pc[t] = "resume" /\ task \in Turns /\ TaskOf(t) = task /\ ~Begun(t) /\ task # 0
      /\ UNCHANGED <<runs, evictions, heard>> /\ Retries \in Nat
  BY OwnTask, TurnFacts DEF Resume, Holding, Begun, TalkShape, Bounds
<1>3. /\ asks[task] + left[t] <= 1 + Retries /\ asks[task] <= 1 + Retries /\ runs[task] = 0 /\ task \notin closed
      /\ \A k \in DOMAIN store : store[k].task = task =>
            asks[task] + store[k].left <= 1 + Retries /\ runs[task] = 0
  BY <1>2, TakenFacts
<1>4. asks[task] \in Nat /\ left[t] \in 0..Retries
  BY <1>2 DEF TalkShape
<1>5. CASE Forget(task) /\ closed' = closed \cup {task} /\ Return(t, Final) /\ UNCHANGED asks
  <2>1. pc'[t] = "reply" /\ out'[t].waiting.task = 0
    BY <1>5, NothingAsked DEF Return, Goto, TalkShape
  <2>2. TaskOf(t)' = 0
    BY <1>1, <2>1, OwnTaskNext
  <2> HIDE DEF task
  <2>3. Shrinks({task})
    BY <1>2, <1>5, ForgetFacts
  <2>4. \A u \in Turns \ {task} : Keeps(u)
    BY <1>2, <1>5, <2>3 DEF Keeps, Shrinks
  <2>5. \A k \in DOMAIN store' : store'[k].task = task =>
            asks'[task] + store'[k].left <= 1 + Retries /\ runs'[task] = 0
    BY <1>2, <1>3, <1>5, <2>3 DEF Shrinks
  <2>6. asks'[task] <= 1 + Retries /\ runs'[task] <= 1
    BY <1>2, <1>3, <1>5
  <2> QED
    BY <1>1, <1>2, <2>2, <2>4, <2>5, <2>6, EndTask
<1>6. CASE TakeUp(t, task) /\ UNCHANGED <<closed, out, asks>>
  <2>1. pc'[t] = "rerun"
    BY <1>6 DEF TakeUp, Goto, TalkShape
  <2>2. TaskOf(t)' = task
    BY <1>1, <1>2, <2>1, OwnTaskNext DEF Holding
  <2> HIDE DEF task
  <2>3. Shrinks({task})
    BY <1>2, <1>6, ForgetFacts DEF TakeUp
  <2>4. \A u \in Turns \ {task} : Keeps(u)
    BY <1>2, <1>6, <2>3 DEF Keeps, Shrinks
  <2>5. \A k \in DOMAIN store' : store'[k].task = task =>
            asks'[task] + store'[k].left <= 1 + Retries /\ runs'[task] = 0
    BY <1>2, <1>3, <1>6, <2>3 DEF Shrinks
  <2>6. asks'[task] <= 1 + Retries /\ runs'[task] = 0 /\ task \notin closed' /\ task \notin Stored'
    BY <1>2, <1>3, <1>6, <2>3 DEF Shrinks
  <2> QED
    BY <1>1, <1>2, <2>1, <2>2, <2>4, <2>5, <2>6, EndTask
<1>7. CASE left[t] > 0 /\ AskAgain(t, task) /\ UNCHANGED closed
  <2>1. left[t] - 1 \in 0..Retries /\ asks[task] + 1 + (left[t] - 1) <= 1 + Retries /\ asks[task] + 1 <= 1 + Retries
    BY <1>2, <1>3, <1>4, <1>7
  <2>2. pc'[t] = "reply" /\ out'[t].waiting.task \in {0, task}
    <3>1. [task |-> task, plan |-> "lost"] \in Unfinished
      BY <1>2 DEF Unfinished
    <3>2. out'[t] \in {Final, Outcome(TRUE, [task |-> task, plan |-> "lost"], 0)} /\ pc' = [pc EXCEPT ![t] = "reply"]
      BY <1>7, <3>1, HeardTyped, SpokenFacts DEF AskAgain, RelayQuestion, TalkShape
    <3> QED
      BY <3>2, NothingAsked DEF Outcome, TalkShape
  <2>3. TaskOf(t)' \in {0, task}
    BY <1>1, <2>2, OwnTaskNext
  <2> HIDE DEF task
  <2>4. /\ Stored' = Stored \cup {task}
        /\ \A k \in DOMAIN store' :
              \/ store'[k] = [task |-> task, left |-> left[t] - 1]
              \/ store'[k].task # task /\ \E j \in DOMAIN store : store[j] = store'[k]
    BY <1>2, <1>7, <2>1, RememberFacts DEF AskAgain
  <2>5. asks'[task] = asks[task] + 1 /\ \A u \in Turns \ {task} : asks'[u] = asks[u]
    BY <1>2, <1>7, CountTyped DEF AskAgain
  <2>6. \A u \in Turns \ {task} : Keeps(u)
    BY <1>2, <1>7, <2>4, <2>5 DEF Keeps
  <2>7. \A k \in DOMAIN store' : store'[k].task = task =>
            asks'[task] + store'[k].left <= 1 + Retries /\ runs'[task] = 0
    <3> SUFFICES ASSUME NEW k \in DOMAIN store', store'[k].task = task
                 PROVE  asks'[task] + store'[k].left <= 1 + Retries /\ runs'[task] = 0
      OBVIOUS
    <3>1. store'[k].left = left[t] - 1
      BY <2>4
    <3> QED
      BY <3>1, <1>2, <1>3, <2>1, <2>5
  <2>8. asks'[task] <= 1 + Retries /\ runs'[task] <= 1 /\ task \notin closed' /\ task \in Stored'
    BY <1>2, <1>3, <1>7, <2>1, <2>4, <2>5
  <2> QED
    BY <1>1, <1>2, <2>2, <2>3, <2>6, <2>7, <2>8, EndTask
<1> QED
  BY <1>5, <1>6, <1>7 DEF Resume

LEMMA RerunTasks ==
  ASSUME TalkShape, NEW t \in Turns, TasksOK, Rerun(t)
  PROVE  TasksOK' /\ OthersMind(t)
<1> DEFINE task == heard[t].waiting.task
<1>1. TalkShape' /\ Works(t)
  BY RerunShape, WorkerSteps
<1>2. /\ pc[t] = "rerun" /\ task \in Turns /\ TaskOf(t) = task /\ ~Begun(t) /\ task # 0
      /\ UNCHANGED <<store, asks>>
  BY OwnTask, TurnFacts DEF Rerun, Holding, Begun, TalkShape
<1>3. asks[task] <= 1 + Retries /\ runs[task] = 0 /\ task \notin Stored
  BY <1>2, TakenFacts
<1>4. pc'[t] = "reply" /\ out'[t].waiting.task = 0 /\ closed' = closed \cup {task}
  BY NothingAsked DEF Rerun, Return, Goto, TalkShape
<1>5. TaskOf(t)' = 0
  BY <1>1, <1>4, OwnTaskNext
<1>6. RunToEnd(t, task) \/ UNCHANGED <<runs, ran>>
  BY DEF Rerun
<1> HIDE DEF task
<1>7. runs'[task] <= 1 /\ \A u \in Turns \ {task} : runs'[u] = runs[u]
  BY <1>2, <1>3, <1>6, CountTyped
<1>8. \A u \in Turns \ {task} : Keeps(u)
  BY <1>2, <1>4, <1>7 DEF Keeps, Stored
<1>9. \A k \in DOMAIN store' : store'[k].task # task
  BY <1>2, <1>3 DEF Stored
<1> QED
  BY <1>1, <1>2, <1>3, <1>5, <1>7, <1>8, <1>9, EndTask

LEMMA EvictOwners ==
  ASSUME TalkShape, Evict
  PROVE  /\ \A o \in Owners : TaskOf(o)' = TaskOf(o)
         /\ \A u \in Turns : Driving(u)' <=> Driving(u)
         /\ Resting' <=> Resting
BY DEF TaskOf, Resting, Driving, Idle, AtRest, Evict, locals

LEMMA EvictTasks ==
  ASSUME TalkShape, TasksOK, Evict
  PROVE  TasksOK'
<1> SUFFICES ASSUME NEW task \in Turns PROVE TaskOK(task)'
  BY DEF TasksOK
<1> DEFINE f == [o \in Owners |-> o]
<1>1. f \in [Owners -> Owners] /\ \A o \in Owners : f[o] = o
  OBVIOUS
<1> HIDE DEF f
<1>2. PICK gone \in SUBSET Turns : Shrinks(gone)
  BY EvictFacts
<1>3. evictions' # 0 /\ UNCHANGED <<session, pc, live, closed, locals, ghosts>>
  BY DEF Evict, TalkShape
<1>4. \A o \in Owners : TaskOf(o)' = TaskOf(o)
  BY EvictOwners
<1>5. Begun(task) => Begun(task)'
  BY <1>3 DEF Begun
<1>6. TaskOK(task)
  BY DEF TasksOK
<1>7. ASSUME NEW o \in Owners, TaskOf(o)' = task
      PROVE  /\ TaskOf(f[o]) = task
             /\ o # 0 /\ pc'[o] \in {"resume", "rerun"} => f[o] = o /\ pc[o] = pc'[o] /\ left'[o] = left[o]
             /\ f[o] # 0 /\ pc[f[o]] = "rerun" => f[o] = o /\ pc'[o] = "rerun"
  BY <1>1, <1>3, <1>4, <1>7 DEF locals
<1> QED
  BY <1>1, <1>2, <1>3, <1>5, <1>6, <1>7, Untouched DEF Shrinks, ghosts

-----------------------------------------------------------------------------
(* The session and its one turn.                                           *)

\* One turn is under way, and a turn that has not begun is not given up.
Alone == OneTurn /\ \A t \in Turns : pc[t] = "idle" => t \in live

LEMMA RestingFacts ==
  ASSUME TalkShape
  PROVE  /\ \A t \in Turns : Idle(t) <=> ~Driving(t)
         /\ Resting <=> \A t \in Turns : ~Driving(t)
BY DEF Idle, Driving, Resting

\* Whatever somebody has, somebody still has.
NothingDropped == \A o \in Owners : \E p \in Owners : TaskOf(p)' = TaskOf(o)

\* When two owners exchange what they have, all tasks stay well.
LEMMA HandedOver ==
  ASSUME TalkShape, NEW t \in Turns, TasksOK,
         UNCHANGED <<store, closed, asks, runs, left, evictions>>,
         \A u \in Turns \ {t} : pc'[u] = pc[u] /\ TaskOf(u)' = TaskOf(u),
         Begun(t) => Begun(t)', TaskOf(0)' = TaskOf(t), TaskOf(t)' = TaskOf(0),
         {pc[t], pc'[t]} \cap {"resume", "rerun"} = {}
  PROVE  TasksOK' /\ NothingDropped
<1>0. NothingDropped
  <2>1. 0 \in Owners /\ t \in Owners /\ \A o \in Owners : o = 0 \/ o \in Turns
    BY TurnFacts DEF TalkShape
  <2> QED
    BY <2>1 DEF NothingDropped
<1> SUFFICES ASSUME NEW task \in Turns PROVE TaskOK(task)'
  BY <1>0 DEF TasksOK
<1> DEFINE f == [o \in Owners |-> IF o = 0 THEN t ELSE IF o = t THEN 0 ELSE o]
<1>1. 0 \in Owners /\ t \in Owners /\ t # 0 /\ \A o \in Owners : o = 0 \/ o \in Turns
  BY TurnFacts DEF TalkShape
<1>2. /\ f \in [Owners -> Owners] /\ f[0] = t /\ f[t] = 0
      /\ \A o \in Owners : o # 0 /\ o # t => f[o] = o
  BY <1>1
<1> HIDE DEF f
<1>3. \A o, p \in Owners : f[o] = f[p] => o = p
  BY <1>1, <1>2
<1>4. ASSUME NEW o \in Owners, TaskOf(o)' = task
      PROVE  /\ TaskOf(f[o]) = task
             /\ o # 0 /\ pc'[o] \in {"resume", "rerun"} => f[o] = o /\ pc[o] = pc'[o] /\ left'[o] = left[o]
             /\ f[o] # 0 /\ pc[f[o]] = "rerun" => f[o] = o /\ pc'[o] = "rerun"
  <2>1. CASE o = 0
    BY <2>1, <1>1, <1>2, <1>4
  <2>2. CASE o = t
    BY <2>2, <1>1, <1>2, <1>4
  <2>3. CASE o # 0 /\ o # t
    BY <2>3, <1>1, <1>2, <1>4
  <2> QED
    BY <2>1, <2>2, <2>3
<1>5. Begun(task) => Begun(task)'
  BY DEF Begun
<1>6. TaskOK(task)
  BY DEF TasksOK
<1> QED
  BY <1>2, <1>3, <1>4, <1>5, <1>6, Untouched DEF Stored

\* When nobody gets what another had, all tasks stay well.
LEMMA HandedToNobody ==
  ASSUME TalkShape, TasksOK,
         UNCHANGED <<store, closed, asks, runs, left, evictions>>,
         \A u \in Turns : pc'[u] = pc[u] \/ {pc[u], pc'[u]} \cap {"resume", "rerun"} = {},
         \A u \in Turns : Begun(u) => Begun(u)',
         \A o \in Owners : TaskOf(o)' = TaskOf(o)
  PROVE  TasksOK' /\ NothingDropped
<1> SUFFICES ASSUME NEW task \in Turns PROVE TaskOK(task)'
  BY DEF TasksOK, NothingDropped
<1> DEFINE f == [o \in Owners |-> o]
<1>1. f \in [Owners -> Owners] /\ \A o \in Owners : f[o] = o
  OBVIOUS
<1> HIDE DEF f
<1>2. \A o \in Owners : o = 0 \/ o \in Turns
  BY TurnFacts DEF TalkShape
<1>3. TaskOK(task) /\ (Begun(task) => Begun(task)')
  BY DEF TasksOK
<1>4. ASSUME NEW o \in Owners, TaskOf(o)' = task
      PROVE  /\ TaskOf(f[o]) = task
             /\ o # 0 /\ pc'[o] \in {"resume", "rerun"} => f[o] = o /\ pc[o] = pc'[o] /\ left'[o] = left[o]
             /\ f[o] # 0 /\ pc[f[o]] = "rerun" => f[o] = o /\ pc'[o] = "rerun"
  BY <1>1, <1>2, <1>4
<1> QED
  BY <1>1, <1>3, <1>4, Untouched DEF Stored

LEMMA ArriveTasks ==
  ASSUME TalkShape, NEW t \in Turns, ~Overlap, Alone, TasksOK, Arrive(t)
  PROVE  /\ TasksOK' /\ NothingDropped /\ Alone' /\ Resting /\ ~Resting'
         /\ Driving(t)' /\ \A u \in Turns \ {t} : ~Driving(u)'
<1>1. Resting /\ pc[t] = "idle" /\ t \in live
  BY DEF Arrive, MaySend, Alone, Resting
<1>2. pc'[t] \in {"answer", "classify"} /\ \A u \in Turns \ {t} : pc'[u] = pc[u]
  BY DEF Arrive, Goto, TalkShape
<1>3. heard'[t] = session /\ (\A u \in Turns \ {t} : heard'[u] = heard[u])
  BY DEF Arrive, TalkShape
<1>4. UNCHANGED <<session, live, evictions, store, closed, reply, plan, left, out, asks, runs>>
  BY DEF Arrive, agents, ghosts
<1>5. (pc'[t] = "answer" <=> session.waiting # NoTask)
  BY DEF Arrive, Goto, TalkShape
<1>6. Driving(t)' /\ \A u \in Turns \ {t} : ~Driving(u)'
  BY <1>1, <1>2, <1>4, RestingFacts DEF Driving, AtRest
<1>7. ~Resting'
  BY <1>6 DEF Resting, Idle, Driving
<1>8. t # 0 /\ 0 \notin Turns /\ TaskOf(0) = session.waiting.task /\ TaskOf(0)' = 0
  BY <1>1, <1>7, TurnFacts DEF TaskOf, TalkShape
<1>9. TaskOf(t) = 0
  BY <1>1, OwnTask DEF Holding
<1>10. TaskOf(t)' = session.waiting.task
  <2>1. TalkShape'
    BY ServiceShape
  <2>2. CASE pc'[t] = "answer"
    BY <2>1, <2>2, <1>3, OwnTaskNext DEF Holding
  <2>3. CASE pc'[t] = "classify"
    <3>1. session.waiting.task = 0
      BY <2>3, <1>5, OwnersTyped
    <3> QED
      BY <2>1, <2>3, <3>1, OwnTaskNext DEF Holding
  <2> QED
    BY <2>2, <2>3, <1>2
<1>11. \A u \in Turns \ {t} : TaskOf(u)' = TaskOf(u)
  BY <1>2, <1>3, <1>4, <1>8 DEF TaskOf
<1>12. TasksOK' /\ NothingDropped
  BY <1>1, <1>2, <1>4, <1>8, <1>9, <1>10, <1>11, HandedOver DEF Begun
<1>13. Alone'
  BY <1>2, <1>4, <1>6 DEF Alone, OneTurn
<1> QED
  BY <1>1, <1>6, <1>7, <1>12, <1>13

LEMMA UnreachableTasks ==
  ASSUME TalkShape, NEW t \in Turns, Alone, TasksOK, Unreachable(t)
  PROVE  /\ TasksOK' /\ NothingDropped /\ Alone'
         /\ (Resting' <=> Resting) /\ \A u \in Turns : Driving(u)' <=> Driving(u)
<1>1. /\ pc[t] = "idle" /\ pc'[t] = "failed" /\ \A u \in Turns \ {t} : pc'[u] = pc[u]
      /\ UNCHANGED <<session, live, evictions, store, closed, heard, out, left, asks, runs>>
  BY DEF Unreachable, MaySend, Goto, TalkShape, agents, ghosts, locals
<1>2. \A u \in Turns : AtRest(u)' <=> AtRest(u)
  BY <1>1 DEF AtRest
<1>3. (\A u \in Turns : Driving(u)' <=> Driving(u)) /\ (Resting' <=> Resting)
  BY <1>1, <1>2 DEF Driving, Resting, Idle
<1>4. \A o \in Owners : TaskOf(o)' = TaskOf(o)
  <2>1. \A o \in Owners : o = 0 \/ o \in Turns
    BY TurnFacts DEF TalkShape
  <2> QED
    BY <1>1, <1>3, <2>1 DEF TaskOf, Holding
<1>5. \A u \in Turns : Begun(u) => Begun(u)'
  BY <1>1 DEF Begun
<1>6. TasksOK' /\ NothingDropped
  BY <1>1, <1>4, <1>5, HandedToNobody
<1>7. Alone'
  BY <1>1, <1>3 DEF Alone, OneTurn
<1> QED
  BY <1>3, <1>6, <1>7

LEMMA SaveTasks ==
  ASSUME TalkShape, NEW t \in Turns, Alone, TasksOK, Save(t)
  PROVE  /\ TasksOK' /\ NothingDropped /\ Alone' /\ \A u \in Turns : u # t => (Driving(u)' <=> Driving(u))
         /\ ~Driving(t)'
         /\ IF t \in live THEN Resting' /\ \A u \in Turns : ~Driving(u)' ELSE Resting' <=> Resting
<1>1. /\ pc[t] = "reply" /\ pc'[t] = "done" /\ \A u \in Turns \ {t} : pc'[u] = pc[u]
      /\ UNCHANGED <<live, evictions, store, closed, heard, out, left, asks, runs>>
  BY DEF Save, Goto, TalkShape, agents, locals
<1>2. t # 0 /\ 0 \notin Turns /\ \A o \in Owners : o = 0 \/ o \in Turns
  BY TurnFacts DEF TalkShape
<1>3. (\A u \in Turns : u # t => (Driving(u)' <=> Driving(u))) /\ ~Driving(t)'
  BY <1>1 DEF Driving, AtRest
<1>4. Alone'
  BY <1>1, <1>3 DEF Alone, OneTurn
<1>5. \A u \in Turns \ {t} : TaskOf(u)' = TaskOf(u)
  BY <1>1, <1>2 DEF TaskOf
<1>6. TaskOf(t)' = 0
  BY <1>1, <1>2 DEF TaskOf, Holding
<1>7. CASE t \in live
  <2>1. Driving(t) /\ \A u \in Turns : u # t => ~Driving(u)
    BY <1>1, <1>7 DEF Driving, AtRest, Alone, OneTurn
  <2>2. \A u \in Turns : ~Driving(u)'
    BY <1>3, <2>1
  <2>3. Resting'
    BY <2>2 DEF Resting, Idle, Driving
  <2>4. ~Resting
    BY <2>1, RestingFacts
  <2>5. session'.waiting = out[t].waiting
    BY <1>7 DEF Save, Write
  <2>6. TaskOf(0)' = out[t].waiting.task /\ TaskOf(0) = 0 /\ TaskOf(t) = out[t].waiting.task
    BY <1>1, <1>2, <1>7, <2>3, <2>4, <2>5 DEF TaskOf, Holding
  <2>7. TasksOK' /\ NothingDropped
    BY <1>1, <1>5, <1>6, <2>6, HandedOver DEF Begun
  <2> QED
    BY <1>3, <1>4, <1>7, <2>2, <2>3, <2>7
<1>8. CASE t \notin live
  <2>1. session' = session
    BY <1>8 DEF Save
  <2>2. \A u \in Turns : Idle(u)' <=> Idle(u)
    BY <1>1, <1>8 DEF Idle, AtRest
  <2>3. Resting' <=> Resting
    BY <2>2 DEF Resting
  <2>4. TaskOf(0)' = TaskOf(0) /\ TaskOf(t) = 0
    BY <1>1, <1>2, <1>8, <2>1, <2>3 DEF TaskOf, Holding
  <2>5. \A o \in Owners : TaskOf(o)' = TaskOf(o)
    BY <1>2, <1>5, <1>6, <2>4
  <2>6. \A u \in Turns : Begun(u) => Begun(u)'
    BY <1>1 DEF Begun
  <2>7. TasksOK' /\ NothingDropped
    BY <1>1, <2>5, <2>6, HandedToNobody
  <2> QED
    BY <1>3, <1>4, <1>8, <2>3, <2>7
<1> QED
  BY <1>7, <1>8

LEMMA TimeOutTasks ==
  ASSUME TalkShape, NEW t \in Turns, Alone, TasksOK, TimeOut(t)
  PROVE  TasksOK' /\ NothingDropped /\ Alone' /\ Resting' /\ \A u \in Turns : ~Driving(u)'
<1>1. /\ t \in live /\ ~AtRest(t) /\ pc[t] # "reply" /\ live' = live \ {t} /\ session'.waiting = NoTask
      /\ UNCHANGED <<pc, evictions, store, closed, heard, out, left, asks, runs>>
  BY DEF TimeOut, agents, locals, Write, Final, Outcome
<1>2. t # 0 /\ 0 \notin Turns /\ NoTask.task = 0 /\ \A o \in Owners : o = 0 \/ o \in Turns
  BY TurnFacts DEF TalkShape
<1>3. Driving(t) /\ \A u \in Turns : u # t => ~Driving(u)
  BY <1>1 DEF Driving, Alone, OneTurn
<1>4. \A u \in Turns : ~Driving(u)'
  BY <1>1, <1>3 DEF Driving, AtRest
<1>5. Resting'
  BY <1>4 DEF Resting, Idle, Driving
<1>6. ~Resting
  BY <1>3, RestingFacts
<1>7. TaskOf(0)' = 0 /\ TaskOf(0) = 0
  BY <1>1, <1>2, <1>5, <1>6 DEF TaskOf
<1>8. \A u \in Turns : TaskOf(u)' = TaskOf(u)
  BY <1>1, <1>2 DEF TaskOf
<1>9. TasksOK' /\ NothingDropped
  <2>1. \A o \in Owners : TaskOf(o)' = TaskOf(o)
    BY <1>2, <1>7, <1>8
  <2>2. \A u \in Turns : Begun(u) => Begun(u)'
    BY <1>1 DEF Begun
  <2> QED
    BY <1>1, <2>1, <2>2, HandedToNobody
<1>10. Alone'
  BY <1>1, <1>4 DEF Alone, OneTurn, AtRest
<1> QED
  BY <1>4, <1>5, <1>9, <1>10

WorkerStep(t) == \/ Classify(t) \/ Gate(t) \/ DerivePlan(t) \/ Execute(t) \/ Compose(t)
                 \/ Relay(t) \/ Provide(t) \/ Resume(t) \/ Rerun(t)

LEMMA NextSteps ==
  ASSUME [TalkNext]_talkVars
  PROVE  \/ \E t \in Turns : \/ WorkerStep(t) \/ Arrive(t) \/ Unreachable(t) \/ Save(t) \/ TimeOut(t)
         \/ Evict
         \/ UNCHANGED talkVars
BY DEF TalkNext, WorkerStep

LEMMA WorkerFacts ==
  ASSUME TalkShape, NEW t \in Turns, WorkerStep(t)
  PROVE  Works(t) /\ (TasksOK => TasksOK' /\ OthersMind(t)) /\ (Alone => Alone')
<1>1. Works(t)
  BY WorkerSteps DEF WorkerStep
<1>2. TasksOK => TasksOK' /\ OthersMind(t)
  BY CalmSteps, ExecuteTasks, ProvideTasks, ResumeTasks, RerunTasks DEF WorkerStep
<1>3. ASSUME Alone PROVE Alone'
  <2>1. OneTurn'
    BY <1>1, <1>3, OneTurnKept DEF Alone
  <2>2. \A u \in Turns : pc'[u] = "idle" => pc[u] = "idle" /\ live' = live
    BY <1>1 DEF Works, Working
  <2> QED
    BY <1>3, <2>1, <2>2 DEF Alone
<1> QED
  BY <1>1, <1>2, <1>3

LEMMA TasksKept ==
  ASSUME TalkShape, ~Overlap, Alone, TasksOK, [TalkNext]_talkVars
  PROVE  TasksOK' /\ Alone'
<1>1. CASE Evict
  <2>1. UNCHANGED <<pc, live>>
    BY <1>1 DEF Evict
  <2>2. Alone'
    BY <1>1, <2>1, EvictOwners DEF Alone, OneTurn
  <2> QED
    BY <1>1, <2>2, EvictTasks
<1>2. CASE UNCHANGED talkVars
  BY <1>2 DEF talkVars, agents, locals, ghosts, Alone, OneTurn, Driving, AtRest, TasksOK, TaskOK, TaskOf, Resting,
     Idle, Begun, Stored
<1> QED
  BY <1>1, <1>2, NextSteps, WorkerFacts, ArriveTasks, UnreachableTasks, SaveTasks, TimeOutTasks

-----------------------------------------------------------------------------
(* Refusals.                                                               *)

\* What the user calls off is not run: while no answer changes the analysis, a turn that still
\* has to ask has no task, one that runs a waiting plan was not told to stop, and one that has
\* run a plan is past asking.
Heeded(t) == /\ pc[t] \in Asking => heard[t].waiting = NoTask
             /\ pc[t] = "rerun" => ~reply[t].refuses
             /\ t \in ran => Begun(t) /\ (reply[t].refuses => heard[t].waiting = NoTask)

LEMMA HeededKept ==
  ASSUME TalkShape, ~Material, \A u \in Turns : Heeded(u), [TalkNext]_talkVars
  PROVE  \A u \in Turns : Heeded(u)'
<1>1. ASSUME NEW t \in Turns, WorkerStep(t) PROVE \A u \in Turns : Heeded(u)'
  <2>1. Works(t) /\ TalkShape'
    BY <1>1, WorkerFacts, TalkShapeKept
  <2>2. ran' \ {t} = ran \ {t}
    BY <1>1 DEF WorkerStep, Classify, Gate, DerivePlan, Execute, Compose, Relay, Provide, Resume, Rerun,
       RunToEnd, ghosts
  <2>3. ASSUME NEW u \in Turns \ {t} PROVE Heeded(u)'
    BY <2>1, <2>2 DEF Works, Heeded, Begun
  <2>4. CASE Classify(t) \/ Gate(t) \/ DerivePlan(t) \/ Compose(t)
    <3>1. UNCHANGED <<heard, reply, ran>> /\ pc[t] \in Asking \cup {"compose"}
      BY <2>4 DEF Classify, Gate, DerivePlan, Compose, ghosts, Asking
    <3>2. pc'[t] # "rerun" /\ (pc'[t] \in Asking => pc[t] \in Asking) /\ (pc[t] = "compose" => Begun(t)')
      BY <2>4 DEF Classify, Gate, DerivePlan, Compose, Clarify, ClarifyFromGate, NotAgreed, Return, Goto, TalkShape,
         Asking, Begun
    <3>3. Heeded(t)'
      BY <3>1, <3>2 DEF Heeded, Begun, Asking
    <3> QED
      BY <2>3, <3>3
  <2>5. CASE Execute(t)
    <3>1. UNCHANGED <<heard, reply>> /\ pc[t] = "execute" /\ pc'[t] \in {"compose", "reply"}
      BY <2>5 DEF Execute, RelayQuestion, Hear, Return, Goto, TalkShape
    <3>2. Heeded(t)'
      BY <3>1 DEF Heeded, Begun, Asking
    <3> QED
      BY <2>3, <3>2
  <2>6. CASE Relay(t)
    <3>1. UNCHANGED <<heard, ran>> /\ pc[t] = "answer" /\ pc'[t] = "provide"
      BY <2>6 DEF Relay, IsDomainMaterial, Goto, TalkShape
    <3>2. Heeded(t)'
      BY <3>1 DEF Heeded, Begun, Asking
    <3> QED
      BY <2>3, <3>2
  <2>7. CASE Provide(t)
    <3>1. UNCHANGED <<ran, reply>> /\ pc[t] = "provide" /\ pc'[t] \in {"reply", "classify", "resume"}
      BY <2>7 DEF Provide, Return, Goto, TalkShape, ghosts
    <3>2. pc'[t] = "classify" => heard'[t].waiting = NoTask
      BY <2>7 DEF Provide, Return, Goto, TalkShape, Sessions
    <3>3. Heeded(t)'
      BY <3>1, <3>2 DEF Heeded, Begun, Asking
    <3> QED
      BY <2>3, <3>3
  <2>8. CASE Resume(t)
    <3>1. /\ UNCHANGED <<heard, ran, reply>> /\ pc[t] = "resume" /\ pc'[t] \in {"reply", "rerun"}
          /\ pc'[t] = "rerun" => ~reply[t].refuses
      BY <2>8 DEF Resume, CallsOff, TakeUp, AskAgain, RelayQuestion, Hear, Return, Goto, TalkShape
    <3>2. Heeded(t)'
      BY <3>1 DEF Heeded, Begun, Asking
    <3> QED
      BY <2>3, <3>2
  <2>9. CASE Rerun(t)
    <3>1. UNCHANGED <<heard, reply>> /\ pc[t] = "rerun" /\ pc'[t] = "reply"
      BY <2>9 DEF Rerun, Return, Goto, TalkShape
    <3>2. Heeded(t)'
      BY <3>1 DEF Heeded, Begun, Asking
    <3> QED
      BY <2>3, <3>2
  <2> QED
    BY <1>1, <2>4, <2>5, <2>6, <2>7, <2>8, <2>9 DEF WorkerStep
<1>2. ASSUME NEW t \in Turns, Arrive(t) PROVE \A u \in Turns : Heeded(u)'
  <2>1. UNCHANGED <<reply, ran>> /\ pc[t] = "idle" /\ pc'[t] \in {"answer", "classify"}
    BY <1>2 DEF Arrive, MaySend, Goto, TalkShape, ghosts
  <2>2. pc'[t] = "classify" => heard'[t].waiting = NoTask
    BY <1>2 DEF Arrive, Goto, TalkShape
  <2>3. \A u \in Turns \ {t} : pc'[u] = pc[u] /\ heard'[u] = heard[u]
    BY <1>2 DEF Arrive, Goto, TalkShape
  <2>4. Heeded(t)'
    BY <2>1, <2>2 DEF Heeded, Begun, Asking
  <2> QED
    BY <2>1, <2>3, <2>4 DEF Heeded, Begun
<1>3. ASSUME NEW t \in Turns, Unreachable(t) \/ Save(t) PROVE \A u \in Turns : Heeded(u)'
  <2>1. /\ UNCHANGED <<heard, reply, ran>>
        /\ (pc[t] = "idle" /\ pc'[t] = "failed") \/ (pc[t] = "reply" /\ pc'[t] = "done")
        /\ \A u \in Turns \ {t} : pc'[u] = pc[u]
    BY <1>3 DEF Unreachable, Save, MaySend, Goto, TalkShape, locals, ghosts
  <2>2. \A u \in Turns \ {t} : Heeded(u)'
    BY <2>1 DEF Heeded, Begun
  <2>3. Heeded(t)'
    BY <2>1 DEF Heeded, Begun, Asking
  <2> QED
    BY <2>2, <2>3
<1>4. CASE UNCHANGED <<pc, heard, reply, ran>>
  BY <1>4 DEF Heeded, Begun
<1> QED
  BY <1>1, <1>2, <1>3, <1>4, NextSteps DEF TimeOut, Evict, talkVars, locals, ghosts

\* How many questions in a row the gate and the first one may have asked, and every evicted
\* plan once more.
Quota == 1 + evictions * (GateRounds + 1 + Retries)

\* That n questions in a row are no more than a session (or an outcome) accounts for.
Fits(n, s) ==
  /\ ~s.clarified => n = 0
  /\ s.clarified /\ s.waiting.task = 0 => n <= Quota + s.rounds /\ n <= Quota + GateRounds
  /\ s.clarified /\ s.waiting.task # 0 =>
        IF s.waiting.task \in Stored THEN n <= Quota + GateRounds + asks[s.waiting.task] ELSE n <= Quota

\* The same of a turn that is under way.
TurnRoom(t, n) ==
  /\ \A s \in Sessions : pc[t] \in Asking \cup {"answer", "provide"} /\ heard[t] = s => Fits(n, s)
  /\ \A task \in Turns : pc[t] = "resume" /\ heard[t].waiting.task = task => n <= Quota + GateRounds + asks[task]
  /\ \A s \in Spoken : pc[t] = "reply" /\ out[t] = s /\ s.clarified => Fits(n + 1, s)

Patience ==
  /\ streak <= Quota + GateRounds + 1 + Retries
  /\ \A n \in Nat, s \in Sessions : n = streak /\ s = session /\ Resting => Fits(n, s)
  /\ \A n \in Nat, t \in Turns : n = streak /\ Driving(t) => TurnRoom(t, n)

LEMMA QuotaFacts ==
  ASSUME TalkShape
  PROVE  /\ Quota \in Nat /\ Quota >= 1
         /\ evictions' = evictions => Quota' = Quota
         /\ evictions' = evictions + 1 => Quota' = Quota + GateRounds + 1 + Retries
         /\ Quota + GateRounds + 1 + Retries = 1 + (evictions + 1) * (GateRounds + 1 + Retries)
<1> DEFINE step == GateRounds + 1 + Retries
<1>1. GateRounds \in Nat /\ Retries \in Nat /\ step \in Nat /\ evictions \in Nat
  BY DEF TalkShape, Bounds
<1>2. \A e, n \in Nat : e * n \in Nat /\ (e + 1) * n = e * n + n
  BY SMT
<1>3. Quota = 1 + evictions * step /\ Quota' = 1 + evictions' * step
  BY DEF Quota
<1>4. step = GateRounds + 1 + Retries
  OBVIOUS
<1>5. 1 + (evictions + 1) * (GateRounds + 1 + Retries) = 1 + (evictions + 1) * step
  OBVIOUS
<1> HIDE DEF step
<1>6. evictions * step \in Nat /\ (evictions + 1) * step = evictions * step + step
  BY <1>1, <1>2
<1> DEFINE x == evictions * step
<1>7. x \in Nat /\ Quota = 1 + x /\ (evictions + 1) * step = x + step
  BY <1>3, <1>6
<1>8. evictions' = evictions => Quota' = 1 + x
  BY <1>3
<1>9. evictions' = evictions + 1 => Quota' = 1 + (x + step)
  BY <1>3, <1>6
<1> HIDE DEF x
<1>10. Quota \in Nat /\ Quota >= 1
  BY <1>7
<1>11. evictions' = evictions + 1 => Quota' = Quota + GateRounds + 1 + Retries
  BY <1>1, <1>4, <1>7, <1>9
<1>12. Quota + GateRounds + 1 + Retries = 1 + (evictions + 1) * (GateRounds + 1 + Retries)
  BY <1>1, <1>4, <1>5, <1>7
<1> QED
  BY <1>7, <1>8, <1>10, <1>11, <1>12

\* What a session accounts for stays so while its task is left alone.
LEMMA FitsStill ==
  ASSUME TalkShape, NEW n \in Nat, NEW s, Fits(n, s), evictions' = evictions,
         s.clarified /\ s.waiting.task # 0 => asks'[s.waiting.task] = asks[s.waiting.task]
                                             /\ (s.waiting.task \in Stored' <=> s.waiting.task \in Stored)
  PROVE  Fits(n, s)'
<1>1. Quota' = Quota
  BY QuotaFacts
<1> QED
  BY <1>1 DEF Fits

\* A plan that is pushed out gives the session a new quota.
LEMMA FitsEvict ==
  ASSUME TalkShape, TasksOK, Evict, NEW n \in Nat, NEW s, s.waiting.task \in Owners,
         s.rounds \in Nat, Fits(n, s)
  PROVE  Fits(n, s)'
<1>1. evictions' = evictions + 1 /\ asks' = asks
  BY DEF Evict, ghosts
<1>2. Quota' = Quota + GateRounds + 1 + Retries /\ Quota \in Nat /\ GateRounds \in Nat /\ Retries \in Nat
  BY <1>1, QuotaFacts DEF TalkShape, Bounds
<1> DEFINE task == s.waiting.task
<1>3. task # 0 => task \in Turns /\ asks[task] \in Nat /\ asks[task] <= 1 + Retries
  BY TurnFacts DEF TalkShape, TasksOK, TaskOK
<1>4. ~s.clarified => n = 0
  BY DEF Fits
<1>5. s.clarified /\ task = 0 => n <= Quota' + s.rounds /\ n <= Quota' + GateRounds
  <2>1. s.clarified /\ task = 0 => n <= Quota + s.rounds /\ n <= Quota + GateRounds
    BY DEF Fits
  <2> QED
    BY <1>2, <2>1
<1>6. s.clarified /\ task # 0 => n <= Quota'
  <2>1. s.clarified /\ task # 0 => n <= Quota \/ n <= Quota + GateRounds + asks[task]
    BY DEF Fits
  <2> HIDE DEF task
  <2> QED
    BY <1>2, <1>3, <2>1
<1>7. s.clarified /\ task # 0 => n <= Quota' + GateRounds + asks'[task]
  <2> HIDE DEF task
  <2>1. task # 0 => asks'[task] \in Nat
    BY <1>1, <1>3
  <2>2. Quota' \in Nat
    BY <1>2
  <2> QED
    BY <1>2, <1>6, <2>1, <2>2
<1> QED
  BY <1>4, <1>5, <1>6, <1>7 DEF Fits

\* The quota bounds what is left to be asked.
LEMMA FitsBound ==
  ASSUME TalkShape, TasksOK, NEW n \in Nat, NEW s, s.waiting.task \in Owners, Fits(n, s)
  PROVE  n <= Quota + GateRounds + 1 + Retries
<1>1. Quota \in Nat /\ GateRounds \in Nat /\ Retries \in Nat
  BY QuotaFacts DEF TalkShape, Bounds
<1> DEFINE task == s.waiting.task
<1>2. task # 0 => task \in Turns /\ asks[task] \in Nat /\ asks[task] <= 1 + Retries
  BY TurnFacts DEF TalkShape, TasksOK, TaskOK
<1>3. n = 0 \/ n <= Quota + GateRounds \/ n <= Quota \/ (task # 0 /\ n <= Quota + GateRounds + asks[task])
  BY DEF Fits
<1> HIDE DEF task
<1> QED
  BY <1>1, <1>2, <1>3

\* A worker does not take the patience of others.
LEMMA OthersPatience ==
  ASSUME TalkShape, \A u \in Turns : Heeded(u), Patience, NEW t \in Turns, Works(t), OthersMind(t),
         \A n \in Nat : n = streak /\ Driving(t) => TurnRoom(t, n)'
  PROVE  Patience'
<1>1. evictions' = evictions /\ streak' = streak /\ session' = session /\ Quota' = Quota
  BY QuotaFacts DEF Works
<1>2. /\ Resting' <=> Resting
      /\ \A u \in Turns : Driving(u)' <=> Driving(u)
  BY OthersKept
<1>3. ASSUME NEW task \in Turns, NEW o \in Owners \ {t}, TaskOf(o) = task
      PROVE  asks'[task] = asks[task] /\ (task \in Stored' <=> task \in Stored)
  BY <1>3 DEF OthersMind, Keeps
<1>4. ASSUME NEW n \in Nat, NEW s \in Sessions, n = streak, s = session, Resting PROVE Fits(n, s)'
  <2>1. Fits(n, s)
    BY <1>4 DEF Patience
  <2>2. 0 \in Owners \ {t} /\ TaskOf(0) = s.waiting.task /\ s.waiting.task \in Owners
        /\ \A o \in Owners : o = 0 \/ o \in Turns
    BY <1>4, TurnFacts, OwnersTyped DEF TaskOf, TalkShape
  <2>3. s.waiting.task # 0 => s.waiting.task \in Turns
    BY <2>2
  <2> QED
    BY <1>1, <1>3, <2>1, <2>2, <2>3, FitsStill
<1>5. ASSUME NEW n \in Nat, NEW u \in Turns \ {t}, n = streak, Driving(u) PROVE TurnRoom(u, n)'
  <2>1. TurnRoom(u, n) /\ u \in Owners \ {t} /\ u # 0 /\ \A o \in Owners : o = 0 \/ o \in Turns
    BY <1>5, TurnFacts DEF Patience, TalkShape
  <2>2. pc'[u] = pc[u] /\ heard'[u] = heard[u] /\ out'[u] = out[u]
    BY DEF Works
  <2>3. ASSUME NEW s \in Sessions, pc[u] \in Asking \cup {"answer", "provide"}, heard[u] = s
        PROVE  Fits(n, s)'
    <3>1. Fits(n, s) /\ s.waiting.task \in Owners
      BY <2>1, <2>3, OwnersTyped DEF TurnRoom
    <3>2. s.waiting.task # 0 => TaskOf(u) = s.waiting.task
      <4>1. pc[u] \in Asking => s.waiting.task = 0
        BY <2>3, OwnersTyped DEF Heeded
      <4>2. pc[u] \in {"answer", "provide"} => TaskOf(u) = s.waiting.task
        BY <2>3, OwnTask DEF Holding
      <4> QED
        BY <2>3, <4>1, <4>2
    <3>3. s.clarified /\ s.waiting.task # 0 => asks'[s.waiting.task] = asks[s.waiting.task]
                                             /\ (s.waiting.task \in Stored' <=> s.waiting.task \in Stored)
      BY <1>3, <2>1, <3>1, <3>2
    <3> QED
      BY <1>1, <3>1, <3>3, FitsStill, ZenonT(30)
  <2>4. ASSUME NEW task \in Turns, pc[u] = "resume", heard[u].waiting.task = task
        PROVE  n <= Quota' + GateRounds + asks'[task]
    <3>1. TaskOf(u) = task /\ n <= Quota + GateRounds + asks[task]
      BY <2>1, <2>4, OwnTask DEF TurnRoom, Holding
    <3>2. asks'[task] = asks[task]
      BY <1>3, <2>1, <3>1
    <3> QED
      BY <1>1, <3>1, <3>2
  <2>5. ASSUME NEW s \in Spoken, pc[u] = "reply", out[u] = s, s.clarified
        PROVE  Fits(n + 1, s)'
    <3>1. Fits(n + 1, s) /\ s.waiting.task \in Owners /\ n + 1 \in Nat
      BY <2>1, <2>5, OwnersTyped DEF TurnRoom
    <3>2. TaskOf(u) = s.waiting.task
      BY <1>5, <2>1, <2>5 DEF TaskOf, Driving, Holding
    <3>3. s.clarified /\ s.waiting.task # 0 => asks'[s.waiting.task] = asks[s.waiting.task]
                                             /\ (s.waiting.task \in Stored' <=> s.waiting.task \in Stored)
      BY <1>3, <2>1, <3>1, <3>2
    <3> QED
      BY <1>1, <3>1, <3>3, FitsStill, ZenonT(30)
  <2> QED
    BY <2>2, <2>3, <2>4, <2>5 DEF TurnRoom
<1>6. streak' <= Quota' + GateRounds + 1 + Retries
  BY <1>1 DEF Patience
<1>7. \A n \in Nat, u \in Turns : n = streak /\ Driving(u) => TurnRoom(u, n)'
  BY <1>5
<1> QED
  BY <1>1, <1>2, <1>4, <1>6, <1>7 DEF Patience

\* A turn that has spoken.
LEMMA SaidRoom ==
  ASSUME TalkShape', NEW t \in Turns, NEW n \in Nat, pc'[t] = "reply",
         \A s \in Spoken : out'[t] = s /\ s.clarified => Fits(n + 1, s)'
  PROVE  TurnRoom(t, n)'
BY DEF TurnRoom, Asking

\* A turn that moves on without asking.
LEMMA MovedRoom ==
  ASSUME TalkShape, NEW t \in Turns, NEW n \in Nat, TurnRoom(t, n),
         pc[t] \in Asking \cup {"answer", "provide"},
         pc'[t] \in Asking \cup {"answer", "provide", "compose", "rerun"},
         UNCHANGED <<heard, store, asks, evictions>>
  PROVE  TurnRoom(t, n)'
<1>1. ASSUME NEW s \in Sessions, heard[t] = s PROVE Fits(n, s)'
  <2>1. Fits(n, s)
    BY <1>1 DEF TurnRoom
  <2>2. Stored' = Stored
    BY DEF Stored
  <2> QED
    BY <2>1, <2>2, FitsStill
<1> QED
  BY <1>1 DEF TurnRoom, Asking

\* What a turn that still has to ask knows of the questions so far.
LEMMA AskingRoom ==
  ASSUME TalkShape, NEW t \in Turns, NEW n \in Nat, TurnRoom(t, n), Heeded(t), pc[t] \in Asking
  PROVE  /\ heard[t].rounds \in Nat /\ n <= Quota + GateRounds
         /\ ~heard[t].clarified => n = 0 /\ heard[t].rounds = 0
         /\ heard[t].clarified => n <= Quota + heard[t].rounds
<1>1. heard[t] \in Sessions /\ GateRounds \in Nat /\ Quota \in Nat
  BY QuotaFacts DEF TalkShape, Bounds
<1>2. Fits(n, heard[t])
  BY <1>1 DEF TurnRoom
<1>3. heard[t].waiting.task = 0
  BY OwnersTyped DEF Heeded
<1>4. heard[t].rounds \in Nat /\ (~heard[t].clarified => heard[t].rounds = 0) /\ heard[t].clarified \in BOOLEAN
  BY <1>1 DEF Sessions
<1>5. (~heard[t].clarified => n = 0)
      /\ (heard[t].clarified => n <= Quota + heard[t].rounds /\ n <= Quota + GateRounds)
  BY <1>2, <1>3 DEF Fits
<1> QED
  BY <1>1, <1>4, <1>5

LEMMA AskingPatience ==
  ASSUME TalkShape, NEW t \in Turns, Heeded(t), NEW n \in Nat, TurnRoom(t, n),
         Classify(t) \/ Gate(t) \/ DerivePlan(t)
  PROVE  TurnRoom(t, n)'
<1>1. /\ UNCHANGED <<heard, store, asks, evictions>> /\ pc[t] \in Asking /\ TalkShape'
  BY ClassifyShape, GateShape, DerivePlanShape DEF Classify, Gate, DerivePlan, agents, ghosts, Asking
<1>2. GateRounds \in Nat /\ Quota \in Nat /\ Quota >= 1 /\ Quota' = Quota
  BY <1>1, QuotaFacts DEF TalkShape, Bounds
<1>3. /\ heard[t].rounds \in Nat /\ n <= Quota + GateRounds
      /\ ~heard[t].clarified => n = 0 /\ heard[t].rounds = 0
      /\ heard[t].clarified => n <= Quota + heard[t].rounds
  BY <1>1, AskingRoom
<1>4. CASE \E to \in Asking : Goto(t, to)
  <2>1. pc'[t] \in Asking
    BY <1>4 DEF Goto, TalkShape
  <2> QED
    BY <1>1, <2>1, MovedRoom
<1>5. CASE Return(t, Final)
  <2>1. pc'[t] = "reply" /\ ~out'[t].clarified
    BY <1>5, NothingAsked DEF Return, Goto, TalkShape
  <2> QED
    BY <1>1, <2>1, SaidRoom
<1>6. ASSUME NEW r \in Nat, Return(t, Outcome(TRUE, NoTask, r)), n + 1 <= Quota + r, n + 1 <= Quota + GateRounds
      PROVE  TurnRoom(t, n)'
  <2>1. pc'[t] = "reply" /\ out'[t] = Outcome(TRUE, NoTask, r)
    BY <1>6 DEF Return, Goto, TalkShape
  <2>2. ASSUME NEW s \in Spoken, out'[t] = s PROVE Fits(n + 1, s)'
    <3>1. s.clarified = TRUE /\ s.waiting.task = 0 /\ s.rounds = r
      BY <2>1, <2>2, NothingAsked DEF Outcome
    <3> QED
      BY <3>1, <1>2, <1>6 DEF Fits
  <2> QED
    BY <1>1, <2>1, <2>2, SaidRoom
<1>7. CASE ~AfterClarification(t) /\ Clarify(t)
  <2>1. n + 1 <= Quota + 0 /\ n + 1 <= Quota + GateRounds
    BY <1>2, <1>3, <1>7 DEF AfterClarification
  <2> QED
    BY <1>6, <1>7, <2>1 DEF Clarify
<1>8. CASE MayAsk(t) /\ ClarifyFromGate(t)
  <2>1. heard[t].clarified => heard[t].rounds + 1 <= GateRounds
    BY <1>2, <1>3, <1>8 DEF MayAsk, AfterClarification
  <2>2. heard[t].clarified \in BOOLEAN
    BY DEF TalkShape, Sessions
  <2>3. n + 1 <= Quota + (heard[t].rounds + 1)
    BY <1>2, <1>3, <2>1, <2>2
  <2>4. n + 1 <= Quota + GateRounds
    BY <1>2, <1>3, <2>1, <2>2
  <2>5. heard[t].rounds + 1 \in Nat
    BY <1>3
  <2>6. Return(t, Outcome(TRUE, NoTask, heard[t].rounds + 1))
    BY <1>8, Zenon DEF ClarifyFromGate
  <2> QED
    BY <1>6, <2>3, <2>4, <2>5, <2>6, Zenon
<1> QED
  BY <1>4, <1>5, <1>7, <1>8 DEF Classify, Gate, DerivePlan, NotAgreed, Asking

\* A turn that ends without a question.
LEMMA FinalRoom ==
  ASSUME TalkShape', NEW t \in Turns, NEW n \in Nat, pc' = [pc EXCEPT ![t] = "reply"], TalkShape,
         out'[t] = Final
  PROVE  TurnRoom(t, n)'
<1>1. pc'[t] = "reply" /\ ~out'[t].clarified
  BY NothingAsked DEF TalkShape
<1> QED
  BY <1>1, SaidRoom

LEMMA ReturnFacts ==
  ASSUME TalkShape, NEW t \in Turns, NEW outcome, Return(t, outcome)
  PROVE  pc' = [pc EXCEPT ![t] = "reply"] /\ pc'[t] = "reply" /\ out'[t] = outcome
BY DEF Return, Goto, TalkShape

\* A turn that asks the question of a stored plan.
LEMMA QuestionRoom ==
  ASSUME TalkShape', NEW t \in Turns, NEW n \in Nat, NEW task \in Turns, NEW agreed,
         pc'[t] = "reply", out'[t] \in {Final, Outcome(TRUE, [task |-> task, plan |-> agreed], 0)},
         task \in Stored', n + 1 <= Quota' + GateRounds + asks'[task]
  PROVE  TurnRoom(t, n)'
<1> SUFFICES ASSUME NEW s \in Spoken, out'[t] = s, s.clarified
             PROVE  Fits(n + 1, s)'
  BY SaidRoom
<1>1. s.waiting.task = task
  BY NothingAsked DEF Outcome
<1>2. task # 0
  BY TurnFacts DEF TalkShape
<1> QED
  BY <1>1, <1>2 DEF Fits

LEMMA ExecutePatience ==
  ASSUME TalkShape, NEW t \in Turns, Heeded(t), TasksOK, NEW n \in Nat, TurnRoom(t, n), Execute(t)
  PROVE  TurnRoom(t, n)'
<1>1. TalkShape' /\ pc[t] = "execute" /\ evictions' = evictions
  BY ExecuteShape DEF Execute
<1>2. GateRounds \in Nat /\ Quota \in Nat /\ Quota' = Quota /\ n <= Quota + GateRounds
  BY <1>1, QuotaFacts, AskingRoom DEF TalkShape, Bounds, Asking
<1>3. CASE Goto(t, "compose")
  <2>1. pc'[t] = "compose"
    BY <1>3 DEF Goto, TalkShape
  <2> QED
    BY <2>1 DEF TurnRoom, Asking
<1>4. CASE Remember(t, Retries) /\ Ask(t) /\ RelayQuestion(t, t, plan[t])
  <2>0. asks[t] = 0
    BY <1>1 DEF TasksOK, TaskOK, Begun
  <2>1. Retries \in 0..Retries /\ [task |-> t, plan |-> plan[t]] \in Unfinished
    BY <1>1 DEF TalkShape, Bounds, Unfinished
  <2>2. asks'[t] = 1 /\ t \in Stored'
    BY <1>4, <2>0, <2>1, CountTyped, RememberFacts
  <2>3. out'[t] \in {Final, Outcome(TRUE, [task |-> t, plan |-> plan[t]], 0)} /\ pc' = [pc EXCEPT ![t] = "reply"]
    BY <1>4, <2>1, HeardTyped, SpokenFacts DEF RelayQuestion, TalkShape
  <2>4. pc'[t] = "reply"
    BY <2>3 DEF TalkShape
  <2>5. n + 1 <= Quota' + GateRounds + asks'[t]
    BY <1>2, <2>2
  <2> QED
    BY <1>1, <2>2, <2>3, <2>4, <2>5, QuestionRoom
<1>5. CASE Return(t, Final)
  BY <1>1, <1>5, ReturnFacts, FinalRoom
<1> QED
  BY <1>3, <1>4, <1>5 DEF Execute

LEMMA RelayPatience ==
  ASSUME TalkShape, NEW t \in Turns, ~Material, NEW n \in Nat, TurnRoom(t, n), Relay(t)
  PROVE  TurnRoom(t, n)'
<1>1. pc[t] = "answer" /\ pc'[t] = "provide" /\ UNCHANGED <<heard, store, asks, evictions>>
  BY DEF Relay, IsDomainMaterial, Goto, TalkShape, agents
<1> QED
  BY <1>1, MovedRoom DEF Asking

LEMMA ProvidePatience ==
  ASSUME TalkShape, NEW t \in Turns, NEW n \in Nat, TurnRoom(t, n), Provide(t)
  PROVE  TurnRoom(t, n)'
<1> DEFINE task == heard[t].waiting.task
<1>1. /\ TalkShape' /\ pc[t] = "provide" /\ UNCHANGED <<store, asks, evictions>> /\ task \in Turns
      /\ heard[t] \in Sessions /\ task # 0
  BY ProvideShape, OwnersTyped, TurnFacts DEF Provide, ghosts, Holding, TalkShape
<1>2. GateRounds \in Nat /\ Quota \in Nat /\ Quota' = Quota
  BY <1>1, QuotaFacts DEF TalkShape, Bounds
<1>3. /\ heard[t].clarified /\ heard[t].rounds = 0
      /\ IF task \in Stored THEN n <= Quota + GateRounds + asks[task] ELSE n <= Quota
  <2>1. heard[t].waiting # NoTask
    BY <1>1 DEF TalkShape, Holding
  <2>2. heard[t].clarified /\ heard[t].rounds = 0
    BY <1>1, <2>1 DEF Sessions
  <2>3. Fits(n, heard[t])
    BY <1>1 DEF TurnRoom
  <2> QED
    BY <1>1, <2>2, <2>3 DEF Fits
<1>4. CASE Return(t, Final)
  BY <1>1, <1>4, ReturnFacts, FinalRoom
<1>5. CASE /\ task \notin Stored
           /\ heard' = [heard EXCEPT ![t].clarified = TRUE, ![t].waiting = NoTask]
           /\ Goto(t, "classify")
  <2>1. heard' = [heard EXCEPT ![t] = Dropped(heard[t])]
    BY <1>5 DEF Dropped, TalkShape
  <2>2. heard'[t] = Dropped(heard[t]) /\ pc'[t] = "classify"
    BY <1>5, <2>1 DEF Goto, TalkShape
  <2>3. Dropped(heard[t]).waiting.task = 0 /\ Dropped(heard[t]).rounds = 0 /\ Dropped(heard[t]).clarified
    BY <1>1, <1>3 DEF Dropped, Sessions, NoTask
  <2>4. n <= Quota' + 0 /\ n <= Quota' + GateRounds
    BY <1>2, <1>3, <1>5
  <2>5. ASSUME NEW s \in Sessions, heard'[t] = s PROVE Fits(n, s)'
    <3>1. s.waiting.task = 0 /\ s.rounds = 0 /\ s.clarified
      BY <2>2, <2>3, <2>5
    <3> QED
      BY <2>4, <3>1 DEF Fits
  <2> QED
    BY <2>2, <2>5 DEF TurnRoom
<1>6. CASE task \in Stored /\ Goto(t, "resume") /\ UNCHANGED heard
  <2>1. pc'[t] = "resume" /\ heard' = heard
    BY <1>6 DEF Goto, TalkShape
  <2>2. n <= Quota' + GateRounds + asks'[task]
    BY <1>1, <1>2, <1>3, <1>6
  <2> QED
    BY <2>1, <2>2 DEF TurnRoom, Asking
<1> QED
  BY <1>4, <1>5, <1>6 DEF Provide

LEMMA ResumePatience ==
  ASSUME TalkShape, NEW t \in Turns, TasksOK, NEW n \in Nat, TurnRoom(t, n), Resume(t)
  PROVE  TurnRoom(t, n)'
<1> DEFINE task == heard[t].waiting.task
<1>1. /\ TalkShape' /\ pc[t] = "resume" /\ evictions' = evictions /\ task \in Turns
      /\ n <= Quota + GateRounds + asks[task]
  BY ResumeShape, OwnersTyped DEF Resume, Holding, TurnRoom
<1>2. GateRounds \in Nat /\ Quota \in Nat /\ Quota' = Quota /\ asks[task] \in Nat
  BY <1>1, QuotaFacts DEF TalkShape, Bounds
<1>3. CASE Return(t, Final)
  BY <1>1, <1>3, ReturnFacts, FinalRoom
<1>4. CASE TakeUp(t, task)
  <2>1. pc'[t] = "rerun"
    BY <1>4 DEF TakeUp, Goto, TalkShape
  <2> QED
    BY <2>1 DEF TurnRoom, Asking
<1>5. CASE left[t] > 0 /\ AskAgain(t, task)
  <2> HIDE DEF task
  <2>0. left[t] \in 0..Retries /\ Retries \in Nat
    BY DEF TalkShape, Bounds
  <2>1. left[t] - 1 \in 0..Retries /\ [task |-> task, plan |-> "lost"] \in Unfinished
    BY <1>1, <1>5, <2>0 DEF Unfinished
  <2>2. asks'[task] = asks[task] + 1 /\ task \in Stored'
    BY <1>1, <1>5, <2>1, CountTyped, RememberFacts DEF AskAgain
  <2>3. out'[t] \in {Final, Outcome(TRUE, [task |-> task, plan |-> "lost"], 0)} /\ pc' = [pc EXCEPT ![t] = "reply"]
    BY <1>5, <2>1, HeardTyped, SpokenFacts DEF AskAgain, RelayQuestion, TalkShape
  <2>4. pc'[t] = "reply"
    BY <2>3 DEF TalkShape
  <2>5. n + 1 <= Quota' + GateRounds + asks'[task]
    BY <1>1, <1>2, <2>2
  <2> QED
    BY <1>1, <2>2, <2>3, <2>4, <2>5, QuestionRoom
<1> QED
  BY <1>3, <1>4, <1>5 DEF Resume

LEMMA WorkerPatience ==
  ASSUME TalkShape, ~Material, \A u \in Turns : Heeded(u), TasksOK, Patience, NEW t \in Turns, WorkerStep(t)
  PROVE  Patience'
<1>1. Works(t) /\ OthersMind(t) /\ TalkShape'
  BY WorkerFacts, TalkShapeKept DEF TalkNext, WorkerStep
<1>2. ASSUME NEW n \in Nat, n = streak, Driving(t) PROVE TurnRoom(t, n)'
  <2>1. TurnRoom(t, n)
    BY <1>2 DEF Patience
  <2>2. CASE Compose(t) \/ Rerun(t)
    <3>1. Return(t, Final)
      BY <2>2 DEF Compose, Rerun
    <3> QED
      BY <1>1, <3>1, ReturnFacts, FinalRoom
  <2> QED
    BY <2>1, <2>2, AskingPatience, ExecutePatience, RelayPatience, ProvidePatience, ResumePatience DEF WorkerStep
<1> QED
  BY <1>1, <1>2, OthersPatience

LEMMA ArrivePatience ==
  ASSUME TalkShape, ~Overlap, Alone, TasksOK, Patience, NEW t \in Turns, Arrive(t)
  PROVE  Patience'
<1>1. Resting /\ ~Resting' /\ Driving(t)' /\ \A u \in Turns \ {t} : ~Driving(u)'
  BY ArriveTasks
<1>2. /\ heard'[t] = session /\ pc'[t] \in {"answer", "classify"}
      /\ UNCHANGED <<session, streak, store, asks, evictions>>
  BY DEF Arrive, Goto, TalkShape, agents, ghosts
<1>3. Quota' = Quota /\ Stored' = Stored
  BY <1>2, QuotaFacts DEF Stored
<1>4. ASSUME NEW n \in Nat, n = streak PROVE TurnRoom(t, n)'
  <2>1. ASSUME NEW s \in Sessions, heard'[t] = s PROVE Fits(n, s)'
    <3>1. Fits(n, s)
      BY <1>1, <1>2, <1>4, <2>1 DEF Patience
    <3> QED
      BY <3>1, <1>2, <1>3, FitsStill
  <2> QED
    BY <1>2, <2>1 DEF TurnRoom
<1>5. streak' <= Quota' + GateRounds + 1 + Retries
  BY <1>2, <1>3 DEF Patience
<1>6. \A n \in Nat, u \in Turns : n = streak' /\ Driving(u)' => TurnRoom(u, n)'
  BY <1>1, <1>2, <1>4
<1> QED
  BY <1>1, <1>5, <1>6 DEF Patience

\* Steps that leave everybody's room as it is.
LEMMA SamePatience ==
  ASSUME TalkShape, Patience, UNCHANGED <<session, streak, store, asks, evictions, heard, out>>,
         Resting' => Resting,
         \A u \in Turns : Driving(u)' => Driving(u) /\ pc'[u] = pc[u]
  PROVE  Patience'
<1>1. Quota' = Quota /\ Stored' = Stored
  BY QuotaFacts DEF Stored
<1>2. \A n, s : Fits(n, s)' <=> Fits(n, s)
  BY <1>1 DEF Fits
<1>3. ASSUME NEW n \in Nat, NEW u \in Turns, TurnRoom(u, n), pc'[u] = pc[u] PROVE TurnRoom(u, n)'
  BY <1>1, <1>2, <1>3 DEF TurnRoom
<1> QED
  BY <1>1, <1>2, <1>3 DEF Patience

LEMMA UnreachablePatience ==
  ASSUME TalkShape, Alone, TasksOK, Patience, NEW t \in Turns, Unreachable(t)
  PROVE  Patience'
<1>1. (Resting' <=> Resting) /\ \A u \in Turns : Driving(u)' <=> Driving(u)
  BY UnreachableTasks
<1>2. /\ UNCHANGED <<session, streak, store, asks, evictions, heard, out>>
      /\ pc[t] = "idle" /\ \A u \in Turns \ {t} : pc'[u] = pc[u]
  BY DEF Unreachable, MaySend, Goto, TalkShape, agents, ghosts, locals
<1>3. ~Driving(t)
  BY <1>2 DEF Driving, AtRest
<1> QED
  BY <1>1, <1>2, <1>3, SamePatience

\* After a turn has reported, nobody is under way and the session is what it reported.
LEMMA EndPatience ==
  ASSUME TalkShape, TalkShape', TasksOK', \A u \in Turns : ~Driving(u)',
         \A n \in Nat, s \in Sessions : n = streak' /\ s = session' => Fits(n, s)'
  PROVE  Patience'
<1>1. streak' \in Nat /\ session' \in Sessions
  BY DEF TalkShape
<1>2. \A s \in Sessions : session' = s => s.waiting.task \in Owners
  BY TurnFacts DEF TalkShape, Sessions
<1>3. ASSUME NEW n \in Nat, NEW s \in Sessions, n = streak', s = session'
      PROVE  n <= Quota' + GateRounds + 1 + Retries
  <2>1. Fits(n, s)' /\ s.waiting.task \in Owners
    BY <1>2, <1>3
  <2>2. Quota' \in Nat /\ GateRounds \in Nat /\ Retries \in Nat
    BY DEF TalkShape, Bounds, Quota
  <2> DEFINE task == s.waiting.task
  <2>3. task # 0 => task \in Turns /\ asks'[task] \in Nat /\ asks'[task] <= 1 + Retries
    BY <2>1, TurnFacts DEF TalkShape, TasksOK, TaskOK
  <2>4. \/ n = 0 \/ n <= Quota' + GateRounds \/ n <= Quota'
        \/ (task # 0 /\ n <= Quota' + GateRounds + asks'[task])
    BY <2>1 DEF Fits
  <2> DEFINE asked == asks'[task]
             quota == Quota'
  <2>5. \/ n = 0 \/ n <= quota + GateRounds \/ n <= quota
        \/ (asked \in Nat /\ asked <= 1 + Retries /\ n <= quota + GateRounds + asked)
    BY <2>3, <2>4
  <2>6. quota \in Nat
    BY <2>2
  <2> HIDE DEF task, asked, quota
  <2>7. n <= quota + GateRounds + 1 + Retries
    BY <2>2, <2>5, <2>6
  <2> QED
    BY <2>7 DEF quota
<1> QED
  BY <1>1, <1>3 DEF Patience

LEMMA SavePatience ==
  ASSUME TalkShape, TalkShape', Alone, TasksOK, Patience, NEW t \in Turns, Save(t)
  PROVE  Patience'
<1>1. /\ TasksOK' /\ ~Driving(t)' /\ \A u \in Turns : u # t => (Driving(u)' <=> Driving(u))
      /\ IF t \in live THEN Resting' /\ \A u \in Turns : ~Driving(u)' ELSE Resting' <=> Resting
  BY SaveTasks
<1>2. /\ UNCHANGED <<store, asks, evictions, heard, out>>
      /\ pc[t] = "reply" /\ \A u \in Turns \ {t} : pc'[u] = pc[u]
  BY DEF Save, Goto, TalkShape, agents, locals
<1>3. CASE t \notin live
  <2>1. UNCHANGED <<session, streak>>
    BY <1>3 DEF Save
  <2> QED
    BY <1>1, <1>2, <1>3, <2>1, SamePatience
<1>4. CASE t \in live
  <2>1. /\ session'.clarified = out[t].clarified /\ session'.waiting = out[t].waiting
        /\ session'.rounds = out[t].rounds
        /\ streak' = IF out[t].clarified THEN streak + 1 ELSE 0
    BY <1>4 DEF Save, Write
  <2>2. Driving(t) /\ streak \in Nat /\ out[t] \in Spoken
    BY <1>2, <1>4 DEF Driving, AtRest, TalkShape
  <2>3. out[t].clarified => Fits(streak + 1, out[t])
    BY <1>2, <2>2 DEF Patience, TurnRoom
  <2>4. Quota' = Quota /\ Stored' = Stored /\ asks' = asks
    BY <1>2, QuotaFacts DEF Stored
  <2>5. ASSUME NEW n \in Nat, NEW s \in Sessions, n = streak', s = session' PROVE Fits(n, s)'
    <3>1. s.clarified = out[t].clarified /\ s.waiting = out[t].waiting /\ s.rounds = out[t].rounds
      BY <2>1, <2>5
    <3>2. CASE out[t].clarified
      <4>1. n = streak + 1
        BY <2>1, <2>5, <3>2
      <4>2. Fits(n, out[t])
        BY <2>3, <3>2, <4>1
      <4>3. Fits(n, s)
        BY <3>1, <4>2 DEF Fits
      <4> QED
        BY <2>4, <4>3 DEF Fits
    <3>3. CASE ~out[t].clarified
      BY <2>1, <2>5, <3>1, <3>3 DEF Fits
    <3> QED
      BY <3>2, <3>3
  <2> QED
    BY <1>1, <1>4, <2>5, EndPatience
<1> QED
  BY <1>3, <1>4

LEMMA TimeOutPatience ==
  ASSUME TalkShape, TalkShape', Alone, TasksOK, NEW t \in Turns, TimeOut(t)
  PROVE  Patience'
<1>1. TasksOK' /\ \A u \in Turns : ~Driving(u)'
  BY TimeOutTasks
<1>2. ~session'.clarified /\ streak' = 0
  BY NothingAsked DEF TimeOut, Write
<1>3. \A n \in Nat, s \in Sessions : n = streak' /\ s = session' => Fits(n, s)'
  BY <1>2 DEF Fits
<1> QED
  BY <1>1, <1>3, EndPatience

LEMMA EvictPatience ==
  ASSUME TalkShape, TasksOK, Patience, Evict
  PROVE  Patience'
<1>1. (Resting' <=> Resting) /\ \A u \in Turns : Driving(u)' <=> Driving(u)
  BY EvictOwners
<1>2. UNCHANGED <<session, pc, heard, out, streak, asks>> /\ evictions' = evictions + 1
  BY DEF Evict, locals, ghosts
<1>3. /\ Quota' = Quota + GateRounds + 1 + Retries /\ Quota \in Nat /\ GateRounds \in Nat /\ Retries \in Nat
  BY <1>2, QuotaFacts DEF TalkShape, Bounds
<1>4. ASSUME NEW n \in Nat, NEW s \in Sessions, Fits(n, s) PROVE Fits(n, s)'
  <2>1. s.waiting.task \in Owners /\ s.rounds \in Nat
    BY TurnFacts DEF Sessions, TalkShape, Bounds
  <2> QED
    BY <1>4, <2>1, FitsEvict
<1>5. ASSUME NEW n \in Nat, NEW s \in Spoken, Fits(n, s) PROVE Fits(n, s)'
  <2>1. s.waiting.task \in Owners /\ s.rounds \in Nat
    BY TurnFacts DEF Spoken, TalkShape, Bounds
  <2> QED
    BY <1>5, <2>1, FitsEvict
<1>6. ASSUME NEW n \in Nat, NEW u \in Turns, TurnRoom(u, n) PROVE TurnRoom(u, n)'
  <2>1. \A s \in Sessions : pc'[u] \in Asking \cup {"answer", "provide"} /\ heard'[u] = s => Fits(n, s)'
    BY <1>2, <1>4, <1>6 DEF TurnRoom
  <2>2. ASSUME NEW task \in Turns, pc'[u] = "resume", heard'[u].waiting.task = task
        PROVE  n <= Quota' + GateRounds + asks'[task]
    <3>1. n <= Quota + GateRounds + asks[task] /\ asks[task] \in Nat
      BY <1>2, <1>6, <2>2 DEF TurnRoom, TalkShape
    <3> QED
      BY <1>2, <1>3, <3>1
  <2>3. \A s \in Spoken : pc'[u] = "reply" /\ out'[u] = s /\ s.clarified => Fits(n + 1, s)'
    BY <1>2, <1>5, <1>6 DEF TurnRoom
  <2> QED
    BY <2>1, <2>2, <2>3 DEF TurnRoom
<1>7. streak' <= Quota' + GateRounds + 1 + Retries
  <2>1. streak \in Nat /\ streak <= Quota + GateRounds + 1 + Retries
    BY DEF TalkShape, Patience
  <2> QED
    BY <1>2, <1>3, <2>1
<1>8. \A n \in Nat, s \in Sessions : n = streak' /\ s = session' /\ Resting' => Fits(n, s)'
  BY <1>1, <1>2, <1>4 DEF Patience
<1>9. \A n \in Nat, u \in Turns : n = streak' /\ Driving(u)' => TurnRoom(u, n)'
  BY <1>1, <1>2, <1>6 DEF Patience
<1> QED
  BY <1>7, <1>8, <1>9 DEF Patience

LEMMA PatienceKept ==
  ASSUME TalkShape, ~Overlap, ~Material, Alone, TasksOK, \A u \in Turns : Heeded(u), Patience, [TalkNext]_talkVars
  PROVE  Patience'
<1>1. TalkShape'
  BY TalkShapeKept
<1>2. CASE UNCHANGED talkVars
  BY <1>2, SamePatience DEF talkVars, agents, locals, ghosts, Resting, Idle, Driving, AtRest
<1> QED
  BY <1>1, <1>2, NextSteps, WorkerPatience, ArrivePatience, UnreachablePatience, SavePatience, TimeOutPatience,
     EvictPatience

\* The MCP agent holds no plan that nobody has.
Owned == live = Turns /\ \A task \in Stored : \E o \in Owners : TaskOf(o) = task

LEMMA StoredTurns ==
  ASSUME TalkShape
  PROVE  Stored \subseteq Turns /\ 0 \notin Stored
BY StoreFacts, TurnFacts DEF Stored, Entries, TalkShape

\* A worker leaves no plan behind that it does not have.
LEMMA WorkerOwns ==
  ASSUME TalkShape, ~Material, ~timedOut', live = Turns, TasksOK, NEW t \in Turns, WorkerStep(t)
  PROVE  \A task \in Stored' : (task \in Stored /\ task # TaskOf(t)) \/ TaskOf(t)' = task
<1>1. Works(t) /\ TalkShape' /\ 0 \notin Stored /\ t # 0 /\ t \in live'
  BY WorkerFacts, TalkShapeKept, StoredTurns, TurnFacts DEF TalkNext, WorkerStep, Works, TalkShape
<1>2. CASE Classify(t) \/ Gate(t) \/ DerivePlan(t) \/ Compose(t)
  <2>1. Stored' = Stored /\ TaskOf(t) = 0
    BY <1>2, OwnTask DEF Classify, Gate, DerivePlan, Compose, agents, Stored, Holding
  <2> QED
    BY <1>1, <2>1
<1>3. CASE Execute(t)
  <2>1. pc[t] = "execute" /\ TaskOf(t) = 0
    BY <1>3, OwnTask DEF Execute, Holding
  <2>2. CASE UNCHANGED store
    BY <1>1, <2>1, <2>2 DEF Stored
  <2>3. CASE Remember(t, Retries) /\ RelayQuestion(t, t, plan[t])
    <3>1. Retries \in 0..Retries /\ [task |-> t, plan |-> plan[t]] \in Unfinished
      BY <2>1 DEF TalkShape, Bounds, Unfinished
    <3>2. Stored' = Stored \cup {t}
      BY <2>3, <3>1, RememberFacts
    <3>3. out'[t] = Outcome(TRUE, [task |-> t, plan |-> plan[t]], 0) /\ pc' = [pc EXCEPT ![t] = "reply"]
      BY <2>3, <3>1, HeardTyped, SpokenFacts DEF RelayQuestion, TalkShape
    <3>4. TaskOf(t)' = t
      BY <1>1, <3>3 DEF TaskOf, Outcome, Holding, TalkShape
    <3> QED
      BY <1>1, <2>1, <3>2, <3>4
  <2> QED
    BY <1>3, <2>2, <2>3 DEF Execute
<1>4. CASE Relay(t)
  <2>1. pc[t] = "answer" /\ pc'[t] = "provide" /\ UNCHANGED <<heard, store>>
    BY <1>4 DEF Relay, IsDomainMaterial, Goto, TalkShape, agents
  <2>2. TaskOf(t)' = TaskOf(t) /\ Stored' = Stored
    BY <1>1, <2>1, OwnTask, OwnTaskNext DEF Holding, Stored
  <2> QED
    BY <2>2
<1>5. CASE Provide(t)
  <2> DEFINE task == heard[t].waiting.task
  <2>1. pc[t] = "provide" /\ Stored' = Stored /\ TaskOf(t) = task /\ task \in Turns
    BY <1>5, OwnTask DEF Provide, Stored, Holding
  <2>2. task \notin closed
    BY <2>1, TakenFacts
  <2>3. CASE task \notin Stored
    BY <2>1, <2>3
  <2>4. CASE Goto(t, "resume") /\ UNCHANGED heard
    <3>1. pc'[t] = "resume" /\ heard' = heard
      BY <2>4 DEF Goto, TalkShape
    <3>2. TaskOf(t)' = task
      BY <1>1, <3>1, OwnTaskNext DEF Holding
    <3> QED
      BY <2>1, <3>2
  <2> QED
    BY <1>5, <2>2, <2>3, <2>4 DEF Provide
<1>6. CASE Resume(t)
  <2> DEFINE task == heard[t].waiting.task
  <2>1. pc[t] = "resume" /\ TaskOf(t) = task /\ task \in Turns /\ heard' = heard
    BY <1>6, OwnTask DEF Resume, Holding
  <2>2. CASE Forget(task)
    <3> HIDE DEF task
    <3>1. Stored' = Stored \ {task}
      BY <2>1, <2>2, ForgetFacts DEF Shrinks
    <3> QED
      BY <2>1, <3>1
  <2>3. CASE left[t] > 0 /\ AskAgain(t, task)
    <3>0. left[t] \in 0..Retries /\ Retries \in Nat
      BY DEF TalkShape, Bounds
    <3> HIDE DEF task
    <3>1. left[t] - 1 \in 0..Retries /\ [task |-> task, plan |-> "lost"] \in Unfinished
      BY <2>1, <2>3, <3>0 DEF Unfinished
    <3>2. Stored' = Stored \cup {task}
      BY <2>1, <2>3, <3>1, RememberFacts DEF AskAgain
    <3>3. out'[t] = Outcome(TRUE, [task |-> task, plan |-> "lost"], 0) /\ pc' = [pc EXCEPT ![t] = "reply"]
      BY <2>3, <3>1, HeardTyped, SpokenFacts DEF AskAgain, RelayQuestion, TalkShape
    <3>4. TaskOf(t)' = task
      BY <1>1, <3>3 DEF TaskOf, Outcome, Holding, TalkShape
    <3> QED
      BY <2>1, <3>2, <3>4
  <2> QED
    BY <1>6, <2>2, <2>3 DEF Resume, TakeUp
<1>7. CASE Rerun(t)
  <2>1. pc[t] = "rerun" /\ Stored' = Stored /\ TaskOf(t) \in Turns
    BY <1>7, OwnTask DEF Rerun, Stored, Holding
  <2>2. TaskOf(t) \notin Stored
    BY <2>1, TakenFacts
  <2> QED
    BY <2>1, <2>2
<1> QED
  BY <1>2, <1>3, <1>4, <1>5, <1>6, <1>7 DEF WorkerStep

\* Who runs out of time has run out of time.
LEMMA StillInTime ==
  ASSUME [TalkNext]_talkVars, ~timedOut'
  PROVE  ~timedOut
<1>1. ASSUME NEW t \in Turns, Execute(t) \/ Resume(t) PROVE ~timedOut
  BY <1>1 DEF Execute, Resume, AskAgain, RelayQuestion, Hear
<1>2. ASSUME NEW t \in Turns, Arrive(t) \/ Unreachable(t) \/ TimeOut(t) \/ Save(t) \/ Classify(t) \/ Gate(t)
      PROVE  ~timedOut
  BY <1>2 DEF Arrive, Unreachable, TimeOut, Save, Classify, Gate
<1>3. ASSUME NEW t \in Turns, DerivePlan(t) \/ Compose(t) \/ Relay(t) \/ Provide(t) \/ Rerun(t)
      PROVE  ~timedOut
  BY <1>3 DEF DerivePlan, Compose, Relay, Provide, Rerun
<1> QED
  BY <1>1, <1>2, <1>3 DEF TalkNext, talkVars, Evict

LEMMA OwnedKept ==
  ASSUME TalkShape, ~Overlap, ~Material, ~timedOut', Alone, TasksOK, Owned, [TalkNext]_talkVars
  PROVE  Owned'
<1>1. ASSUME NEW t \in Turns, WorkerStep(t) PROVE Owned'
  <2>1. live' = Turns /\ \A o \in Owners \ {t} : TaskOf(o)' = TaskOf(o)
    BY <1>1, WorkerFacts, OthersKept DEF Works, Owned
  <2>2. t \in Owners
    BY TurnFacts DEF TalkShape
  <2>3. ASSUME NEW task \in Stored' PROVE \E o \in Owners : TaskOf(o)' = task
    <3>1. (task \in Stored /\ task # TaskOf(t)) \/ TaskOf(t)' = task
      BY <1>1, <2>3, WorkerOwns DEF Owned
    <3> QED
      BY <2>1, <2>2, <3>1 DEF Owned
  <2> QED
    BY <2>1, <2>3 DEF Owned
<1>2. ASSUME NEW t \in Turns, Arrive(t) \/ Unreachable(t) \/ Save(t) PROVE Owned'
  <2>1. NothingDropped
    BY <1>2, ArriveTasks, UnreachableTasks, SaveTasks
  <2>2. live' = live /\ Stored' = Stored
    BY <1>2 DEF Arrive, Unreachable, Save, agents, Stored
  <2> QED
    BY <2>1, <2>2 DEF Owned, NothingDropped
<1>3. CASE Evict
  <2>1. Stored' \subseteq Stored /\ live' = live
    BY <1>3, EvictFacts DEF Shrinks, Evict
  <2> QED
    BY <1>3, <2>1, EvictOwners DEF Owned
<1>4. CASE UNCHANGED talkVars
  BY <1>4 DEF talkVars, agents, locals, ghosts, Owned, Stored, TaskOf, Resting, Idle, AtRest
<1> QED
  BY <1>1, <1>2, <1>3, <1>4, NextSteps DEF TimeOut

-----------------------------------------------------------------------------
(* The invariant.                                                          *)

TalkInv == /\ TalkShape
           /\ ~Overlap => Alone /\ TasksOK
           /\ ~Material => \A t \in Turns : Heeded(t)
           /\ ~Overlap /\ ~Material => Patience
           /\ ~Overlap /\ ~Material /\ ~timedOut => Owned

LEMMA TalkInitial ==
  ASSUME Bounds, TalkInit
  PROVE  TalkInv
<1>1. TalkShape
  BY TalkShapeInit
<1>2. /\ store = <<>> /\ Stored = {} /\ closed = {} /\ ran = {} /\ streak = 0 /\ live = Turns
      /\ \A t \in Turns : pc[t] = "idle" /\ asks[t] = 0 /\ runs[t] = 0
      /\ session.waiting = NoTask /\ ~session.clarified
  BY DEF TalkInit, Stored
<1>3. \A t \in Turns : ~Driving(t) /\ ~Begun(t)
  BY <1>2 DEF Driving, AtRest, Begun
<1>4. Alone
  BY <1>2, <1>3 DEF Alone, OneTurn
<1>5. \A o \in Owners : TaskOf(o) = 0
  <2>1. session.waiting.task = 0 /\ \A o \in Owners : o = 0 \/ o \in Turns
    BY <1>2, TurnFacts
  <2> QED
    BY <1>2, <2>1 DEF TaskOf, Holding
<1>6. TasksOK
  <2> SUFFICES ASSUME NEW task \in Turns PROVE TaskOK(task)
    BY DEF TasksOK
  <2>1. task # 0 /\ Retries \in Nat
    BY TurnFacts DEF Bounds
  <2>2. DOMAIN store = {}
    BY <1>2
  <2> QED
    BY <1>2, <1>3, <1>5, <2>1, <2>2 DEF TaskOK
<1>7. \A t \in Turns : Heeded(t)
  BY <1>2 DEF Heeded, Asking
<1>8. Patience
  <2>1. Quota \in Nat /\ GateRounds \in Nat /\ Retries \in Nat
    BY <1>1, QuotaFacts DEF Bounds
  <2>2. \A n \in Nat, s \in Sessions : n = streak /\ s = session => Fits(n, s)
    BY <1>2 DEF Fits
  <2> QED
    BY <1>2, <1>3, <2>1, <2>2 DEF Patience
<1>9. Owned
  BY <1>2 DEF Owned
<1> QED
  BY <1>1, <1>4, <1>6, <1>7, <1>8, <1>9 DEF TalkInv

LEMMA TalkKept ==
  ASSUME TalkInv, [TalkNext]_talkVars
  PROVE  TalkInv'
<1>1. TalkShape'
  BY TalkShapeKept DEF TalkInv
<1>2. ~Overlap => Alone' /\ TasksOK'
  BY TasksKept DEF TalkInv
<1>3. ~Material => \A t \in Turns : Heeded(t)'
  BY HeededKept DEF TalkInv
<1>4. ~Overlap /\ ~Material => Patience'
  BY PatienceKept DEF TalkInv
<1>5. ~Overlap /\ ~Material /\ ~timedOut' => Owned'
  BY OwnedKept, StillInTime DEF TalkInv
<1> QED
  BY <1>1, <1>2, <1>3, <1>4, <1>5 DEF TalkInv

LEMMA TalkInvariance == Bounds /\ TalkSpec => []TalkInv
<1>1. Bounds /\ TalkInit => TalkInv
  BY TalkInitial
<1>2. TalkInv /\ [TalkNext]_talkVars => TalkInv'
  BY TalkKept
<1> QED
  BY <1>1, <1>2, PTL DEF TalkSpec

LEMMA TalkUnwanted ==
  ASSUME TalkInv
  PROVE  NothingUnwanted
BY DEF TalkInv, TalkShape, NothingUnwanted, RefusalRunsNothing, NothingTwice, Heeded, TasksOK, TaskOK

LEMMA TalkType ==
  ASSUME TalkInv
  PROVE  TalkTypeOK
<1>1. TalkShape
  BY DEF TalkInv
<1>2. Entries = [task : Turns, left : 0..Retries]
  BY DEF Entries
<1> QED
  BY <1>1, <1>2 DEF TalkShape, Sessions, Unique, TalkTypeOK

LEMMA TalkWaiting ==
  ASSUME TalkInv
  PROVE  WaitingMatchesStore
<1>1. TalkShape /\ 0 \in Owners /\ \A o \in Owners : o = 0 \/ o \in Turns
  BY TurnFacts DEF TalkInv, TalkShape
<1>2. ASSUME ~Overlap, evictions = 0 PROVE WaitingIsStored
  <2> SUFFICES ASSUME session.waiting # NoTask, \A t \in Turns : Idle(t)
               PROVE  session.waiting.task \in Stored \ closed
    BY DEF WaitingIsStored
  <2> DEFINE task == session.waiting.task
  <2>1. TaskOf(0) = task /\ task \in Turns
    BY <1>1, OwnersTyped DEF TaskOf, Resting
  <2> HIDE DEF task
  <2>2. TaskOK(task)
    BY <1>2, <2>1 DEF TalkInv, TasksOK
  <2>3. task \in Stored /\ task \notin closed
    BY <1>1, <1>2, <2>1, <2>2 DEF TaskOK
  <2> QED
    BY <2>3 DEF task
<1>3. ASSUME ~Overlap, ~Material, ~timedOut PROVE NoOrphanPlan
  <2> SUFFICES ASSUME \A t \in Turns : AtRest(t), NEW task \in Stored
               PROVE  task = session.waiting.task
    BY DEF NoOrphanPlan
  <2>1. PICK o \in Owners : TaskOf(o) = task
    BY <1>3 DEF TalkInv, Owned
  <2>2. task # 0
    BY <1>1, StoredTurns
  <2>3. \A t \in Turns : t # 0 /\ TaskOf(t) = 0
    BY <1>1, TurnFacts DEF TaskOf, AtRest, Holding, TalkShape
  <2>4. o = 0
    BY <1>1, <2>1, <2>2, <2>3
  <2> QED
    BY <2>1, <2>2, <2>4 DEF TaskOf
<1> QED
  BY <1>2, <1>3, TalkType DEF WaitingMatchesStore

LEMMA TalkBounded ==
  ASSUME TalkInv
  PROVE  InterruptionsBounded
<1> SUFFICES ASSUME ~Overlap, ~Material
             PROVE  streak <= 1 + (evictions + 1) * (GateRounds + 1 + Retries)
  BY DEF InterruptionsBounded
<1>1. streak <= Quota + GateRounds + 1 + Retries
  BY DEF TalkInv, Patience
<1>2. Quota + GateRounds + 1 + Retries = 1 + (evictions + 1) * (GateRounds + 1 + Retries)
  BY QuotaFacts DEF TalkInv
<1> QED
  BY <1>1, <1>2

-----------------------------------------------------------------------------
(* The theorems about a conversation.                                      *)

\* What the user calls off does not run, while no question changes the analysis; and for a user
\* who waits for each answer no plan runs twice and no question is put more often than it was
\* granted, late workers included, however many turns, retries, time-outs and evictions.
THEOREM NothingUnwantedEver == Bounds /\ TalkSpec => []NothingUnwanted
<1>1. TalkInv => NothingUnwanted
  BY TalkUnwanted
<1> QED
  BY <1>1, TalkInvariance, PTL

\* What the session of a user who waits for each answer waits for is in the store and its task
\* open, unless other chats pushed it out, also after turns have timed out; and while none
\* does and no question changes the analysis, the store holds nothing else.
THEOREM WaitingStaysResumable == Bounds /\ TalkSpec => []WaitingMatchesStore
<1>1. TalkInv => WaitingMatchesStore
  BY TalkWaiting
<1> QED
  BY <1>1, TalkInvariance, PTL

\* A user who waits for each answer and is asked nothing that changes the analysis is asked
\* at most once by the orchestrator, once per round of the gate, once per plan and once per
\* retry before the row of questions ends; an evicted plan lets the row begin again.
THEOREM QuestionsAreBounded == Bounds /\ TalkSpec => []InterruptionsBounded
<1>1. TalkInv => InterruptionsBounded
  BY TalkBounded
<1> QED
  BY <1>1, TalkInvariance, PTL
=============================================================================
