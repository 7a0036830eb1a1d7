-------------------------- MODULE TurnLedger_proofs --------------------------
(***************************************************************************)
(* TLAPS proofs about TurnLedger: for any agents, skills, callers' tables  *)
(* and limits, the ledger's shape, the truth of what it replays, the       *)
(* agreement of the two places that enforce the limits, and how deep the   *)
(* calls are nested.                                                       *)
(***************************************************************************)
EXTENDS TurnLedger, TLAPS, FiniteSetTheorems, SequenceTheorems

USE DEF vars

-----------------------------------------------------------------------------
(* The inductive invariant.                                                *)

\* A call continues the chain of the call its caller is serving.
ChainsNest ==
  \A n \in DOMAIN handoffs :
    /\ handoffs[n].from \in 0..(n - 1)
    /\ handoffs[n].chain = Append(ChainOf(handoffs[n].from), handoffs[n].pair)

\* Everything in the ledger got past its limits.
ChainsBounded ==
  \A n \in DOMAIN handoffs :
    /\ Len(handoffs[n].chain) \in 1..ChainLimit
    /\ Reentries(handoffs[n].chain, handoffs[n].pair) <= ReentryLimit

\* The memo refers only to completed answers that a caller has read.
SeenIsTrue ==
  \A d \in DOMAIN seen :
    /\ ~handoffs[seen[d]].duplicate
    /\ Digest(handoffs[seen[d]]) = d
    /\ d[1] \in Idempotent
    /\ handoffs[seen[d]].state = "completed"
    /\ work[seen[d]] = "completed"

\* Only a recorded call that was really sent has a task.
WorkIsSent ==
  \A n \in Slots : work[n] # "unsent" =>
    n \in DOMAIN handoffs /\ ~handoffs[n].duplicate

\* A call nobody has answered is not a suppressed one.
OpenIsSent ==
  \A n \in DOMAIN handoffs : handoffs[n].state = "" => ~handoffs[n].duplicate

IInv ==
  /\ TypeOK
  /\ ChainsNest
  /\ ChainsBounded
  /\ SeenIsTrue
  /\ WorkIsSent
  /\ OpenIsSent
  /\ ReplayIsFaithful
  /\ AdmissionAgrees

-----------------------------------------------------------------------------
(* Facts about the operators.                                              *)

\* Putting a pair on a chain adds one to that pair's count: it is why a caller
\* that tests `>=` before the call agrees with a callee that tests `>` after it.
LEMMA ReentriesAppend ==
  ASSUME NEW chain \in Seq(Pairs), NEW pair \in Pairs
  PROVE  /\ Reentries(chain, pair) \in Nat
         /\ Reentries(Append(chain, pair), pair) = Reentries(chain, pair) + 1
<1> DEFINE S == {k \in DOMAIN chain : chain[k] = pair}
           T == {k \in DOMAIN Append(chain, pair) : Append(chain, pair)[k] = pair}
           l == Len(chain) + 1
<1>1. /\ Len(chain) \in Nat
      /\ DOMAIN chain = 1..Len(chain)
      /\ DOMAIN Append(chain, pair) = 1..l
      /\ \A k \in 1..Len(chain) : Append(chain, pair)[k] = chain[k]
      /\ Append(chain, pair)[l] = pair
  BY AppendProperties, LenProperties
<1>2. IsFiniteSet(1..Len(chain))
  BY <1>1, FS_Interval
<1>3. IsFiniteSet(S) /\ Cardinality(S) \in Nat
  BY <1>1, <1>2, FS_Subset, FS_CardinalityType
<1>4. l \notin S /\ T = S \cup {l}
  BY <1>1
<1>5. Cardinality(T) = Cardinality(S) + 1
  BY <1>3, <1>4, FS_AddElement
<1> QED
  BY <1>3, <1>5 DEF Reentries

\* The chain a caller passes on is a chain, and one that the ledger holds.
LEMMA ChainOfType ==
  ASSUME TypeOK, NEW caller \in 0..Len(handoffs)
  PROVE  /\ ChainOf(caller) \in Seq(Pairs)
         /\ caller \in 0..HandoffLimit
<1>1. HandoffLimit \in Nat /\ Len(handoffs) \in Nat /\ Len(handoffs) <= HandoffLimit
  BY GuardrailAssumption DEF TypeOK
<1>2. CASE caller = 0
  BY <1>1, <1>2 DEF ChainOf
<1>3. CASE caller # 0
  <2>1. caller \in DOMAIN handoffs
    BY <1>1, <1>3 DEF TypeOK
  <2>2. handoffs[caller] \in Handoff
    BY <2>1 DEF TypeOK
  <2>3. handoffs[caller].chain \in Seq(Pairs)
    BY <2>2 DEF Handoff
  <2>4. ChainOf(caller) = handoffs[caller].chain
    BY <1>3 DEF ChainOf
  <2> QED
    BY <1>1, <2>3, <2>4
<1> QED
  BY <1>2, <1>3

\* An authorised call, sent or suppressed, adds one record h to the ledger.
\* What is said here of h is all that the invariant needs of it.
Extends(h, caller, pair) ==
  /\ h \in Handoff
  /\ h.from = caller
  /\ h.pair = pair
  /\ h.chain = Append(ChainOf(caller), pair)
  /\ handoffs' = Append(handoffs, h)

\* Adding a record keeps the shape of the ledger, the nesting of the chains and
\* the limits, and leaves the older records where they were.
LEMMA ExtendStep ==
  ASSUME TypeOK, ChainsNest, ChainsBounded,
         NEW caller \in 0..Len(handoffs), NEW pair \in Pairs, NEW h,
         Extends(h, caller, pair), Authorised(ChainOf(caller), pair)
  PROVE  /\ handoffs' \in Seq(Handoff)
         /\ Len(handoffs') \in Nat /\ Len(handoffs') <= HandoffLimit
         /\ Len(handoffs') = Len(handoffs) + 1
         /\ DOMAIN handoffs = 1..Len(handoffs)
         /\ DOMAIN handoffs' = 1..(Len(handoffs) + 1)
         /\ \A n \in DOMAIN handoffs : handoffs'[n] = handoffs[n]
         /\ handoffs'[Len(handoffs) + 1] = h
         /\ ChainsNest'
         /\ ChainsBounded'
<1>1. /\ Len(handoffs) \in Nat /\ HandoffLimit \in Nat /\ ChainLimit \in Nat
      /\ ReentryLimit \in Nat /\ DOMAIN handoffs = 1..Len(handoffs)
  BY GuardrailAssumption, LenProperties DEF TypeOK
<1>2. ChainOf(caller) \in Seq(Pairs)
  BY ChainOfType
<1>3. /\ handoffs' \in Seq(Handoff)
      /\ Len(handoffs') = Len(handoffs) + 1
      /\ DOMAIN handoffs' = 1..(Len(handoffs) + 1)
      /\ \A n \in DOMAIN handoffs : handoffs'[n] = handoffs[n]
      /\ handoffs'[Len(handoffs) + 1] = h
  BY <1>1, AppendProperties DEF TypeOK, Extends
<1>4. Len(handoffs') \in Nat /\ Len(handoffs') <= HandoffLimit
  BY <1>1, <1>3 DEF Authorised
<1>5. ChainOf(caller)' = ChainOf(caller)
  BY <1>1, <1>3 DEF ChainOf
<1>6. ChainsNest'
  <2> SUFFICES ASSUME NEW n \in 1..(Len(handoffs) + 1)
               PROVE  /\ handoffs'[n].from \in 0..(n - 1)
                      /\ handoffs'[n].chain =
                           Append(ChainOf(handoffs[n].from)', handoffs'[n].pair)
    BY <1>3 DEF ChainsNest
  <2>1. CASE n = Len(handoffs) + 1
    BY <2>1, <1>1, <1>3, <1>5 DEF Extends
  <2>2. CASE n \in DOMAIN handoffs
    <3>1. /\ handoffs[n].from \in 0..(n - 1)
          /\ handoffs[n].chain = Append(ChainOf(handoffs[n].from), handoffs[n].pair)
      BY <2>2 DEF ChainsNest
    <3>2. ChainOf(handoffs[n].from)' = ChainOf(handoffs[n].from)
      BY <1>1, <1>3, <2>2, <3>1 DEF ChainOf
    <3> QED
      BY <1>3, <2>2, <3>1, <3>2
  <2> QED
    BY <1>1, <2>1, <2>2
<1>7. ChainsBounded'
  <2> SUFFICES ASSUME NEW n \in 1..(Len(handoffs) + 1)
               PROVE  /\ Len(handoffs'[n].chain) \in 1..ChainLimit
                      /\ Reentries(handoffs'[n].chain, handoffs'[n].pair)
                           <= ReentryLimit
    BY <1>3 DEF ChainsBounded
  <2>1. CASE n = Len(handoffs) + 1
    <3>1. Len(h.chain) = Len(ChainOf(caller)) + 1 /\ Len(ChainOf(caller)) \in Nat
      BY <1>2, AppendProperties, LenProperties DEF Extends
    <3>2. Reentries(h.chain, pair) = Reentries(ChainOf(caller), pair) + 1
          /\ Reentries(ChainOf(caller), pair) \in Nat
      BY <1>2, ReentriesAppend DEF Extends
    <3>3. Len(h.chain) \in 1..ChainLimit /\ Reentries(h.chain, pair) <= ReentryLimit
      BY <1>1, <3>1, <3>2 DEF Authorised
    <3>4. handoffs'[n] = h /\ h.pair = pair
      BY <1>3, <2>1 DEF Extends
    <3> QED
      BY <3>3, <3>4
  <2>2. CASE n \in DOMAIN handoffs
    <3>1. handoffs'[n] = handoffs[n]
      BY <1>3, <2>2
    <3>2. /\ Len(handoffs[n].chain) \in 1..ChainLimit
          /\ Reentries(handoffs[n].chain, handoffs[n].pair) <= ReentryLimit
      BY <2>2 DEF ChainsBounded
    <3> QED
      BY <3>1, <3>2
  <2> QED
    BY <1>1, <2>1, <2>2
<1> QED
  BY <1>1, <1>3, <1>4, <1>6, <1>7

\* Recording an outcome touches only the state and the task of one record.
Settles(n, st, t) ==
  handoffs' = [handoffs EXCEPT ![n].state = st, ![n].task_id = t]

LEMMA SettleStep ==
  ASSUME TypeOK, ChainsNest, ChainsBounded,
         NEW n \in DOMAIN handoffs, NEW st \in Settled, NEW t \in 0..HandoffLimit,
         Settles(n, st, t)
  PROVE  /\ handoffs' \in Seq(Handoff)
         /\ Len(handoffs') = Len(handoffs)
         /\ DOMAIN handoffs' = DOMAIN handoffs
         /\ \A k \in DOMAIN handoffs : k # n => handoffs'[k] = handoffs[k]
         /\ handoffs'[n].state = st /\ handoffs'[n].task_id = t
         /\ \A k \in DOMAIN handoffs :
              /\ handoffs'[k].from = handoffs[k].from
              /\ handoffs'[k].pair = handoffs[k].pair
              /\ handoffs'[k].input = handoffs[k].input
              /\ handoffs'[k].chain = handoffs[k].chain
              /\ handoffs'[k].duplicate = handoffs[k].duplicate
         /\ ChainsNest'
         /\ ChainsBounded'
<1>1. DOMAIN handoffs = 1..Len(handoffs) /\ Len(handoffs) \in Nat
  BY LenProperties DEF TypeOK
<1>2. handoffs[n] \in Handoff
  BY DEF TypeOK
<1> DEFINE h == [handoffs[n] EXCEPT !.state = st, !.task_id = t]
<1>3. handoffs' = [handoffs EXCEPT ![n] = h]
  BY DEF Settles
<1>4. /\ h \in Handoff /\ h.state = st /\ h.task_id = t
      /\ h.from = handoffs[n].from /\ h.pair = handoffs[n].pair
      /\ h.input = handoffs[n].input /\ h.chain = handoffs[n].chain
      /\ h.duplicate = handoffs[n].duplicate
  BY <1>2 DEF Handoff
<1> HIDE DEF h
<1>5. /\ handoffs' \in Seq(Handoff)
      /\ Len(handoffs') = Len(handoffs)
      /\ DOMAIN handoffs' = DOMAIN handoffs
      /\ \A k \in DOMAIN handoffs : k # n => handoffs'[k] = handoffs[k]
      /\ handoffs'[n] = h
  BY <1>1, <1>3, <1>4, ExceptSeq DEF TypeOK
<1>6. \A k \in DOMAIN handoffs :
        /\ handoffs'[k].from = handoffs[k].from
        /\ handoffs'[k].pair = handoffs[k].pair
        /\ handoffs'[k].input = handoffs[k].input
        /\ handoffs'[k].chain = handoffs[k].chain
        /\ handoffs'[k].duplicate = handoffs[k].duplicate
  BY <1>4, <1>5
<1>7. ChainsNest'
  <2> SUFFICES ASSUME NEW k \in DOMAIN handoffs
               PROVE  /\ handoffs'[k].from \in 0..(k - 1)
                      /\ handoffs'[k].chain =
                           Append(ChainOf(handoffs[k].from)', handoffs'[k].pair)
    BY <1>5 DEF ChainsNest
  <2>1. /\ handoffs[k].from \in 0..(k - 1)
        /\ handoffs[k].chain = Append(ChainOf(handoffs[k].from), handoffs[k].pair)
    BY DEF ChainsNest
  <2>2. ChainOf(handoffs[k].from)' = ChainOf(handoffs[k].from)
    BY <1>1, <1>6, <2>1 DEF ChainOf
  <2> QED
    BY <1>6, <2>1, <2>2
<1>8. ChainsBounded'
  BY <1>5, <1>6 DEF ChainsBounded
<1> QED
  BY <1>4, <1>5, <1>6, <1>7, <1>8

-----------------------------------------------------------------------------
(* The invariant holds at first, and every action keeps it.                *)

THEOREM InitIInv == Init => IInv
<1> SUFFICES ASSUME Init PROVE IInv
  OBVIOUS
<1>1. handoffs = <<>> /\ DOMAIN handoffs = {} /\ Len(handoffs) = 0
  BY DEF Init
<1>2. handoffs \in Seq(Handoff) /\ 0 <= HandoffLimit
  BY <1>1, GuardrailAssumption
<1>3. DOMAIN seen = {}
  BY DEF Init
<1>4. work \in [Slots -> {"unsent", "sent", "running"} \cup Settled]
      /\ \A n \in Slots : work[n] = "unsent"
  BY DEF Init
<1>5. TypeOK
  BY <1>1, <1>2, <1>3, <1>4 DEF TypeOK
<1> QED
  BY <1>1, <1>3, <1>4, <1>5
     DEF IInv, ChainsNest, ChainsBounded, SeenIsTrue, WorkIsSent, OpenIsSent,
         ReplayIsFaithful, AdmissionAgrees

\* What sending and suppressing a call have in common: the older records, the
\* memo and the older tasks are as they were, so what was true of them is true.
LEMMA ExtendKeeps ==
  ASSUME IInv, NEW caller \in 0..Len(handoffs), NEW pair \in Pairs, NEW h,
         Extends(h, caller, pair), Authorised(ChainOf(caller), pair),
         seen' = seen,
         \A n \in Slots : n # Len(handoffs) + 1 => work'[n] = work[n],
         work'[Len(handoffs) + 1] # "rejected"
  PROVE  /\ SeenIsTrue'
         /\ AdmissionAgrees'
         /\ \A n \in DOMAIN handoffs : handoffs'[n].duplicate =>
              LET m == handoffs'[n].task_id IN
              /\ m \in 1..(n - 1)
              /\ ~handoffs'[m].duplicate
              /\ Digest(handoffs'[m]) = Digest(handoffs'[n])
              /\ handoffs'[m].pair \in Idempotent
              /\ handoffs'[m].state = "completed"
              /\ work'[m] = "completed"
<1>1. /\ Len(handoffs) \in Nat /\ HandoffLimit \in Nat
      /\ DOMAIN handoffs = 1..Len(handoffs)
      /\ Len(handoffs) <= HandoffLimit
      /\ DOMAIN handoffs \subseteq Slots
  BY GuardrailAssumption, LenProperties DEF IInv, TypeOK, Slots
<1>2. \A n \in DOMAIN handoffs : handoffs'[n] = handoffs[n]
  BY ExtendStep DEF IInv
<1>3. \A n \in DOMAIN handoffs : work'[n] = work[n]
  BY <1>1
<1>4. SeenIsTrue'
  BY <1>2, <1>3 DEF IInv, TypeOK, SeenIsTrue, Digest
<1>5. AdmissionAgrees'
  <2> SUFFICES ASSUME NEW n \in Slots, work'[n] = "rejected"
               PROVE  Requester(handoffs[n].from)' \notin Callers[handoffs'[n].pair]
    BY DEF AdmissionAgrees
  <2>1. work[n] = "rejected"
    OBVIOUS
  <2>2. n \in DOMAIN handoffs /\ handoffs'[n] = handoffs[n]
    BY <1>2, <2>1 DEF IInv, WorkIsSent
  <2>3. Requester(handoffs[n].from)' = Requester(handoffs[n].from)
    BY <1>1, <1>2, <2>2 DEF IInv, ChainsNest, Requester
  <2> QED
    BY <2>1, <2>2, <2>3 DEF IInv, AdmissionAgrees
<1>6. ASSUME NEW n \in DOMAIN handoffs, handoffs'[n].duplicate,
             NEW m, m = handoffs'[n].task_id
      PROVE  /\ m \in 1..(n - 1)
             /\ ~handoffs'[m].duplicate
             /\ Digest(handoffs'[m]) = Digest(handoffs'[n])
             /\ handoffs'[m].pair \in Idempotent
             /\ handoffs'[m].state = "completed"
             /\ work'[m] = "completed"
  <2>1. handoffs'[n] = handoffs[n]
    BY <1>2
  <2>2. /\ m \in 1..(n - 1)
        /\ ~handoffs[m].duplicate
        /\ Digest(handoffs[m]) = Digest(handoffs[n])
        /\ handoffs[m].pair \in Idempotent
        /\ handoffs[m].state = "completed"
        /\ work[m] = "completed"
    BY <1>6, <2>1 DEF IInv, ReplayIsFaithful
  <2>3. m \in DOMAIN handoffs
    BY <1>1, <2>2
  <2> QED
    BY <1>2, <1>3, <2>1, <2>2, <2>3 DEF Digest
<1> QED
  BY <1>4, <1>5, <1>6

\* A repeat that is answered from the memo.
LEMMA SuppressIInv ==
  ASSUME IInv, NEW caller \in 0..Len(handoffs), NEW pair \in Pairs,
         NEW input \in Inputs, Suppress(caller, pair, input)
  PROVE  IInv'
<1> DEFINE m == seen[<<pair, input>>]
           h == Entry(caller, pair, input, TRUE, "completed", m)
           last == Len(handoffs) + 1
<1>1. /\ handoffs' = Append(handoffs, h) /\ seen' = seen /\ work' = work
      /\ Authorised(ChainOf(caller), pair)
      /\ pair \in Idempotent /\ <<pair, input>> \in DOMAIN seen
  BY DEF Suppress, Repeats
<1>2. /\ m \in DOMAIN handoffs
      /\ ~handoffs[m].duplicate
      /\ Digest(handoffs[m]) = <<pair, input>>
      /\ handoffs[m].state = "completed"
      /\ work[m] = "completed"
  BY <1>1 DEF IInv, TypeOK, SeenIsTrue
<1>3. /\ Len(handoffs) \in Nat /\ HandoffLimit \in Nat
      /\ DOMAIN handoffs = 1..Len(handoffs)
      /\ Len(handoffs) <= HandoffLimit
      /\ 1..last = DOMAIN handoffs \cup {last}
  BY GuardrailAssumption, LenProperties DEF IInv, TypeOK
<1>4. "completed" \in Settled \cup {""} /\ m \in 0..HandoffLimit
  BY <1>2, <1>3 DEF Settled, Outcomes
<1> HIDE DEF m, h
<1>5. /\ Extends(h, caller, pair)
      /\ h.duplicate = TRUE /\ h.state = "completed" /\ h.task_id = m
      /\ Digest(h) = <<pair, input>> /\ h.pair = pair
  <2>1. ChainOf(caller) \in Seq(Pairs) /\ caller \in 0..HandoffLimit
    BY ChainOfType DEF IInv
  <2>2. Append(ChainOf(caller), pair) \in Seq(Pairs)
    BY <2>1, AppendProperties
  <2> QED
    BY <1>1, <1>4, <2>1, <2>2 DEF h, Entry, Handoff, Digest, Extends
<1>6. /\ handoffs' \in Seq(Handoff)
      /\ Len(handoffs') <= HandoffLimit
      /\ DOMAIN handoffs' = 1..last
      /\ \A n \in DOMAIN handoffs : handoffs'[n] = handoffs[n]
      /\ handoffs'[last] = h
      /\ ChainsNest'
      /\ ChainsBounded'
  BY <1>1, <1>5, ExtendStep DEF IInv
<1>7. work'[last] # "rejected"
  <2>1. CASE last \in Slots
    BY <1>1, <1>3, <2>1 DEF IInv, WorkIsSent
  <2>2. last \in Slots
    BY <1>1, <1>3 DEF Authorised, Slots
  <2> QED
    BY <2>1, <2>2
<1>8. TypeOK'
  BY <1>1, <1>3, <1>6 DEF IInv, TypeOK
<1>9. WorkIsSent'
  BY <1>1, <1>3, <1>6 DEF IInv, WorkIsSent
<1>10. OpenIsSent'
  <2> SUFFICES ASSUME NEW n \in 1..last, handoffs'[n].state = ""
               PROVE  ~handoffs'[n].duplicate
    BY <1>6 DEF OpenIsSent
  <2>1. CASE n = last
    BY <1>5, <1>6, <2>1
  <2>2. CASE n \in DOMAIN handoffs
    BY <1>6, <2>2 DEF IInv, OpenIsSent
  <2> QED
    BY <1>3, <2>1, <2>2
<1>11. /\ SeenIsTrue'
       /\ AdmissionAgrees'
       /\ \A n \in DOMAIN handoffs : handoffs'[n].duplicate =>
            LET t == handoffs'[n].task_id IN
            /\ t \in 1..(n - 1)
            /\ ~handoffs'[t].duplicate
            /\ Digest(handoffs'[t]) = Digest(handoffs'[n])
            /\ handoffs'[t].pair \in Idempotent
            /\ handoffs'[t].state = "completed"
            /\ work'[t] = "completed"
  BY <1>1, <1>5, <1>7, ExtendKeeps
<1>12. ReplayIsFaithful'
  <2>1. /\ m \in 1..(last - 1)
        /\ ~handoffs'[m].duplicate
        /\ Digest(handoffs'[m]) = Digest(handoffs'[last])
        /\ handoffs'[m].pair \in Idempotent
        /\ handoffs'[m].state = "completed"
        /\ work'[m] = "completed"
        /\ handoffs'[last].task_id = m
    BY <1>1, <1>2, <1>3, <1>5, <1>6 DEF Digest
  <2> QED
    BY <1>3, <1>6, <1>11, <2>1 DEF ReplayIsFaithful, Digest
<1> QED
  BY <1>6, <1>8, <1>9, <1>10, <1>11, <1>12 DEF IInv

\* A call that goes out to its callee.
LEMMA SendIInv ==
  ASSUME IInv, NEW caller \in 0..Len(handoffs), NEW pair \in Pairs,
         NEW input \in Inputs, Send(caller, pair, input)
  PROVE  IInv'
<1> DEFINE h == Entry(caller, pair, input, FALSE, "", 0)
           last == Len(handoffs) + 1
<1>1. /\ handoffs' = Append(handoffs, h) /\ seen' = seen
      /\ work' = [work EXCEPT ![last] = "sent"]
      /\ Authorised(ChainOf(caller), pair)
  BY DEF Send
<1> HIDE DEF h
<1>2. /\ Len(handoffs) \in Nat /\ HandoffLimit \in Nat
      /\ DOMAIN handoffs = 1..Len(handoffs)
      /\ Len(handoffs) <= HandoffLimit
      /\ 1..last = DOMAIN handoffs \cup {last}
      /\ last \in Slots
  <2>1. /\ Len(handoffs) \in Nat /\ HandoffLimit \in Nat
        /\ DOMAIN handoffs = 1..Len(handoffs)
        /\ Len(handoffs) <= HandoffLimit
    BY GuardrailAssumption, LenProperties DEF IInv, TypeOK
  <2>2. ~(Len(handoffs) >= HandoffLimit)
    BY <1>1 DEF Authorised
  <2> QED
    BY <2>1, <2>2 DEF Slots
<1>3. "" \in Settled \cup {""} /\ 0 \in 0..HandoffLimit
  BY <1>2
<1>4. Extends(h, caller, pair) /\ h.duplicate = FALSE
  <2>1. ChainOf(caller) \in Seq(Pairs) /\ caller \in 0..HandoffLimit
    BY ChainOfType DEF IInv
  <2>2. Append(ChainOf(caller), pair) \in Seq(Pairs)
    BY <2>1, AppendProperties
  <2> QED
    BY <1>1, <1>3, <2>1, <2>2 DEF h, Entry, Handoff, Extends
<1>5. /\ handoffs' \in Seq(Handoff)
      /\ Len(handoffs') <= HandoffLimit
      /\ DOMAIN handoffs' = 1..last
      /\ \A n \in DOMAIN handoffs : handoffs'[n] = handoffs[n]
      /\ handoffs'[last] = h
      /\ ChainsNest'
      /\ ChainsBounded'
  BY <1>1, <1>4, ExtendStep DEF IInv
<1>6. /\ work' \in [Slots -> {"unsent", "sent", "running"} \cup Settled]
      /\ work'[last] = "sent"
      /\ \A n \in Slots : n # last => work'[n] = work[n]
  BY <1>1, <1>2 DEF IInv, TypeOK
<1>7. TypeOK'
  BY <1>1, <1>2, <1>5, <1>6 DEF IInv, TypeOK
<1>8. WorkIsSent'
  BY <1>2, <1>4, <1>5, <1>6 DEF IInv, WorkIsSent
<1>9. OpenIsSent'
  BY <1>2, <1>4, <1>5 DEF IInv, OpenIsSent
<1>10. /\ SeenIsTrue'
       /\ AdmissionAgrees'
       /\ \A n \in DOMAIN handoffs : handoffs'[n].duplicate =>
            LET t == handoffs'[n].task_id IN
            /\ t \in 1..(n - 1)
            /\ ~handoffs'[t].duplicate
            /\ Digest(handoffs'[t]) = Digest(handoffs'[n])
            /\ handoffs'[t].pair \in Idempotent
            /\ handoffs'[t].state = "completed"
            /\ work'[t] = "completed"
  BY <1>1, <1>4, <1>6, ExtendKeeps
<1>11. ReplayIsFaithful'
  <2>1. handoffs'[last].duplicate = FALSE
    BY <1>4, <1>5
  <2> QED
    BY <1>2, <1>5, <1>10, <2>1 DEF ReplayIsFaithful, Digest
<1> QED
  BY <1>5, <1>7, <1>8, <1>9, <1>10, <1>11 DEF IInv

\* A recorded state never changes, nor does what a call was ...
KeepsCalls ==
  \A k \in DOMAIN handoffs :
    /\ handoffs'[k].from = handoffs[k].from
    /\ handoffs'[k].pair = handoffs[k].pair
    /\ handoffs'[k].input = handoffs[k].input
    /\ handoffs'[k].duplicate = handoffs[k].duplicate
    /\ handoffs[k].state # "" => handoffs'[k] = handoffs[k]

\* ... and a finished task stays as it finished.
KeepsWork == \A k \in Slots : work[k] \in Settled => work'[k] = work[k]

\* What the steps that settle a record and the steps of a task have in common.
LEMMA SettleKeeps ==
  ASSUME IInv, DOMAIN handoffs' = DOMAIN handoffs,
         KeepsCalls, KeepsWork
  PROVE  /\ ReplayIsFaithful'
         /\ \A d \in DOMAIN seen :
              /\ ~handoffs'[seen[d]].duplicate
              /\ Digest(handoffs'[seen[d]]) = d
              /\ d[1] \in Idempotent
              /\ handoffs'[seen[d]].state = "completed"
              /\ work'[seen[d]] = "completed"
         /\ \A k \in DOMAIN handoffs :
              Requester(handoffs[k].from)' = Requester(handoffs[k].from)
<1>1. /\ Len(handoffs) \in Nat /\ HandoffLimit \in Nat
      /\ DOMAIN handoffs = 1..Len(handoffs)
      /\ DOMAIN handoffs \subseteq Slots
  BY GuardrailAssumption, LenProperties DEF IInv, TypeOK, Slots
<1>2. "completed" \in Settled
  BY DEF Settled, Outcomes
<1>3. ReplayIsFaithful'
  <2> SUFFICES ASSUME NEW n \in DOMAIN handoffs, handoffs'[n].duplicate,
                      NEW m, m = handoffs'[n].task_id
               PROVE  /\ m \in 1..(n - 1)
                      /\ ~handoffs'[m].duplicate
                      /\ Digest(handoffs'[m]) = Digest(handoffs'[n])
                      /\ handoffs'[m].pair \in Idempotent
                      /\ handoffs'[m].state = "completed"
                      /\ work'[m] = "completed"
    BY DEF ReplayIsFaithful, Digest
  <2>1. handoffs[n].duplicate
    BY DEF KeepsCalls
  <2>2. handoffs'[n] = handoffs[n]
    BY <2>1 DEF IInv, OpenIsSent, KeepsCalls
  <2>3. /\ m \in 1..(n - 1)
        /\ ~handoffs[m].duplicate
        /\ Digest(handoffs[m]) = Digest(handoffs[n])
        /\ handoffs[m].pair \in Idempotent
        /\ handoffs[m].state = "completed"
        /\ work[m] = "completed"
    BY <2>1, <2>2 DEF IInv, ReplayIsFaithful
  <2>4. m \in DOMAIN handoffs
    BY <1>1, <2>3
  <2>5. handoffs'[m] = handoffs[m] /\ work'[m] = work[m]
    BY <1>1, <1>2, <2>3, <2>4 DEF KeepsCalls, KeepsWork
  <2> QED
    BY <2>2, <2>3, <2>5 DEF Digest
<1>4. ASSUME NEW d \in DOMAIN seen
      PROVE  /\ ~handoffs'[seen[d]].duplicate
             /\ Digest(handoffs'[seen[d]]) = d
             /\ d[1] \in Idempotent
             /\ handoffs'[seen[d]].state = "completed"
             /\ work'[seen[d]] = "completed"
  <2>1. /\ seen[d] \in DOMAIN handoffs
        /\ ~handoffs[seen[d]].duplicate
        /\ Digest(handoffs[seen[d]]) = d
        /\ d[1] \in Idempotent
        /\ handoffs[seen[d]].state = "completed"
        /\ work[seen[d]] = "completed"
    BY DEF IInv, TypeOK, SeenIsTrue
  <2>2. handoffs'[seen[d]] = handoffs[seen[d]] /\ work'[seen[d]] = work[seen[d]]
    BY <1>1, <1>2, <2>1 DEF KeepsCalls, KeepsWork
  <2> QED
    BY <2>1, <2>2 DEF Digest
<1>5. ASSUME NEW k \in DOMAIN handoffs
      PROVE  Requester(handoffs[k].from)' = Requester(handoffs[k].from)
  <2>1. handoffs[k].from = 0 \/ handoffs[k].from \in DOMAIN handoffs
    BY <1>1 DEF IInv, ChainsNest
  <2>2. PICK f : f = handoffs[k].from
    OBVIOUS
  <2>3. handoffs'[k].from = f
    BY <2>2 DEF KeepsCalls
  <2>4. CASE f = 0
    BY ONLY <2>2, <2>3, <2>4 DEF Requester
  <2>5. CASE f \in DOMAIN handoffs
    <3>1. handoffs'[f].pair = handoffs[f].pair
      BY <2>5 DEF KeepsCalls
    <3> QED
      BY ONLY <2>2, <2>3, <3>1 DEF Requester
  <2> QED
    BY <2>1, <2>2, <2>4, <2>5
<1> QED
  BY <1>3, <1>4, <1>5

\* The ledger records an answer, and perhaps remembers it.
LEMMA RecordIInv ==
  ASSUME IInv, NEW n \in Slots, Record(n)
  PROVE  IInv'
<1> DEFINE d == Digest(handoffs[n])
           remembers == /\ handoffs[n].pair \in Idempotent
                        /\ work[n] = "completed"
                        /\ d \notin DOMAIN seen
<1>1. /\ n \in DOMAIN handoffs /\ handoffs[n].state = "" /\ work[n] \in Settled
      /\ Settles(n, work[n], n) /\ work' = work
      /\ ~remembers => seen' = seen
      /\ remembers => seen' = [e \in DOMAIN seen \cup {d} |->
                                 IF e \in DOMAIN seen THEN seen[e] ELSE n]
  BY DEF Record, Settles
<1>2. /\ Len(handoffs) \in Nat /\ HandoffLimit \in Nat
      /\ DOMAIN handoffs = 1..Len(handoffs)
      /\ n \in 0..HandoffLimit
  BY GuardrailAssumption, LenProperties DEF IInv, TypeOK, Slots
<1>3. /\ handoffs' \in Seq(Handoff)
      /\ Len(handoffs') = Len(handoffs)
      /\ DOMAIN handoffs' = DOMAIN handoffs
      /\ \A k \in DOMAIN handoffs : k # n => handoffs'[k] = handoffs[k]
      /\ handoffs'[n].state = work[n] /\ handoffs'[n].task_id = n
      /\ \A k \in DOMAIN handoffs :
           /\ handoffs'[k].from = handoffs[k].from
           /\ handoffs'[k].pair = handoffs[k].pair
           /\ handoffs'[k].input = handoffs[k].input
           /\ handoffs'[k].chain = handoffs[k].chain
           /\ handoffs'[k].duplicate = handoffs[k].duplicate
      /\ ChainsNest'
      /\ ChainsBounded'
  BY <1>1, <1>2, SettleStep DEF IInv
<1>4. KeepsCalls /\ KeepsWork
  BY <1>1, <1>3 DEF KeepsCalls, KeepsWork
<1>5. /\ ReplayIsFaithful'
      /\ \A e \in DOMAIN seen :
           /\ ~handoffs'[seen[e]].duplicate
           /\ Digest(handoffs'[seen[e]]) = e
           /\ e[1] \in Idempotent
           /\ handoffs'[seen[e]].state = "completed"
           /\ work'[seen[e]] = "completed"
      /\ \A k \in DOMAIN handoffs :
           Requester(handoffs[k].from)' = Requester(handoffs[k].from)
  BY <1>1, <1>3, <1>4, SettleKeeps
<1>6. /\ ~handoffs[n].duplicate
      /\ d \in Digests
      /\ d[1] = handoffs[n].pair
      /\ Digest(handoffs'[n]) = d
  <2>1. handoffs[n] \in Handoff
    <3>1. n \in DOMAIN handoffs /\ handoffs \in Seq(Handoff)
      BY <1>1 DEF IInv, TypeOK
    <3> QED
      BY <3>1
  <2> QED
    BY <1>1, <1>3, <2>1 DEF IInv, OpenIsSent, Handoff, Digests, Digest
<1> HIDE DEF d
<1>7. TypeOK'
  <2>1. /\ DOMAIN seen \subseteq Digests
        /\ \A e \in DOMAIN seen : seen[e] \in DOMAIN handoffs
    BY DEF IInv, TypeOK
  <2>2. ASSUME ~remembers
        PROVE  /\ DOMAIN seen' \subseteq Digests
               /\ \A e \in DOMAIN seen' : seen'[e] \in DOMAIN handoffs
    BY <1>1, <2>1, <2>2
  <2>3. ASSUME remembers
        PROVE  /\ DOMAIN seen' \subseteq Digests
               /\ \A e \in DOMAIN seen' : seen'[e] \in DOMAIN handoffs
    <3>1. seen' = [e \in DOMAIN seen \cup {d} |->
                    IF e \in DOMAIN seen THEN seen[e] ELSE n]
      BY <1>1, <2>3
    <3>2. DOMAIN seen' = DOMAIN seen \cup {d}
      BY <3>1
    <3>3. \A e \in DOMAIN seen' : seen'[e] = IF e \in DOMAIN seen THEN seen[e] ELSE n
      BY <3>1
    <3>4. DOMAIN seen' \subseteq Digests
      BY <1>6, <2>1, <3>2
    <3>5. n \in DOMAIN handoffs
      BY <1>1
    <3> QED
      BY <2>1, <3>2, <3>3, <3>4, <3>5
  <2>4. DOMAIN seen' \subseteq Digests
        /\ \A e \in DOMAIN seen' : seen'[e] \in DOMAIN handoffs
    BY <2>2, <2>3
  <2> QED
    BY <1>1, <1>3, <2>4 DEF IInv, TypeOK
<1>8. SeenIsTrue'
  <2>1. CASE ~remembers
    BY <1>1, <1>5, <2>1 DEF SeenIsTrue, Digest
  <2>2. CASE remembers
    <3> SUFFICES ASSUME NEW e \in DOMAIN seen'
                 PROVE  /\ ~handoffs'[seen'[e]].duplicate
                        /\ Digest(handoffs'[seen'[e]]) = e
                        /\ e[1] \in Idempotent
                        /\ handoffs'[seen'[e]].state = "completed"
                        /\ work'[seen'[e]] = "completed"
      BY DEF SeenIsTrue, Digest
    <3>1. CASE e \in DOMAIN seen
      <4>1. seen'[e] = seen[e]
        BY <1>1, <2>2, <3>1
      <4> QED
        BY <1>5, <3>1, <4>1 DEF Digest
    <3>2. CASE e \notin DOMAIN seen
      <4>1. seen'[e] = n /\ e = d
        <5>1. seen' = [x \in DOMAIN seen \cup {d} |->
                        IF x \in DOMAIN seen THEN seen[x] ELSE n]
          BY <1>1, <2>2
        <5> QED
          BY <3>2, <5>1
      <4>2. ~handoffs'[n].duplicate
        BY <1>1, <1>3, <1>6
      <4> QED
        BY <1>1, <1>3, <1>6, <2>2, <4>1, <4>2 DEF Digest
    <3> QED
      BY <3>1, <3>2
  <2> QED
    BY <2>1, <2>2
<1>9. WorkIsSent'
  BY <1>1, <1>3 DEF IInv, WorkIsSent
<1>10. OpenIsSent'
  BY <1>1, <1>3 DEF IInv, OpenIsSent
<1>11. AdmissionAgrees'
  BY <1>1, <1>3, <1>5 DEF IInv, AdmissionAgrees, WorkIsSent
<1> QED
  BY <1>3, <1>5, <1>7, <1>8, <1>9, <1>10, <1>11 DEF IInv

\* A caller gives up.
LEMMA AbandonIInv ==
  ASSUME IInv, NEW n \in Slots, Abandon(n)
  PROVE  IInv'
<1>1. /\ n \in DOMAIN handoffs /\ handoffs[n].state = ""
      /\ handoffs' = [handoffs EXCEPT ![n].state = "failed"]
      /\ seen' = seen /\ work' = work
  BY DEF Abandon
<1>2. /\ Len(handoffs) \in Nat /\ HandoffLimit \in Nat
      /\ DOMAIN handoffs = 1..Len(handoffs)
      /\ handoffs[n] \in Handoff /\ "failed" \in Settled
  <2>1. n \in DOMAIN handoffs /\ handoffs \in Seq(Handoff)
    BY <1>1 DEF IInv, TypeOK
  <2> QED
    BY <2>1, GuardrailAssumption, LenProperties DEF Settled, Outcomes
<1>3. Settles(n, "failed", handoffs[n].task_id) /\ handoffs[n].task_id \in 0..HandoffLimit
  BY <1>1, <1>2 DEF Settles, Handoff
<1>4. /\ handoffs' \in Seq(Handoff)
      /\ Len(handoffs') = Len(handoffs)
      /\ DOMAIN handoffs' = DOMAIN handoffs
      /\ \A k \in DOMAIN handoffs : k # n => handoffs'[k] = handoffs[k]
      /\ handoffs'[n].state = "failed"
      /\ \A k \in DOMAIN handoffs :
           /\ handoffs'[k].from = handoffs[k].from
           /\ handoffs'[k].pair = handoffs[k].pair
           /\ handoffs'[k].input = handoffs[k].input
           /\ handoffs'[k].chain = handoffs[k].chain
           /\ handoffs'[k].duplicate = handoffs[k].duplicate
      /\ ChainsNest'
      /\ ChainsBounded'
  BY <1>1, <1>2, <1>3, SettleStep DEF IInv
<1>5. KeepsCalls /\ KeepsWork
  BY <1>1, <1>4 DEF KeepsCalls, KeepsWork
<1>6. /\ ReplayIsFaithful'
      /\ \A e \in DOMAIN seen :
           /\ ~handoffs'[seen[e]].duplicate
           /\ Digest(handoffs'[seen[e]]) = e
           /\ e[1] \in Idempotent
           /\ handoffs'[seen[e]].state = "completed"
           /\ work'[seen[e]] = "completed"
      /\ \A k \in DOMAIN handoffs :
           Requester(handoffs[k].from)' = Requester(handoffs[k].from)
  BY <1>4, <1>5, SettleKeeps
<1>7. TypeOK' /\ SeenIsTrue'
  BY <1>1, <1>4, <1>6 DEF IInv, TypeOK, SeenIsTrue, Digest
<1>8. WorkIsSent' /\ OpenIsSent'
  BY <1>1, <1>4 DEF IInv, WorkIsSent, OpenIsSent
<1>9. AdmissionAgrees'
  <2> SUFFICES ASSUME NEW k \in Slots, work[k] = "rejected"
               PROVE  Requester(handoffs[k].from)' \notin Callers[handoffs'[k].pair]
    BY <1>1, <1>4 DEF AdmissionAgrees, Requester
  <2>1. k \in DOMAIN handoffs
    BY DEF IInv, WorkIsSent
  <2>2. Requester(handoffs[k].from) \notin Callers[handoffs[k].pair]
    BY DEF IInv, AdmissionAgrees
  <2>3. Requester(handoffs[k].from)' = Requester(handoffs[k].from)
        /\ handoffs'[k].pair = handoffs[k].pair
    BY <1>4, <1>6, <2>1
  <2> QED
    BY <2>2, <2>3
<1> QED
  BY <1>4, <1>6, <1>7, <1>8, <1>9 DEF IInv

\* A task moves on, and the ledger does not.
LEMMA TaskStep ==
  ASSUME IInv, UNCHANGED <<handoffs, seen>>, NEW n \in Slots,
         n \in DOMAIN handoffs, work[n] \notin Settled \cup {"unsent"},
         NEW w \in {"running"} \cup Settled,
         work' = [work EXCEPT ![n] = w],
         w = "rejected" =>
           Requester(handoffs[n].from) \notin Callers[handoffs[n].pair]
  PROVE  IInv'
<1>1. /\ work' \in [Slots -> {"unsent", "sent", "running"} \cup Settled]
      /\ work'[n] = w
      /\ \A k \in Slots : k # n => work'[k] = work[k]
  BY DEF IInv, TypeOK
<1>2. KeepsCalls /\ KeepsWork
  BY <1>1 DEF KeepsCalls, KeepsWork
<1>3. /\ ReplayIsFaithful'
      /\ \A e \in DOMAIN seen :
           /\ ~handoffs'[seen[e]].duplicate
           /\ Digest(handoffs'[seen[e]]) = e
           /\ e[1] \in Idempotent
           /\ handoffs'[seen[e]].state = "completed"
           /\ work'[seen[e]] = "completed"
  BY <1>2, SettleKeeps
<1>4. TypeOK' /\ SeenIsTrue'
  BY <1>1, <1>3 DEF IInv, TypeOK, SeenIsTrue, Digest
<1>5. ChainsNest' /\ ChainsBounded' /\ OpenIsSent'
  BY DEF IInv, ChainsNest, ChainsBounded, OpenIsSent, ChainOf, Reentries
<1>6. WorkIsSent'
  BY <1>1 DEF IInv, WorkIsSent
<1>7. AdmissionAgrees'
  BY <1>1 DEF IInv, AdmissionAgrees, Requester
<1> QED
  BY <1>3, <1>4, <1>5, <1>6, <1>7 DEF IInv

\* The executor admits or rejects.  It can reject only for the caller's name:
\* the ledger has already bounded the chain.
LEMMA AdmitIInv ==
  ASSUME IInv, NEW n \in Slots, Admit(n)
  PROVE  IInv'
<1> DEFINE w == IF Admissible(n) THEN "running" ELSE "rejected"
<1>1. /\ n \in DOMAIN handoffs /\ work[n] = "sent"
      /\ work' = [work EXCEPT ![n] = w] /\ UNCHANGED <<handoffs, seen>>
  BY DEF Admit
<1>2. w \in {"running"} \cup Settled /\ "sent" \notin Settled \cup {"unsent"}
  BY DEF Settled, Outcomes
<1>3. ASSUME w = "rejected"
      PROVE  Requester(handoffs[n].from) \notin Callers[handoffs[n].pair]
  <2>1. /\ Len(handoffs[n].chain) \in 1..ChainLimit
        /\ Reentries(handoffs[n].chain, handoffs[n].pair) <= ReentryLimit
    BY <1>1 DEF IInv, ChainsBounded
  <2>2. /\ Reentries(handoffs[n].chain, handoffs[n].pair) \in Nat
        /\ ChainLimit \in Nat /\ ReentryLimit \in Nat
    <3>1. handoffs[n] \in Handoff
      <4>1. n \in DOMAIN handoffs /\ handoffs \in Seq(Handoff)
        BY <1>1 DEF IInv, TypeOK
      <4> QED
        BY <4>1
    <3>2. handoffs[n].chain \in Seq(Pairs) /\ handoffs[n].pair \in Pairs
      BY <3>1 DEF Handoff
    <3> QED
      BY <3>2, ReentriesAppend, GuardrailAssumption
  <2>3. ~Admissible(n)
    BY <1>3
  <2> QED
    BY <2>1, <2>2, <2>3 DEF Admissible
<1> HIDE DEF w
<1> QED
  BY <1>1, <1>2, <1>3, TaskStep

\* A handler returns.
LEMMA FinishIInv ==
  ASSUME IInv, NEW n \in Slots, NEW outcome \in Outcomes, Finish(n, outcome)
  PROVE  IInv'
<1>1. /\ n \in DOMAIN handoffs /\ work[n] = "running"
      /\ work' = [work EXCEPT ![n] = outcome] /\ UNCHANGED <<handoffs, seen>>
  BY DEF Finish
<1>2. /\ outcome \in {"running"} \cup Settled /\ outcome # "rejected"
      /\ "running" \notin Settled \cup {"unsent"}
  BY DEF Settled, Outcomes
<1> QED
  BY <1>1, <1>2, TaskStep

THEOREM NextIInv == IInv /\ [Next]_vars => IInv'
<1> SUFFICES ASSUME IInv, [Next]_vars PROVE IInv'
  OBVIOUS
<1>1. ASSUME NEW caller \in 0..Len(handoffs), NEW pair \in Pairs,
             NEW input \in Inputs, Suppress(caller, pair, input)
      PROVE  IInv'
  BY <1>1, SuppressIInv
<1>2. ASSUME NEW caller \in 0..Len(handoffs), NEW pair \in Pairs,
             NEW input \in Inputs, Send(caller, pair, input)
      PROVE  IInv'
  BY <1>2, SendIInv
<1>3. ASSUME NEW n \in Slots, Record(n) PROVE IInv'
  BY <1>3, RecordIInv
<1>4. ASSUME NEW n \in Slots, Abandon(n) PROVE IInv'
  BY <1>4, AbandonIInv
<1>5. ASSUME NEW n \in Slots, Admit(n) PROVE IInv'
  BY <1>5, AdmitIInv
<1>6. ASSUME NEW n \in Slots, NEW outcome \in Outcomes, Finish(n, outcome)
      PROVE  IInv'
  BY <1>6, FinishIInv
<1>7. ASSUME UNCHANGED vars PROVE IInv'
  BY <1>7 DEF IInv, TypeOK, ChainsNest, ChainsBounded, SeenIsTrue, WorkIsSent,
              OpenIsSent, ReplayIsFaithful, AdmissionAgrees, ChainOf, Requester,
              Digest, Reentries
<1> QED
  BY <1>1, <1>2, <1>3, <1>4, <1>5, <1>6, <1>7 DEF Next

-----------------------------------------------------------------------------
(* The theorems.                                                           *)

\* The inductive invariant holds in every state of the specification.
THEOREM Invariance == Spec => []IInv
BY InitIInv, NextIInv, PTL DEF Spec

\* Every ledger, memo and task table the code can build is well formed, and no
\* turn ever holds more than its budget of calls.
THEOREM TypeCorrect == Spec => []TypeOK
<1>1. IInv => TypeOK
  BY DEF IInv
<1> QED
  BY <1>1, Invariance, PTL

\* Duplicate suppression never invents, ages or misattributes an answer.
THEOREM ReplayCorrect == Spec => []ReplayIsFaithful
<1>1. IInv => ReplayIsFaithful
  BY DEF IInv
<1> QED
  BY <1>1, Invariance, PTL

\* For all limits, the caller's test and the callee's test are one bound.
THEOREM AdmissionCorrect == Spec => []AdmissionAgrees
<1>1. IInv => AdmissionAgrees
  BY DEF IInv
<1> QED
  BY <1>1, Invariance, PTL

\* What appending does, whatever is appended.
LEMMA AppendAnything ==
  ASSUME NEW S, NEW s \in Seq(S), NEW e
  PROVE  /\ DOMAIN Append(s, e) = 1..(Len(s) + 1)
         /\ \A k \in 1..Len(s) : Append(s, e)[k] = s[k]
         /\ Append(s, e)[Len(s) + 1] = e
<1>1. s \in Seq(S \cup {e})
  BY SeqMonotonic
<1> QED
  BY <1>1, AppendProperties, LenProperties

\* The steps that may change the memo or add a call, one by one.
AnsweredStep ==
  /\ \A d \in DOMAIN seen : d \in DOMAIN seen' /\ seen'[d] = seen[d]
  /\ \A n \in DOMAIN handoffs' :
       n \notin DOMAIN handoffs /\ Digest(handoffs'[n]) \in DOMAIN seen
         => handoffs'[n].duplicate

LEMMA NextAnswered == IInv /\ [Next]_vars => AnsweredStep
<1> SUFFICES ASSUME IInv, [Next]_vars PROVE AnsweredStep
  OBVIOUS
<1>1. ASSUME NEW caller \in 0..Len(handoffs), NEW pair \in Pairs,
             NEW input \in Inputs,
             Suppress(caller, pair, input) \/ Send(caller, pair, input)
      PROVE  AnsweredStep
  <2> DEFINE last == Len(handoffs) + 1
  <2>1. seen' = seen
    BY <1>1 DEF Suppress, Send
  <2>2. /\ DOMAIN handoffs = 1..Len(handoffs) /\ Len(handoffs) \in Nat
        /\ handoffs \in Seq(Handoff)
    BY LenProperties DEF IInv, TypeOK
  <2>3. PICK h : /\ handoffs' = Append(handoffs, h)
                 /\ Digest(h) \in DOMAIN seen => h.duplicate = TRUE
    <3>1. CASE Suppress(caller, pair, input)
      <4> DEFINE h == Entry(caller, pair, input, TRUE, "completed",
                            seen[<<pair, input>>])
      <4>1. handoffs' = Append(handoffs, h)
        BY <3>1 DEF Suppress
      <4>2. h.duplicate = TRUE
        BY DEF Entry
      <4> QED
        BY <4>1, <4>2
    <3>2. CASE Send(caller, pair, input)
      <4> DEFINE h == Entry(caller, pair, input, FALSE, "", 0)
      <4>1. handoffs' = Append(handoffs, h) /\ ~Repeats(pair, input)
        BY <3>2 DEF Send
      <4>2. Digest(h) = <<pair, input>>
        BY DEF Entry, Digest
      <4>3. Digest(h) \notin DOMAIN seen
        BY <4>1, <4>2 DEF Repeats, IInv, SeenIsTrue
      <4> QED
        BY <4>1, <4>3
    <3> QED
      BY <1>1, <3>1, <3>2
  <2>4. /\ DOMAIN handoffs' = 1..last
        /\ handoffs'[last] = h
    BY <2>2, <2>3, AppendAnything
  <2>5. ASSUME NEW n \in DOMAIN handoffs', n \notin DOMAIN handoffs,
               Digest(handoffs'[n]) \in DOMAIN seen
        PROVE  handoffs'[n].duplicate
    <3>1. n = last
      BY <2>2, <2>4, <2>5
    <3> QED
      BY <2>3, <2>4, <2>5, <3>1
  <2> QED
    BY <2>1, <2>5 DEF AnsweredStep, Digest
<1>2. ASSUME NEW n \in Slots, Record(n) PROVE AnsweredStep
  <2>1. DOMAIN handoffs' = DOMAIN handoffs
    BY <1>2 DEF Record
  <2>2. \A d \in DOMAIN seen : d \in DOMAIN seen' /\ seen'[d] = seen[d]
    BY <1>2 DEF Record
  <2> QED
    BY <2>1, <2>2 DEF AnsweredStep
<1>3. ASSUME NEW n \in Slots, Abandon(n) PROVE AnsweredStep
  <2>1. DOMAIN handoffs' = DOMAIN handoffs /\ seen' = seen
    BY <1>3 DEF Abandon
  <2> QED
    BY <2>1 DEF AnsweredStep
<1>4. ASSUME NEW n \in Slots,
             Admit(n) \/ (\E outcome \in Outcomes : Finish(n, outcome))
      PROVE  AnsweredStep
  <2>1. handoffs' = handoffs /\ seen' = seen
    BY <1>4 DEF Admit, Finish
  <2> QED
    BY <2>1 DEF AnsweredStep
<1>5. ASSUME UNCHANGED vars PROVE AnsweredStep
  BY <1>5 DEF AnsweredStep
<1> QED
  BY <1>1, <1>2, <1>3, <1>4, <1>5 DEF Next

\* An idempotent question that has an answer is never asked again in the turn,
\* and the answer that stands for it is never replaced.
THEOREM AnsweredOnceCorrect == Spec => AnsweredOnce
<1>1. IInv /\ [Next]_vars => [AnsweredStep]_vars
  BY NextAnswered
<1>2. Spec => [][AnsweredStep]_vars
  BY <1>1, Invariance, PTL DEF Spec
<1> QED
  BY <1>2 DEF AnsweredOnce, AnsweredStep

\* A settled record is out of reach of every later step.
LateStep ==
  \A n \in DOMAIN handoffs : handoffs[n].state # "" =>
    /\ handoffs'[n] = handoffs[n]
    /\ \A d \in DOMAIN seen' : seen'[d] = n => d \in DOMAIN seen

LEMMA NextLate == IInv /\ [Next]_vars => LateStep
<1> SUFFICES ASSUME IInv, [Next]_vars PROVE LateStep
  OBVIOUS
<1>1. ASSUME NEW caller \in 0..Len(handoffs), NEW pair \in Pairs,
             NEW input \in Inputs,
             Suppress(caller, pair, input) \/ Send(caller, pair, input)
      PROVE  LateStep
  <2>1. seen' = seen
    BY <1>1 DEF Suppress, Send
  <2>2. /\ DOMAIN handoffs = 1..Len(handoffs) /\ handoffs \in Seq(Handoff)
        /\ \E h : handoffs' = Append(handoffs, h)
    BY <1>1, LenProperties DEF IInv, TypeOK, Suppress, Send
  <2>3. \A n \in DOMAIN handoffs : handoffs'[n] = handoffs[n]
    <3>1. PICK h : handoffs' = Append(handoffs, h)
      BY <2>2
    <3>2. \A k \in 1..Len(handoffs) : Append(handoffs, h)[k] = handoffs[k]
      BY <2>2, AppendAnything
    <3>3. \A k \in 1..Len(handoffs) : handoffs'[k] = handoffs[k]
      BY ONLY <3>1, <3>2
    <3> QED
      BY ONLY <2>2, <3>3
  <2> QED
    BY <2>1, <2>3 DEF LateStep
<1>2. ASSUME NEW n \in Slots, Record(n) PROVE LateStep
  <2>1. /\ n \in DOMAIN handoffs /\ handoffs[n].state = ""
        /\ \A k \in DOMAIN handoffs : k # n => handoffs'[k] = handoffs[k]
    BY <1>2 DEF Record
  <2>2. \A d \in DOMAIN seen' : d \notin DOMAIN seen => seen'[d] = n
    BY <1>2 DEF Record
  <2> QED
    BY <2>1, <2>2 DEF LateStep
<1>3. ASSUME NEW n \in Slots, Abandon(n) PROVE LateStep
  <2>1. /\ n \in DOMAIN handoffs /\ handoffs[n].state = "" /\ seen' = seen
        /\ \A k \in DOMAIN handoffs : k # n => handoffs'[k] = handoffs[k]
    BY <1>3 DEF Abandon
  <2> QED
    BY <2>1 DEF LateStep
<1>4. ASSUME NEW n \in Slots,
             Admit(n) \/ (\E outcome \in Outcomes : Finish(n, outcome))
      PROVE  LateStep
  <2>1. handoffs' = handoffs /\ seen' = seen
    BY <1>4 DEF Admit, Finish
  <2> QED
    BY <2>1 DEF LateStep
<1>5. ASSUME UNCHANGED vars PROVE LateStep
  BY <1>5 DEF LateStep
<1> QED
  BY <1>1, <1>2, <1>3, <1>4, <1>5 DEF Next

\* An answer that arrives after its caller gave up leaves no mark on the turn.
THEOREM LateAnswersLeaveNoMark == Spec => LateAnswersIgnored
<1>1. IInv /\ [Next]_vars => [LateStep]_vars
  BY NextLate
<1>2. Spec => [][LateStep]_vars
  BY <1>1, Invariance, PTL DEF Spec
<1> QED
  BY <1>2 DEF LateAnswersIgnored, LateStep

\* The ledger of a turn answers repeats with the truth, for every limit and every set of agents.
THEOREM LedgerCorrect == Spec => []LedgerHolds
BY TypeCorrect, ReplayCorrect, AdmissionCorrect, PTL DEF LedgerHolds

\* What it has answered stands, and what it has given up stays given up.
THEOREM AnswersCorrect == Spec => AnswersStand
BY AnsweredOnceCorrect, LateAnswersLeaveNoMark DEF AnswersStand

-----------------------------------------------------------------------------
(* How deep the calls are nested, measured on the calls themselves.        *)

\* Every set of numbers that is not empty has a least one: what stands here for induction.
LEMMA LeastNumber ==
  ASSUME NEW S \in SUBSET Nat, S # {}
  PROVE  \E m \in S : \A i \in S : m <= i
<1>1. PICK m \in S : \A i \in S : ~ (<<i, m>> \in OpToRel(<, Nat))
  BY NatLessThanWellFounded, WFMin
<1>2. \A i \in S : ~ (i < m)
  BY <1>1 DEF OpToRel
<1>3. \A i \in S : m <= i
  BY <1>2
<1> QED
  BY <1>3

\* The stacks of the calls up to the n-th, as Stack computes them.
Stacks(above, n) ==
  above = [k \in 0..n |-> IF k = 0 THEN {} ELSE above[handoffs[k].from] \cup {k}]

\* There are such stacks, since a call is made by an older one.
LEMMA StacksExist ==
  ASSUME NEW L \in Nat, \A n \in 1..L : handoffs[n].from \in 0..(n - 1)
  PROVE  \E above : Stacks(above, L)
<1> DEFINE Bad == {n \in 0..L : ~ \E above : Stacks(above, n)}
<1>1. SUFFICES ASSUME Bad # {} PROVE FALSE
  BY DEF Bad
<1>2. PICK n \in Bad : \A i \in Bad : n <= i
  <2>1. Bad \in SUBSET Nat
    OBVIOUS
  <2> HIDE DEF Bad
  <2> QED
    BY <1>1, <2>1, LeastNumber
<1>3. CASE n = 0
  <2> DEFINE above == [k \in 0..0 |-> {}]
  <2>1. Stacks(above, 0)
    BY DEF Stacks
  <2> QED
    BY <1>2, <1>3, <2>1
<1>4. CASE n # 0
  <2>1. n \in 1..L /\ n - 1 \in 0..L /\ n - 1 \notin Bad
    BY <1>2, <1>4
  <2>2. PICK old : Stacks(old, n - 1)
    BY <2>1
  <2> DEFINE above == [k \in 0..n |-> IF k = n THEN old[handoffs[n].from] \cup {n} ELSE old[k]]
  <2>3. ASSUME NEW k \in 0..n
        PROVE  above[k] = IF k = 0 THEN {} ELSE above[handoffs[k].from] \cup {k}
    <3>1. CASE k = n
      <4>1. handoffs[n].from \in 0..(n - 1)
        BY <2>1
      <4>2. above[handoffs[n].from] = old[handoffs[n].from]
        BY <2>1, <4>1
      <4> QED
        BY <2>1, <3>1, <4>2
    <3>2. CASE k # n
      <4>1. k \in 0..(n - 1) /\ above[k] = old[k]
        BY <2>1, <3>2
      <4>2. old[k] = IF k = 0 THEN {} ELSE old[handoffs[k].from] \cup {k}
        BY <2>2, <4>1 DEF Stacks
      <4>3. CASE k = 0
        BY <4>1, <4>2, <4>3
      <4>4. CASE k # 0
        <5>1. handoffs[k].from \in 0..(k - 1)
          BY <2>1, <4>1, <4>4
        <5>2. above[handoffs[k].from] = old[handoffs[k].from]
          BY <2>1, <4>1, <5>1
        <5> QED
          BY <4>1, <4>2, <4>4, <5>2
      <4> QED
        BY <4>3, <4>4
    <3> QED
      BY <3>1, <3>2
  <2>4. above = [k \in 0..n |-> above[k]]
    OBVIOUS
  <2> HIDE DEF above
  <2>5. Stacks(above, n)
    BY <2>3, <2>4 DEF Stacks
  <2> QED
    BY <1>2, <2>5
<1> QED
  BY <1>3, <1>4

\* What Stack is: nothing at the boundary, and else the stack of the caller with the call itself.
LEMMA StackUnfolds ==
  ASSUME IInv
  PROVE  /\ Stack(0) = {}
         /\ \A n \in DOMAIN handoffs : Stack(n) = Stack(handoffs[n].from) \cup {n}
<1> DEFINE L == Len(handoffs)
<1>1. L \in Nat /\ DOMAIN handoffs = 1..L
  BY LenProperties DEF IInv, TypeOK
<1>2. \A n \in 1..L : handoffs[n].from \in 0..(n - 1)
  BY <1>1 DEF IInv, ChainsNest
<1>3. \E above : Stacks(above, L)
  <2> HIDE DEF L
  <2> QED
    BY <1>1, <1>2, StacksExist
<1> DEFINE above == CHOOSE a : a = [k \in 0..L |-> IF k = 0 THEN {} ELSE a[handoffs[k].from] \cup {k}]
<1>4. above = [k \in 0..L |-> IF k = 0 THEN {} ELSE above[handoffs[k].from] \cup {k}]
  BY <1>3 DEF Stacks
<1>5. \A n : Stack(n) = above[n]
  BY DEF Stack
<1> HIDE DEF above
<1>6. above[0] = {} /\ \A n \in 1..L : above[n] = above[handoffs[n].from] \cup {n}
  <2>1. 0 \in 0..L /\ \A n \in 1..L : n \in 0..L /\ n # 0
    BY <1>1
  <2> HIDE DEF L
  <2> QED
    BY <1>4, <2>1
<1> QED
  BY <1>1, <1>5, <1>6

\* A pair that is put on a chain adds one to its own count and nothing to another's.
LEMMA ReentriesOfAnother ==
  ASSUME NEW chain \in Seq(Pairs), NEW pair \in Pairs, NEW other \in Pairs, other # pair
  PROVE  Reentries(Append(chain, pair), other) = Reentries(chain, other)
<1>1. /\ Len(chain) \in Nat
      /\ DOMAIN chain = 1..Len(chain)
      /\ DOMAIN Append(chain, pair) = 1..(Len(chain) + 1)
      /\ \A k \in 1..Len(chain) : Append(chain, pair)[k] = chain[k]
      /\ Append(chain, pair)[Len(chain) + 1] = pair
  BY AppendProperties, LenProperties
<1>2. {k \in DOMAIN Append(chain, pair) : Append(chain, pair)[k] = other}
        = {k \in DOMAIN chain : chain[k] = other}
  BY <1>1
<1> QED
  BY <1>2 DEF Reentries

\* Of the calls on a stack, those of one pair.
OfPair(S, p) == {m \in S : handoffs[m].pair = p}

\* The chain that a call carries tells the truth about the stack it is on.
Told(n) ==
  /\ Stack(n) \subseteq 1..n /\ IsFiniteSet(Stack(n))
  /\ Cardinality(Stack(n)) = Len(ChainOf(n))
  /\ \A p \in Pairs : Cardinality(OfPair(Stack(n), p)) = Reentries(ChainOf(n), p)

LEMMA ToldByCaller ==
  ASSUME IInv, NEW n \in DOMAIN handoffs, Told(handoffs[n].from)
  PROVE  Told(n)
<1> DEFINE c == handoffs[n].from
           S == Stack(c)
           q == handoffs[n].pair
<1>1. /\ DOMAIN handoffs = 1..Len(handoffs) /\ Len(handoffs) \in Nat
      /\ c \in 0..(n - 1) /\ c \in 0..Len(handoffs)
      /\ ChainOf(n) = Append(ChainOf(c), q) /\ n \in Nat \ {0}
  BY LenProperties DEF IInv, TypeOK, ChainsNest, ChainOf
<1>2. handoffs[n] \in Handoff
  BY DEF IInv, TypeOK
<1>3. q \in Pairs /\ ChainOf(c) \in Seq(Pairs)
  BY <1>1, <1>2, ChainOfType DEF IInv, Handoff
<1>4. Stack(n) = S \cup {n}
  BY StackUnfolds
<1>5. S \subseteq 1..c /\ IsFiniteSet(S) /\ n \notin S
  BY <1>1 DEF Told
<1>6. Stack(n) \subseteq 1..n /\ IsFiniteSet(Stack(n)) /\ Cardinality(Stack(n)) = Cardinality(S) + 1
  <2>1. S \cup {n} \subseteq 1..n
    BY <1>1, <1>5
  <2> HIDE DEF S
  <2> QED
    BY <1>4, <1>5, <2>1, FS_AddElement
<1>7. Cardinality(Stack(n)) = Len(ChainOf(n))
  <2>1. Cardinality(S) = Len(ChainOf(c))
    BY DEF Told
  <2>2. Len(ChainOf(n)) = Len(ChainOf(c)) + 1
    BY <1>1, <1>3, AppendProperties
  <2> QED
    BY <1>6, <2>1, <2>2
<1>8. ASSUME NEW p \in Pairs
      PROVE  Cardinality(OfPair(Stack(n), p)) = Reentries(ChainOf(n), p)
  <2>1. Cardinality(OfPair(S, p)) = Reentries(ChainOf(c), p)
    BY DEF Told
  <2>2. CASE p = q
    <3>1. OfPair(Stack(n), p) = OfPair(S, p) \cup {n} /\ n \notin OfPair(S, p)
      BY <1>4, <1>5, <2>2 DEF OfPair
    <3>2. IsFiniteSet(OfPair(S, p))
      <4>1. OfPair(S, p) \in SUBSET S
        BY DEF OfPair
      <4> QED
        BY <1>5, <4>1, FS_Subset
    <3>3. Cardinality(OfPair(Stack(n), p)) = Cardinality(OfPair(S, p)) + 1
      BY <3>1, <3>2, FS_AddElement
    <3>4. Reentries(ChainOf(n), p) = Reentries(ChainOf(c), p) + 1
      BY <1>1, <1>3, <2>2, ReentriesAppend
    <3> QED
      BY <2>1, <3>3, <3>4
  <2>3. CASE p # q
    <3>1. OfPair(Stack(n), p) = OfPair(S, p)
      BY <1>4, <2>3 DEF OfPair
    <3>2. Reentries(ChainOf(n), p) = Reentries(ChainOf(c), p)
      BY <1>1, <1>3, <2>3, ReentriesOfAnother
    <3> QED
      BY <2>1, <3>1, <3>2
  <2> QED
    BY <2>2, <2>3
<1> QED
  BY <1>6, <1>7, <1>8 DEF Told

\* By the least call of which that were not so.
LEMMA ChainsTellTheTruth ==
  ASSUME IInv
  PROVE  \A n \in DOMAIN handoffs : Told(n)
<1> DEFINE Bad == {n \in 0..Len(handoffs) : ~Told(n)}
<1>1. Len(handoffs) \in Nat /\ DOMAIN handoffs = 1..Len(handoffs)
  BY LenProperties DEF IInv, TypeOK
<1>2. SUFFICES ASSUME Bad # {} PROVE FALSE
  BY <1>1
<1>3. PICK n \in Bad : \A i \in Bad : n <= i
  <2>1. Bad \in SUBSET Nat
    BY <1>1
  <2> HIDE DEF Bad
  <2> QED
    BY <1>2, <2>1, LeastNumber
<1>4. CASE n = 0
  <2>1. Stack(0) = {} /\ ChainOf(0) = <<>>
    BY StackUnfolds DEF ChainOf
  <2>2. \A p : OfPair({}, p) = {} /\ {k \in DOMAIN <<>> : <<>>[k] = p} = {}
    BY DEF OfPair
  <2>3. Told(0)
    BY <2>1, <2>2, FS_EmptySet DEF Told, Reentries
  <2> QED
    BY <1>3, <1>4, <2>3
<1>5. CASE n # 0
  <2>1. n \in DOMAIN handoffs /\ handoffs[n].from \in 0..(n - 1)
    BY <1>1, <1>3, <1>5 DEF IInv, ChainsNest
  <2>2. handoffs[n].from \in 0..Len(handoffs) /\ ~ (n <= handoffs[n].from)
    BY <1>1, <2>1
  <2>3. Told(handoffs[n].from)
    BY <1>3, <2>2
  <2> QED
    BY <1>3, <2>1, <2>3, ToldByCaller
<1> QED
  BY <1>4, <1>5

\* For any skills, agents and limits, no handler runs deeper than the chain limit, nor under more
\* calls of its own skill than the reentry limit, whoever called whom and whatever timed out.
THEOREM NestingCorrect == Spec => []NestingBounded
<1>1. ASSUME IInv PROVE NestingBounded
  <2> SUFFICES ASSUME NEW n \in Slots, work[n] \in {"running"} \cup Outcomes
               PROVE  /\ Cardinality(Stack(n)) <= ChainLimit
                      /\ Cardinality({m \in Stack(n) : handoffs[m].pair = handoffs[n].pair})
                           <= ReentryLimit
    BY DEF NestingBounded
  <2>1. n \in DOMAIN handoffs
    BY <1>1 DEF IInv, WorkIsSent, Outcomes
  <2>2. Told(n)
    BY <1>1, <2>1, ChainsTellTheTruth
  <2>3. handoffs[n] \in Handoff /\ n # 0
    BY <1>1, <2>1 DEF IInv, TypeOK, Slots
  <2>4. handoffs[n].pair \in Pairs /\ ChainOf(n) = handoffs[n].chain
    BY <2>3 DEF Handoff, ChainOf
  <2>5. /\ Len(handoffs[n].chain) \in 1..ChainLimit
        /\ Reentries(handoffs[n].chain, handoffs[n].pair) <= ReentryLimit
    BY <1>1, <2>1 DEF IInv, ChainsBounded
  <2>6. Cardinality(Stack(n)) <= ChainLimit
    BY <2>2, <2>4, <2>5 DEF Told
  <2>7. Cardinality(OfPair(Stack(n), handoffs[n].pair)) <= ReentryLimit
    BY <2>2, <2>4, <2>5 DEF Told
  <2> QED
    BY <2>6, <2>7 DEF OfPair
<1>2. IInv => NestingBounded
  BY <1>1
<1> QED
  BY <1>2, Invariance, PTL
=============================================================================
