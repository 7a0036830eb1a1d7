----------------------------- MODULE Engine_proofs -----------------------------
(***************************************************************************)
(* Proofs about four procedures of the engine room that go on until        *)
(* something fits: the structured call to a model, the reverse stress of a *)
(* book, the loop in which a model asks for tools, and the walk back       *)
(* through the coupon dates of a bond.                                     *)
(*                                                                         *)
(* ModelCall, for any callers, models, limits, schemas and replies, and    *)
(* any number of calls one after the other: an answer is either what the   *)
(* model said, for the schema asked for, or a failure of the last request  *)
(* made, and is recorded as one call with all that its requests used. The  *)
(* invariant has to say which requests a call may have made so far (the    *)
(* plain one, then told of the fault, then with spare tokens, or both) and *)
(* that what they used is on the tally, not recorded; and that whatever the*)
(* repairs make of a text (braces closed, commas and fences dropped, the   *)
(* arguments of a template read out) is made of parts of that text, which  *)
(* is a fact about folds and about the function that counts open braces.   *)
(*                                                                         *)
(* StressSearch, for any grid, P&L function, list of targets and limits of *)
(* the search: the target never leaves the bracket, a converged row is an  *)
(* answer, an unreachable loss is out of reach, and an amber level is met  *)
(* no later than its limit. The last compares two rows that were found     *)
(* by two searches of the same interval: the invariant keeps, for each     *)
(* bound, the path of halvings that led to it, which is the same each time.*)
(*                                                                         *)
(* HostLoop, for any servers, tools, bound and turns of the model: it is   *)
(* told each result once and in order, and offered each name once. While   *)
(* tools run, what was told, what will be told and what is still to run    *)
(* make, in this order, what was called; a result moves from the third to  *)
(* the second and all of the second to the first, in one message or many,  *)
(* which joins the parts of a conversation in the order they were said.    *)
(*                                                                         *)
(* BondSchedule, for any maturities and dates: each coupon ahead is        *)
(* counted once, on its day, and only comes nearer. Two walks from one     *)
(* maturity meet the same dates, so the later one stops where the earlier  *)
(* one came by; that the dates met are in order is a fact about the        *)
(* calendar: six months before a date, the day clamped, is a date before   *)
(* it.                                                                     *)
(***************************************************************************)
EXTENDS ModelCall, StressSearch, HostLoop, BondSchedule, FiniteSetTheorems, SequenceTheorems, WellFoundedInduction, TLAPS

-----------------------------------------------------------------------------
(* Folds.  A fold over a sequence takes its largest index off a set of     *)
(* indices, again and again; the provers have no induction over data, so   *)
(* it is made by hand, from the least number that would be an exception.   *)

\* A set of numbers that is not empty has a least one.
LEMMA LeastNumber ==
  ASSUME NEW S \in SUBSET Nat, S # {}
  PROVE  \E m \in S : \A i \in S : m <= i
<1>1. PICK m \in S : \A i \in S : ~ (<<i, m>> \in OpToRel(<, Nat))
  BY NatLessThanWellFounded, WFMin
<1>2. \A i \in S : ~ (i < m)
  BY <1>1 DEF OpToRel
<1>3. \A i \in S : m <= i
  BY <1>2
<1>. QED BY <1>3

\* What holds of 0 and is handed on from each number to the next holds up to N.
LEMMA UpTo ==
  ASSUME NEW N \in Nat, NEW P, 0 \in P, \A n \in 1..N : n - 1 \in P => n \in P
  PROVE  \A n \in 0..N : n \in P
<1>. DEFINE Bad == {n \in 0..N : n \notin P}
<1>1. SUFFICES ASSUME Bad # {} PROVE FALSE
  OBVIOUS
<1>2. PICK n \in Bad : \A i \in Bad : n <= i
  <2>1. Bad \in SUBSET Nat
    OBVIOUS
  <2>. QED BY <1>1, <2>1, LeastNumber
<1>3. n # 0 /\ n \in 1..N /\ n - 1 \in 0..N
  BY <1>2
<1>4. n - 1 \notin Bad
  BY <1>2, <1>3
<1>. QED BY <1>2, <1>3, <1>4

\* The largest of some indices is one of them.
LEMMA LargestIndex ==
  ASSUME NEW N \in Nat, NEW t \in SUBSET (1..N), t # {}
  PROVE  Max(t) \in t /\ \A i \in t : i <= Max(t)
<1>. DEFINE Above == {m \in 0..N : \A i \in t : i <= m}
<1>1. N \in Above /\ Above \in SUBSET Nat
  OBVIOUS
<1>2. PICK m \in Above : \A j \in Above : m <= j
  BY <1>1, LeastNumber
<1>3. m \in t
  <2>1. SUFFICES ASSUME m \notin t PROVE FALSE
    OBVIOUS
  <2>2. m \in 0..N /\ \A i \in t : i <= m
    BY <1>2
  <2>3. \A i \in t : i \in 1..N /\ i # m
    BY <2>1
  <2>4. \A i \in t : i <= m - 1
    BY <2>2, <2>3
  <2>5. m # 0
    <3>1. PICK i \in t : TRUE
      OBVIOUS
    <3>. QED BY <2>2, <2>3, <3>1
  <2>6. m - 1 \in Above
    BY <2>2, <2>4, <2>5
  <2>. QED BY <1>2, <2>2, <2>6
<1>4. \E x \in t : \A i \in t : x >= i
  BY <1>2, <1>3
<1>. QED BY <1>4 DEF Max

LEMMA LargestOfAll == ASSUME NEW n \in Nat, n # 0 PROVE Max(1..n) = n /\ (1..n) \ {Max(1..n)} = 1..(n - 1)
<1>1. Max(1..n) \in 1..n /\ \A i \in 1..n : i <= Max(1..n)
  <2>1. 1..n \in SUBSET (1..n) /\ 1..n # {}
    OBVIOUS
  <2>. QED BY <2>1, LargestIndex
<1>2. Max(1..n) = n
  BY <1>1
<1>. QED BY <1>2

\* f folds the steps 1..N from base on, through values in X.
IsFold(f, N, X, base, step) ==
  /\ f \in [SUBSET (1..N) -> X]
  /\ \A t \in SUBSET (1..N) : f[t] = IF t = {} THEN base ELSE step[Max(t)][f[t \ {Max(t)}]]

\* Steps that can be taken one after the other, from base on, can be folded.
LEMMA FoldExists ==
  ASSUME NEW N \in Nat, NEW X, NEW base \in X, NEW step \in [1..N -> [X -> X]]
  PROVE  \E f : IsFold(f, N, X, base, step)
<1>. DEFINE Folds(n) == {f \in [SUBSET (1..n) -> X] :
                            \A t \in SUBSET (1..n) :
                               f[t] = IF t = {} THEN base ELSE step[Max(t)][f[t \ {Max(t)}]]}
            P == {n \in 0..N : Folds(n) # {}}
<1>1. 0 \in P
  <2>. DEFINE f == [t \in SUBSET (1..0) |-> base]
  <2>1. SUBSET (1..0) = {{}}
    OBVIOUS
  <2>2. f \in Folds(0)
    BY <2>1
  <2>. HIDE DEF f, Folds
  <2>3. Folds(0) # {} /\ 0 \in 0..N
    BY <2>2
  <2>. QED BY <2>3
<1>2. ASSUME NEW n \in 1..N, n - 1 \in P PROVE n \in P
  <2>1. PICK old \in Folds(n - 1) : TRUE
    BY <1>2
  <2>2. /\ old \in [SUBSET (1..(n - 1)) -> X]
        /\ \A t \in SUBSET (1..(n - 1)) :
              old[t] = IF t = {} THEN base ELSE step[Max(t)][old[t \ {Max(t)}]]
    BY <2>1
  <2>. DEFINE new == [t \in SUBSET (1..n) |-> IF n \in t THEN step[n][old[t \ {n}]] ELSE old[t]]
  <2>3. ASSUME NEW t \in SUBSET (1..n)
        PROVE  new[t] \in X /\ new[t] = IF t = {} THEN base ELSE step[Max(t)][new[t \ {Max(t)}]]
    <3>1. CASE n \in t
      <4>1. Max(t) = n
        <5>1. n \in Nat /\ t # {}
          BY <3>1
        <5>2. Max(t) \in t /\ \A i \in t : i <= Max(t)
          BY <5>1, LargestIndex
        <5>3. Max(t) \in 1..n /\ n <= Max(t)
          BY <3>1, <5>2
        <5>. QED BY <5>3
      <4>2. t \ {n} \in SUBSET (1..(n - 1)) /\ t \ {n} \in SUBSET (1..n) /\ n \notin t \ {n}
        OBVIOUS
      <4>3. new[t \ {n}] = old[t \ {n}] /\ old[t \ {n}] \in X
        BY <2>2, <4>2
      <4>4. new[t] = step[n][old[t \ {n}]]
        BY <3>1
      <4>5. step[n] \in [X -> X]
        OBVIOUS
      <4>. HIDE DEF new
      <4>. QED BY <3>1, <4>1, <4>3, <4>4, <4>5
    <3>2. CASE n \notin t
      <4>1. t \in SUBSET (1..(n - 1)) /\ t \ {Max(t)} \in SUBSET (1..(n - 1)) /\ t \ {Max(t)} \in SUBSET (1..n)
            /\ n \notin t \ {Max(t)}
        <5>1. \A i \in t : i \in 1..(n - 1)
          BY <3>2
        <5>. QED BY <3>2, <5>1
      <4>2. new[t] = old[t] /\ new[t \ {Max(t)}] = old[t \ {Max(t)}]
        BY <3>2, <4>1
      <4>3. old[t] \in X
        BY <2>2, <4>1
      <4>4. old[t] = IF t = {} THEN base ELSE step[Max(t)][old[t \ {Max(t)}]]
        BY <2>2, <4>1
      <4>. HIDE DEF new
      <4>. QED BY <4>2, <4>3, <4>4
    <3>. QED BY <3>1, <3>2
  <2>4. new \in [SUBSET (1..n) -> X]
    BY <2>3
  <2>5. new \in Folds(n)
    <3>. HIDE DEF new
    <3>. QED BY <2>3, <2>4
  <2>. HIDE DEF new, Folds
  <2>6. Folds(n) # {} /\ n \in 0..N
    BY <2>5
  <2>. QED BY <2>6
<1>3. \A n \in 0..N : n \in P
  <2>. HIDE DEF P
  <2>. QED BY <1>1, <1>2, UpTo
<1>4. N \in P
  <2>. HIDE DEF P
  <2>1. N \in 0..N
    OBVIOUS
  <2>. QED BY <1>3, <2>1
<1>5. Folds(N) # {}
  <2>. HIDE DEF Folds
  <2>. QED BY <1>4
<1>6. PICK f \in Folds(N) : TRUE
  BY <1>5
<1>7. IsFold(f, N, X, base, step)
  BY <1>6 DEF IsFold
<1>. QED BY <1>7

\* A fold goes through the indices from the first to the last.
LEMMA FoldSteps ==
  ASSUME NEW N \in Nat, NEW n \in 1..N
  PROVE  /\ 1..n \in SUBSET (1..N) /\ 1..n # {} /\ 1..(n - 1) \in SUBSET (1..N)
         /\ Max(1..n) = n /\ (1..n) \ {Max(1..n)} = 1..(n - 1)
BY LargestOfAll

-----------------------------------------------------------------------------
(* What the model wrote.  Repairing a text cuts strings short and closes   *)
(* brackets; what else stands in it, stood in it before.                   *)

\* What is in a text does not matter to it being one.
IsSeq(s) == \E T : s \in Seq(T)

From(said, got) ==
  \/ got = said
  \/ /\ got.k = said.k
     /\ \/ got.v = "half" /\ said.v = "said"
        \/ got.v = "cut" /\ said.v \in {"said", "half"}

LEMMA FromTwice == ASSUME NEW a, NEW b, NEW c, From(a, b), From(b, c) PROVE From(a, c)
BY DEF From

LEMMA DepthIsANumber == ASSUME NEW S, NEW text \in Seq(S) PROVE Depth(text) \in Nat
<1>. DEFINE N == Len(text)
            op(n, x) == IF x.t = "open" THEN n + 1 ELSE IF x.t = "close" /\ n > 0 THEN n - 1 ELSE n
            Fold(f) == f = [t \in SUBSET DOMAIN text |->
                              IF t = {} THEN 0
                              ELSE IF text[Max(t)].t = "open" THEN f[t \ {Max(t)}] + 1
                              ELSE IF text[Max(t)].t = "close" /\ f[t \ {Max(t)}] > 0 THEN f[t \ {Max(t)}] - 1
                              ELSE f[t \ {Max(t)}]]
<1>1. Depth(text) = (CHOOSE f : Fold(f))[DOMAIN text]
  BY DEF Depth, FoldLeft, MapThenFoldSet
<1>2. N \in Nat /\ DOMAIN text = 1..N
  OBVIOUS
<1>3. \E f : Fold(f)
  <2>. DEFINE step == [i \in 1..N |-> [n \in Nat |-> op(n, text[i])]]
  <2>1. step \in [1..N -> [Nat -> Nat]]
    OBVIOUS
  <2>2. PICK f : IsFold(f, N, Nat, 0, step)
    <3>. HIDE DEF N, step
    <3>. QED BY <1>2, <2>1, FoldExists
  <2>3. ASSUME NEW t \in SUBSET (1..N), t # {}
        PROVE  step[Max(t)][f[t \ {Max(t)}]] = op(f[t \ {Max(t)}], text[Max(t)])
    <3>1. Max(t) \in 1..N
      BY <1>2, <2>3, LargestIndex
    <3>2. f[t \ {Max(t)}] \in Nat
      BY <2>2 DEF IsFold
    <3>. QED BY <3>1, <3>2
  <2>4. Fold(f)
    <3>. HIDE DEF step
    <3>. QED BY <1>2, <2>2, <2>3 DEF IsFold
  <2>. QED BY <2>4
<1>4. PICK f : f = CHOOSE g : Fold(g)
  OBVIOUS
<1>5. Fold(f)
  <2>. HIDE DEF Fold
  <2>. QED BY <1>3, <1>4
<1>6. f[{}] = 0
  BY <1>2, <1>5
<1>7. ASSUME NEW n \in 1..N, f[1..(n - 1)] \in Nat PROVE f[1..n] \in Nat
  <2>1. f[1..n] = op(f[1..(n - 1)], text[n])
    <3>1. /\ 1..n \in SUBSET (1..N) /\ 1..n # {}
          /\ Max(1..n) = n /\ (1..n) \ {Max(1..n)} = 1..(n - 1)
      BY <1>2, FoldSteps
    <3>. HIDE DEF N
    <3>. QED BY <1>2, <1>5, <3>1
  <2>. QED BY <1>7, <2>1
<1>. DEFINE P == {n \in 0..N : f[1..n] \in Nat}
<1>8. 0 \in P
  BY <1>2, <1>6
<1>9. \A n \in 1..N : n - 1 \in P => n \in P
  BY <1>2, <1>7
<1>10. N \in P
  <2>. HIDE DEF P
  <2>1. \A n \in 0..N : n \in P
    BY <1>2, <1>8, <1>9, UpTo
  <2>. QED BY <1>2, <2>1
<1>. QED BY <1>1, <1>2, <1>4, <1>10

\* The pairs of a template are pairs of the text it was written in.
LEMMA ArgPairsAreSaid ==
  ASSUME NEW S, NEW text \in Seq(S)
  PROVE  /\ ArgPairs(text) \in Seq(S)
         /\ \A i \in DOMAIN ArgPairs(text) : \E j \in DOMAIN text : ArgPairs(text)[i] = text[j]
<1>. DEFINE N == Len(text)
            X == {s \in Seq(S) : \A i \in DOMAIN s : \E j \in DOMAIN text : s[i] = text[j]}
            op(found, x) == IF x.t = "pair" /\ x.v # "half" THEN Append(found, x) ELSE found
            Fold(f) == f = [t \in SUBSET DOMAIN text |->
                              IF t = {} THEN <<>>
                              ELSE IF text[Max(t)].t = "pair" /\ text[Max(t)].v # "half"
                                   THEN Append(f[t \ {Max(t)}], text[Max(t)])
                              ELSE f[t \ {Max(t)}]]
<1>1. ArgPairs(text) = (CHOOSE f : Fold(f))[DOMAIN text]
  BY DEF ArgPairs, FoldLeft, MapThenFoldSet
<1>2. N \in Nat /\ DOMAIN text = 1..N /\ <<>> \in X
  OBVIOUS
<1>3. ASSUME NEW i \in 1..N, NEW s \in X PROVE op(s, text[i]) \in X
  <2>1. text[i] \in S /\ s \in Seq(S)
    BY <1>2
  <2>2. CASE text[i].t = "pair" /\ text[i].v # "half"
    <3>1. Append(s, text[i]) \in Seq(S) /\ DOMAIN Append(s, text[i]) = 1..(Len(s) + 1)
      BY <2>1, AppendProperties
    <3>2. \A k \in 1..(Len(s) + 1) : Append(s, text[i])[k] = IF k = Len(s) + 1 THEN text[i] ELSE s[k]
      BY <2>1, AppendProperties
    <3>3. \A k \in 1..Len(s) : \E j \in DOMAIN text : s[k] = text[j]
      BY <2>1
    <3>4. ASSUME NEW k \in 1..(Len(s) + 1)
          PROVE  \E j \in DOMAIN text : Append(s, text[i])[k] = text[j]
      <4>1. CASE k = Len(s) + 1
        BY <1>2, <3>2, <4>1
      <4>2. CASE k # Len(s) + 1
        <5>1. k \in 1..Len(s)
          BY <2>1, <4>2
        <5>. QED BY <3>2, <3>3, <4>2, <5>1
      <4>. QED BY <4>1, <4>2
    <3>5. Append(s, text[i]) \in X
      BY <3>1, <3>4
    <3>. QED BY <2>2, <3>5
  <2>. QED BY <2>2
<1>4. \E f : Fold(f)
  <2>. DEFINE step == [i \in 1..N |-> [s \in X |-> op(s, text[i])]]
  <2>1. step \in [1..N -> [X -> X]]
    <3>. HIDE DEF op, X, N
    <3>. QED BY <1>3
  <2>2. PICK f : IsFold(f, N, X, <<>>, step)
    <3>. HIDE DEF N, step, X
    <3>. QED BY <1>2, <2>1, FoldExists
  <2>3. ASSUME NEW t \in SUBSET (1..N), t # {}
        PROVE  step[Max(t)][f[t \ {Max(t)}]] = op(f[t \ {Max(t)}], text[Max(t)])
    <3>1. Max(t) \in 1..N
      BY <1>2, <2>3, LargestIndex
    <3>2. f[t \ {Max(t)}] \in X
      <4>. HIDE DEF step, X
      <4>. QED BY <2>2 DEF IsFold
    <3>. HIDE DEF X, op
    <3>. QED BY <3>1, <3>2
  <2>4. Fold(f)
    <3>. HIDE DEF step, X
    <3>. QED BY <1>2, <2>2, <2>3 DEF IsFold
  <2>. QED BY <2>4
<1>5. PICK f : f = CHOOSE g : Fold(g)
  OBVIOUS
<1>6. Fold(f)
  <2>. HIDE DEF Fold
  <2>. QED BY <1>4, <1>5
<1>7. f[{}] = <<>>
  BY <1>2, <1>6
<1>8. ASSUME NEW n \in 1..N, f[1..(n - 1)] \in X PROVE f[1..n] \in X
  <2>1. f[1..n] = op(f[1..(n - 1)], text[n])
    <3>1. /\ 1..n \in SUBSET (1..N) /\ 1..n # {}
          /\ Max(1..n) = n /\ (1..n) \ {Max(1..n)} = 1..(n - 1)
      BY <1>2, FoldSteps
    <3>. HIDE DEF N, X
    <3>. QED BY <1>2, <1>6, <3>1
  <2>. HIDE DEF op, X, Fold
  <2>. QED BY <1>3, <1>8, <2>1
<1>. DEFINE P == {n \in 0..N : f[1..n] \in X}
<1>9. 0 \in P
  <2>1. 1..0 = {} /\ 0 \in 0..N
    BY <1>2
  <2>. HIDE DEF X
  <2>. QED BY <1>2, <1>7, <2>1
<1>10. \A n \in 1..N : n - 1 \in P => n \in P
  <2>. HIDE DEF X
  <2>. QED BY <1>2, <1>8
<1>11. N \in P
  <2>. HIDE DEF P
  <2>1. \A n \in 0..N : n \in P
    BY <1>2, <1>9, <1>10, UpTo
  <2>. QED BY <1>2, <2>1
<1>12. ArgPairs(text) \in X
  <2>. HIDE DEF X
  <2>. QED BY <1>1, <1>2, <1>5, <1>11
<1>. QED BY <1>12

LEMMA TemplatedIsSaid ==
  ASSUME NEW S, NEW text \in Seq(S)
  PROVE  /\ IsSeq(TemplatedCall(text))
         /\ \A i \in DOMAIN TemplatedCall(text) :
               \/ TemplatedCall(text)[i] \in {Token("open"), Token("comma"), Token("close")}
               \/ \E j \in DOMAIN text : TemplatedCall(text)[i] = text[j]
<1>1. PICK pairs : pairs = ArgPairs(text)
  OBVIOUS
<1>2. pairs \in Seq(S) /\ \A i \in DOMAIN pairs : \E j \in DOMAIN text : pairs[i] = text[j]
  BY <1>1, ArgPairsAreSaid
<1>3. PICK m \in Nat : m = IF Len(pairs) = 0 THEN 0 ELSE 2 * Len(pairs) - 1
  <2>1. Len(pairs) \in Nat
    BY <1>2
  <2>2. (IF Len(pairs) = 0 THEN 0 ELSE 2 * Len(pairs) - 1) \in Nat
    BY <2>1
  <2>. QED BY <2>2
<1>4. 1..(2 * Len(pairs) - 1) = 1..m
  BY <1>2, <1>3
<1>. DEFINE Good(x) == \/ x \in {Token("open"), Token("comma"), Token("close")}
                       \/ \E j \in DOMAIN text : x = text[j]
            inner == [i \in 1..m |-> IF i % 2 = 1 THEN pairs[(i + 1) \div 2] ELSE Token("comma")]
<1>. DEFINE T == S \cup {Token("open"), Token("comma"), Token("close")}
<1>5. Token("open") \in T /\ Token("comma") \in T /\ Token("close") \in T
  OBVIOUS
<1>6. ASSUME NEW i \in 1..m PROVE inner[i] \in T /\ Good(inner[i])
  <2>1. CASE i % 2 = 1
    <3>1. (i + 1) \div 2 \in 1..Len(pairs)
      BY <1>2, <1>3, <2>1
    <3>2. inner[i] = pairs[(i + 1) \div 2]
      BY <2>1
    <3>3. inner[i] \in S /\ \E j \in DOMAIN text : inner[i] = text[j]
      BY <1>2, <3>1, <3>2
    <3>. QED BY <3>3
  <2>2. CASE i % 2 # 1
    BY <1>5, <2>2
  <2>. QED BY <2>1, <2>2
<1>7. inner \in Seq(T) /\ Len(inner) = m
  <2>1. inner \in [1..m -> T]
    BY <1>6
  <2>. HIDE DEF inner
  <2>. QED BY <2>1
<1>8. TemplatedCall(text) = (<<Token("open")>> \o inner) \o <<Token("close")>>
  BY <1>1, <1>4 DEF TemplatedCall
<1>. HIDE DEF inner, T
<1>9. PICK a : a = <<Token("open")>> \o inner
  OBVIOUS
<1>10. a \in Seq(T) /\ Len(a) = 1 + m /\ \A i \in 1..(1 + m) : Good(a[i])
  <2>1. <<Token("open")>> \in Seq(T) /\ Len(<<Token("open")>>) = 1
    BY <1>5
  <2>2. a \in Seq(T) /\ Len(a) = 1 + m
    BY <1>7, <1>9, <2>1, ConcatProperties
  <2>3. \A i \in 1..(1 + m) : a[i] = IF i <= 1 THEN Token("open") ELSE inner[i - 1]
    BY <1>7, <1>9, <2>1, ConcatProperties
  <2>. QED BY <1>6, <2>2, <2>3
<1>11. PICK u : u = a \o <<Token("close")>>
  OBVIOUS
<1>12. u \in Seq(T) /\ Len(u) = m + 2 /\ \A i \in 1..(m + 2) : Good(u[i])
  <2>1. <<Token("close")>> \in Seq(T) /\ Len(<<Token("close")>>) = 1
    BY <1>5
  <2>2. u \in Seq(T) /\ Len(u) = m + 2
    BY <1>10, <1>11, <2>1, ConcatProperties
  <2>3. \A i \in 1..(m + 2) : u[i] = IF i <= 1 + m THEN a[i] ELSE Token("close")
    BY <1>10, <1>11, <2>1, ConcatProperties
  <2>. QED BY <1>10, <2>2, <2>3
<1>13. TemplatedCall(text) = u
  BY <1>8, <1>9, <1>11
<1>. QED BY <1>12, <1>13 DEF IsSeq

\* Each repair keeps what it does not shorten.
LEMMA CutIsSaid ==
  ASSUME NEW S, NEW text \in Seq(S)
  PROVE  /\ IsSeq(CutAtSentinel(text))
         /\ \A i \in DOMAIN CutAtSentinel(text) : \E j \in DOMAIN text : From(text[j], CutAtSentinel(text)[i])
<1>. DEFINE I == {i \in 1..Len(text) : text[i].t = "stop" \/ text[i].v = "said"}
            p == IF I # {} THEN Min(I) ELSE 0
            u == CutAtSentinel(text)
<1>1. u = IF p = 0 THEN text
          ELSE SubSeq(text, 1, p - 1) \o (IF text[p].t = "stop" THEN <<>> ELSE <<Pair(text[p].k, "half")>>)
  BY DEF CutAtSentinel, SelectInSeq
<1>2. Len(text) \in Nat /\ DOMAIN text = 1..Len(text)
  OBVIOUS
<1>3. CASE I = {}
  <2>1. u = text
    BY <1>1, <1>3
  <2>. QED BY <2>1 DEF IsSeq, From
<1>4. CASE I # {}
  <2>1. PICK m \in I : \A i \in I : m <= i
    <3>1. I \in SUBSET Nat
      BY <1>2
    <3>. QED BY <1>4, <3>1, LeastNumber
  <2>2. Min(I) \in I
    <3>1. \E x \in I : \A y \in I : x <= y
      BY <2>1
    <3>. QED BY <3>1 DEF Min
  <2>3. p \in 1..Len(text) /\ (text[p].t = "stop" \/ text[p].v = "said") /\ p # 0
    BY <1>4, <2>2
  <2>4. PICK n : n = p
    OBVIOUS
  <2>5. /\ n \in 1..Len(text) /\ (text[n].t = "stop" \/ text[n].v = "said")
        /\ u = SubSeq(text, 1, n - 1) \o (IF text[n].t = "stop" THEN <<>> ELSE <<Pair(text[n].k, "half")>>)
    BY <1>1, <2>3, <2>4
  <2>. DEFINE T == S \cup {Pair(text[n].k, "half")}
  <2>6. PICK a : a = SubSeq(text, 1, n - 1)
    OBVIOUS
  <2>7. a \in Seq(T) /\ Len(a) = n - 1 /\ \A i \in 1..(n - 1) : a[i] = text[i]
    BY <1>2, <2>5, <2>6, SubSeqProperties
  <2>8. CASE text[n].t = "stop"
    <3>1. u = a
      BY <2>5, <2>6, <2>7, <2>8
    <3>. HIDE DEF u, T
    <3>2. IsSeq(u) /\ DOMAIN u = 1..(n - 1)
      <4>1. u \in Seq(T) /\ Len(u) = n - 1
        BY <2>7, <3>1
      <4>2. IsSeq(u)
        BY <4>1 DEF IsSeq
      <4>. QED BY <4>1, <4>2
    <3>3. \A i \in 1..(n - 1) : i \in DOMAIN text /\ From(text[i], u[i])
      BY <1>2, <2>5, <2>7, <3>1 DEF From
    <3>4. \A i \in DOMAIN u : \E j \in DOMAIN text : From(text[j], u[i])
      BY <3>2, <3>3
    <3>. QED BY <3>2, <3>4 DEF u
  <2>9. CASE text[n].t # "stop"
    <3>1. PICK b : b = <<Pair(text[n].k, "half")>>
      OBVIOUS
    <3>2. b \in Seq(T) /\ Len(b) = 1 /\ b[1] = Pair(text[n].k, "half")
      BY <3>1
    <3>3. u = a \o b
      BY <2>5, <2>6, <2>9, <3>1
    <3>. HIDE DEF u, T
    <3>4. u \in Seq(T) /\ Len(u) = n /\ \A i \in 1..n : u[i] = IF i <= n - 1 THEN a[i] ELSE b[i - (n - 1)]
      <4>1. /\ u \in Seq(T) /\ Len(u) = Len(a) + Len(b)
            /\ \A i \in 1..(Len(a) + Len(b)) : u[i] = IF i <= Len(a) THEN a[i] ELSE b[i - Len(a)]
        BY <2>7, <3>2, <3>3, ConcatProperties
      <4>2. Len(a) = n - 1 /\ Len(b) = 1 /\ Len(a) + Len(b) = n
        BY <2>5, <2>7, <3>2
      <4>. QED BY <4>1, <4>2
    <3>5. u[n] = Pair(text[n].k, "half") /\ From(text[n], u[n])
      <4>1. n \in 1..n /\ ~(n <= n - 1) /\ n - (n - 1) = 1
        BY <2>5
      <4>2. u[n] = Pair(text[n].k, "half")
        BY <3>2, <3>4, <4>1
      <4>3. Pair(text[n].k, "half").k = text[n].k /\ Pair(text[n].k, "half").v = "half"
        BY DEF Pair
      <4>. QED BY <2>5, <2>9, <4>2, <4>3 DEF From
    <3>6. ASSUME NEW i \in 1..n PROVE \E j \in DOMAIN text : From(text[j], u[i])
      <4>1. CASE i = n
        BY <1>2, <2>5, <3>5, <4>1
      <4>2. CASE i # n
        <5>1. i \in 1..(n - 1) /\ i \in DOMAIN text
          BY <1>2, <2>5, <4>2
        <5>2. u[i] = text[i]
          BY <2>5, <2>7, <3>4, <5>1
        <5>. QED BY <5>1, <5>2 DEF From
      <4>. QED BY <4>1, <4>2
    <3>7. DOMAIN u = 1..n
      BY <3>4
    <3>. QED BY <3>4, <3>6, <3>7 DEF IsSeq, u
  <2>. QED BY <2>8, <2>9
<1>. QED BY <1>3, <1>4

LEMMA WithoutCommasIsSaid ==
  ASSUME NEW S, NEW text \in Seq(S)
  PROVE  /\ IsSeq(WithoutCommas(text))
         /\ \A i \in DOMAIN WithoutCommas(text) : \E j \in DOMAIN text : From(text[j], WithoutCommas(text)[i])
<1>. DEFINE I == {i \in 1..Len(text) : text[i].t # "comma"}
            p == IF I # {} THEN Max(I) ELSE 0
<1>1. WithoutCommas(text) = SubSeq(text, 1, p)
  BY DEF WithoutCommas, SelectLastInSeq
<1>2. Len(text) \in Nat /\ DOMAIN text = 1..Len(text)
  OBVIOUS
<1>3. p \in 0..Len(text)
  <2>1. CASE I # {}
    <3>1. Max(I) \in I
      BY <1>2, <2>1, LargestIndex
    <3>. QED BY <2>1, <3>1
  <2>2. CASE I = {}
    BY <1>2, <2>2
  <2>. QED BY <2>1, <2>2
<1>4. PICK n \in 0..Len(text) : n = p
  BY <1>3
<1>5. PICK u : u = WithoutCommas(text)
  OBVIOUS
<1>6. u = SubSeq(text, 1, n)
  BY <1>1, <1>4, <1>5
<1>7. u \in Seq(S) /\ Len(u) = n /\ \A i \in 1..n : u[i] = text[i]
  BY <1>2, <1>6, SubSeqProperties
<1>8. DOMAIN u = 1..n /\ 1..n \subseteq DOMAIN text
  BY <1>2, <1>7
<1>. QED BY <1>5, <1>7, <1>8 DEF IsSeq, From

LEMMA ClosedIsSaid ==
  ASSUME NEW S, NEW text \in Seq(S)
  PROVE  /\ IsSeq(CloseUnbalanced(text))
         /\ \A i \in DOMAIN CloseUnbalanced(text) :
               /\ CloseUnbalanced(text)[i].v # "half"
               /\ \/ CloseUnbalanced(text)[i] = Token("close")
                  \/ \E j \in DOMAIN text : From(text[j], CloseUnbalanced(text)[i])
<1>1. PICK d \in Nat : d = Depth(text)
  BY DepthIsANumber
<1>2. PICK N \in Nat : N = Len(text) /\ DOMAIN text = 1..N
  OBVIOUS
<1>. DEFINE a == [i \in 1..N |-> IF text[i].v = "half" THEN Pair(text[i].k, "cut") ELSE text[i]]
            b == [i \in 1..d |-> Token("close")]
            T == {a[i] : i \in 1..N} \cup {Token("close")}
            u == CloseUnbalanced(text)
<1>3. u = a \o b
  BY <1>1, <1>2 DEF CloseUnbalanced
<1>4. a \in Seq(T) /\ Len(a) = N
  <2>1. a \in [1..N -> T]
    OBVIOUS
  <2>. HIDE DEF a, T
  <2>. QED BY <1>2, <2>1
<1>5. b \in Seq(T) /\ Len(b) = d
  <2>1. b \in [1..d -> T]
    OBVIOUS
  <2>. HIDE DEF b, T
  <2>. QED BY <1>1, <2>1
<1>6. \A i \in 1..N : From(text[i], a[i]) /\ a[i].v # "half"
  BY DEF From, Pair
<1>7. \A i \in 1..d : b[i] = Token("close") /\ b[i].v # "half"
  BY DEF Token
<1>. HIDE DEF a, b, T, u
<1>8. u \in Seq(T) /\ Len(u) = N + d /\ \A i \in 1..(N + d) : u[i] = IF i <= N THEN a[i] ELSE b[i - N]
  BY <1>3, <1>4, <1>5, ConcatProperties
<1>9. ASSUME NEW i \in 1..(N + d)
      PROVE  /\ u[i].v # "half"
             /\ u[i] = Token("close") \/ \E j \in DOMAIN text : From(text[j], u[i])
  <2>1. CASE i <= N
    <3>1. i \in 1..N /\ u[i] = a[i]
      BY <1>2, <1>8, <2>1
    <3>. QED BY <1>2, <1>6, <3>1
  <2>2. CASE ~(i <= N)
    <3>1. i - N \in 1..d /\ u[i] = b[i - N]
      BY <1>1, <1>2, <1>8, <2>2
    <3>. QED BY <1>7, <3>1
  <2>. QED BY <2>1, <2>2
<1>10. DOMAIN u = 1..(N + d)
  BY <1>1, <1>2, <1>8
<1>. QED BY <1>8, <1>9, <1>10 DEF IsSeq, u

LEMMA SanitisedIsSaid ==
  ASSUME NEW S, NEW text \in Seq(S)
  PROVE  /\ IsSeq(SanitiseArguments(text))
         /\ \A i \in DOMAIN SanitiseArguments(text) :
               /\ SanitiseArguments(text)[i].v # "half"
               /\ \/ SanitiseArguments(text)[i] = Token("close")
                  \/ \E j \in DOMAIN text : From(text[j], SanitiseArguments(text)[i])
<1>1. PICK a : a = CutAtSentinel(text)
  OBVIOUS
<1>2. IsSeq(a) /\ \A i \in DOMAIN a : \E j \in DOMAIN text : From(text[j], a[i])
  BY <1>1, CutIsSaid
<1>3. PICK b : b = WithoutCommas(a)
  OBVIOUS
<1>4. IsSeq(b) /\ \A i \in DOMAIN b : \E j \in DOMAIN a : From(a[j], b[i])
  BY <1>2, <1>3, WithoutCommasIsSaid DEF IsSeq
<1>5. PICK u : u = CloseUnbalanced(b)
  OBVIOUS
<1>6. IsSeq(u) /\ \A i \in DOMAIN u : /\ u[i].v # "half"
                                      /\ u[i] = Token("close") \/ \E j \in DOMAIN b : From(b[j], u[i])
  BY <1>4, <1>5, ClosedIsSaid DEF IsSeq
<1>7. SanitiseArguments(text) = u
  BY <1>1, <1>3, <1>5 DEF SanitiseArguments
<1>8. \A i \in DOMAIN b : \E j \in DOMAIN text : From(text[j], b[i])
  BY <1>2, <1>4, FromTwice
<1>9. \A i \in DOMAIN u : /\ u[i].v # "half"
                          /\ u[i] = Token("close") \/ \E j \in DOMAIN text : From(text[j], u[i])
  BY <1>6, <1>8, FromTwice
<1>. QED BY <1>6, <1>7, <1>9

\* What is loaded is the value of one of the pairs.
LEMMA LoadedIsSaid ==
  ASSUME NEW S, NEW text \in Seq(S), NEW k \in DOMAIN Loaded(text)
  PROVE  \E i \in DOMAIN text : text[i].t = "pair" /\ text[i].k = k /\ Loaded(text)[k] = text[i].v
<1>. DEFINE I == {i \in 1..Len(text) : text[i].t = "pair" /\ text[i].k = k}
<1>1. Len(text) \in Nat /\ DOMAIN text = 1..Len(text)
  OBVIOUS
<1>2. k \in {text[i].k : i \in {j \in DOMAIN text : text[j].t = "pair"}}
  BY DEF Loaded
<1>3. I # {}
  BY <1>1, <1>2
<1>4. Loaded(text)[k] = text[Max(I)].v
  BY <1>2, <1>3 DEF Loaded, SelectLastInSeq
<1>5. Max(I) \in I
  BY <1>1, <1>3, LargestIndex
<1>. QED BY <1>1, <1>4, <1>5

-----------------------------------------------------------------------------
(* One answer.  What a request is answered with, if it is valid, is what   *)
(* the schema asked for and what the model said.                           *)

SchemaOK(s) ==
  /\ s = [fields |-> s.fields, extra |-> s.extra]
  /\ s.extra \in {"refused", "allowed"}
  /\ \A k \in DOMAIN s.fields : s.fields[k] \in FieldTypes

PayloadAsked(p, s) ==
  /\ {k \in DOMAIN s.fields : s.fields[k].required} \subseteq DOMAIN p
  /\ s.extra # "allowed" => DOMAIN p \subseteq DOMAIN s.fields
  /\ \A k \in DOMAIN p \cap DOMAIN s.fields :
        /\ p[k] = "null" => s.fields[k].null
        /\ s.fields[k].type = "integer" => p[k] \in {"int", "null"}
NullsSpelt(p, s) == \A k \in DOMAIN p : PermitsNull(s, k) => p[k] \notin {"nullword", "naword"}
Unspelt(got, said) == got = said \/ (got = "null" /\ said \in {"nullword", "naword"})
PayloadHeard(p, text) ==
  \A k \in DOMAIN p : \E i \in DOMAIN text :
     /\ text[i].k = k
     /\ \/ p[k] = text[i].v
        \/ p[k] = "null" /\ text[i].v \in {"nullword", "naword"}
        \/ p[k] = "cut" /\ text[i].v \in {"said", "half"}

LEMMA StrictSchemas == ASSUME NEW s \in Schemas PROVE SchemaOK(Strictened(s))
<1>1. /\ s = [fields |-> s.fields, extra |-> s.extra]
      /\ s.extra \in {"unset", "refused", "allowed"}
      /\ \A k \in DOMAIN s.fields : s.fields[k] \in FieldTypes
  BY ModelAssumption
<1>2. CASE s.extra = "unset"
  <2>1. Strictened(s) = [fields |-> s.fields, extra |-> "refused"]
    BY <1>1, <1>2 DEF Strictened
  <2>. QED BY <1>1, <2>1 DEF SchemaOK
<1>3. CASE s.extra # "unset"
  BY <1>1, <1>3 DEF Strictened, SchemaOK
<1>. QED BY <1>2, <1>3

LEMMA ValidIsAsked ==
  ASSUME NEW e, NEW s, SchemaOK(s), NEW o, o = ValidateAgainstSchema(e, s)
  PROVE  /\ o.kind \in {"", "schema"}
         /\ o.kind # "" => o.payload = <<>>
         /\ o.kind = "" => /\ PayloadAsked(o.payload, s) /\ NullsSpelt(o.payload, s)
                           /\ DOMAIN o.payload = DOMAIN e
                           /\ \A k \in DOMAIN e : Unspelt(o.payload[k], e[k])
<1>0. PICK p : p = NormaliseNullables(e, s)
  OBVIOUS
<1>. DEFINE errors == {k \in DOMAIN s.fields \ DOMAIN p : s.fields[k].required}
                      \cup {k \in DOMAIN p \ DOMAIN s.fields : s.extra = "refused"}
                      \cup {k \in DOMAIN p \cap DOMAIN s.fields : ~HasType(p[k], s.fields[k])}
<1>1. o = IF errors = {} THEN [kind |-> "", payload |-> p] ELSE Rejected
  BY <1>0 DEF ValidateAgainstSchema
<1>2. CASE errors # {}
  <2>. HIDE DEF errors
  <2>1. o = [kind |-> "schema", payload |-> <<>>]
    BY <1>1, <1>2 DEF Rejected
  <2>. QED BY <2>1
<1>3. CASE errors = {}
  <2>1. o = [kind |-> "", payload |-> p]
    BY <1>1, <1>3
  <2>2. p = [k \in DOMAIN e |-> IF e[k] \in {"nullword", "naword"} /\ PermitsNull(s, k) THEN "null" ELSE e[k]]
    BY <1>0 DEF NormaliseNullables
  <2>3. DOMAIN p = DOMAIN e /\ \A k \in DOMAIN e : Unspelt(p[k], e[k])
    BY <2>2 DEF Unspelt
  <2>4. NullsSpelt(p, s)
    BY <2>2 DEF NullsSpelt
  <2>5. {k \in DOMAIN s.fields : s.fields[k].required} \subseteq DOMAIN p
    BY <1>3
  <2>6. s.extra # "allowed" => DOMAIN p \subseteq DOMAIN s.fields
    BY <1>3 DEF SchemaOK
  <2>7. ASSUME NEW k \in DOMAIN p \cap DOMAIN s.fields
        PROVE  /\ p[k] = "null" => s.fields[k].null
               /\ s.fields[k].type = "integer" => p[k] \in {"int", "null"}
    <3>1. HasType(p[k], s.fields[k])
      BY <1>3
    <3>2. s.fields[k].type \in {"integer", "number", "boolean", "string"}
      BY DEF SchemaOK, FieldTypes
    <3>. QED BY <3>1, <3>2 DEF HasType
  <2>8. PayloadAsked(p, s)
    BY <2>5, <2>6, <2>7 DEF PayloadAsked
  <2>. HIDE DEF errors
  <2>9. o.kind = "" /\ o.payload = p
    <3>1. [kind |-> "", payload |-> p].kind = "" /\ [kind |-> "", payload |-> p].payload = p
      OBVIOUS
    <3>. QED BY <2>1, <3>1
  <2>. QED BY <2>3, <2>4, <2>8, <2>9
<1>. QED BY <1>2, <1>3

\* What the payload keeps of a text that was repaired was said.
LEMMA HeardThroughRepair ==
  ASSUME NEW text, NEW u, IsSeq(u),
         \A i \in DOMAIN u : u[i].t = "pair" =>
            \E j \in DOMAIN text : From(text[j], u[i]) /\ (u[i].v = "half" => u[i] = text[j]),
         NEW p, DOMAIN p = DOMAIN Loaded(u),
         \A k \in DOMAIN p : \E w : Unspelt(p[k], w) /\ Unspelt(w, Loaded(u)[k])
  PROVE  PayloadHeard(p, text)
<1>. SUFFICES ASSUME NEW k \in DOMAIN p
              PROVE  \E i \in DOMAIN text :
                        /\ text[i].k = k
                        /\ \/ p[k] = text[i].v
                           \/ p[k] = "null" /\ text[i].v \in {"nullword", "naword"}
                           \/ p[k] = "cut" /\ text[i].v \in {"said", "half"}
  BY DEF PayloadHeard
<1>1. PICK i \in DOMAIN u : u[i].t = "pair" /\ u[i].k = k /\ Loaded(u)[k] = u[i].v
  BY LoadedIsSaid DEF IsSeq
<1>2. PICK j \in DOMAIN text : From(text[j], u[i]) /\ (u[i].v = "half" => u[i] = text[j])
  BY <1>1
<1>3. Unspelt(p[k], u[i].v)
  BY <1>1 DEF Unspelt
<1>. QED BY <1>1, <1>2, <1>3 DEF From, Unspelt

AnswerOK(o, s, text) ==
  o.kind = "" => PayloadAsked(o.payload, s) /\ NullsSpelt(o.payload, s) /\ PayloadHeard(o.payload, text)

LEMMA ReplyText == ASSUME NEW r \in Replies PROVE IsSeq(r.text) /\ r.fault \in Faults
BY ModelAssumption DEF IsSeq

LEMMA FaultHasKind ==
  ASSUME NEW f \in Faults, f # ""
  PROVE  /\ (IF f = "unknown" THEN "unknown" ELSE ZaiKindOf(f)) # ""
         /\ (IF f = "unknown" THEN "unknown" ELSE ClaudeKindOf(f)) \notin {"", "budget_exhausted"}
BY DEF Faults, ZaiKindOf, ClaudeKindOf

LEMMA FaultsAreNone ==
  ASSUME NEW kind, kind # "", NEW s, NEW text
  PROVE  AnswerOK(Fault(kind), s, text) /\ AnswerOK(Rejected, s, text)
         /\ Fault(kind).kind = kind /\ Rejected.kind = "schema"
BY DEF Fault, Rejected, AnswerOK

\* What is checked and may be an answer, of a text whose pairs were said.
LEMMA CheckedIsOK ==
  ASSUME NEW text, NEW u, IsSeq(u),
         \A i \in DOMAIN u : u[i].t = "pair" =>
            \E j \in DOMAIN text : From(text[j], u[i]) /\ (u[i].v = "half" => u[i] = text[j]),
         NEW e, DOMAIN e = DOMAIN Loaded(u), \A k \in DOMAIN e : Unspelt(e[k], Loaded(u)[k]),
         NEW s, SchemaOK(s)
  PROVE  AnswerOK(ValidateAgainstSchema(e, s), s, text) /\ ValidateAgainstSchema(e, s).kind \in {"", "schema"}
<1>1. PICK o : o = ValidateAgainstSchema(e, s)
  OBVIOUS
<1>2. /\ o.kind \in {"", "schema"}
      /\ o.kind = "" => /\ PayloadAsked(o.payload, s) /\ NullsSpelt(o.payload, s)
                        /\ DOMAIN o.payload = DOMAIN e
                        /\ \A k \in DOMAIN e : Unspelt(o.payload[k], e[k])
  BY <1>1, ValidIsAsked
<1>3. ASSUME o.kind = "" PROVE PayloadHeard(o.payload, text)
  <2>1. PICK p : p = o.payload
    OBVIOUS
  <2>2. DOMAIN p = DOMAIN e /\ \A k \in DOMAIN e : Unspelt(p[k], e[k])
    BY <1>2, <1>3, <2>1
  <2>3. DOMAIN p = DOMAIN Loaded(u) /\ \A k \in DOMAIN p : \E w : Unspelt(p[k], w) /\ Unspelt(w, Loaded(u)[k])
    BY <2>2
  <2>4. PayloadHeard(p, text)
    BY <2>3, HeardThroughRepair
  <2>. QED BY <2>1, <2>4
<1>. QED BY <1>1, <1>2, <1>3 DEF AnswerOK

LEMMA ForcedIsOK ==
  ASSUME NEW r \in Replies, NEW s, SchemaOK(s)
  PROVE  AnswerOK(ForcedCall(r, s), s, r.text)
<1>1. IsSeq(r.text) /\ r.fault \in Faults
  BY ReplyText
<1>. DEFINE kind == IF r.fault = "unknown" THEN "unknown" ELSE ZaiKindOf(r.fault)
            none == IF r.finish = "length" THEN "budget_exhausted" ELSE "no_tool_call"
            said == IF r.call THEN r.text ELSE TemplatedCall(r.text)
            u == SanitiseArguments(said)
            e == UnstringNulls(Loaded(u))
            prose == ~r.call /\ ArgPairs(r.text) = <<>>
<1>2. CASE r.fault # ""
  <2>1. ForcedCall(r, s) = Fault(kind)
    BY <1>2 DEF ForcedCall
  <2>2. kind # ""
    BY <1>1, <1>2, FaultHasKind
  <2>. QED BY <2>1, <2>2, FaultsAreNone
<1>3. CASE r.fault = "" /\ ~r.choices
  <2>1. ForcedCall(r, s) = Fault("empty")
    BY <1>3 DEF ForcedCall
  <2>. QED BY <2>1, FaultsAreNone
<1>4. CASE r.fault = "" /\ r.choices /\ prose
  <2>1. ForcedCall(r, s) = Fault(none)
    BY <1>4 DEF ForcedCall
  <2>2. none # ""
    OBVIOUS
  <2>. QED BY <2>1, <2>2, FaultsAreNone
<1>5. CASE r.fault = "" /\ r.choices /\ ~prose
  <2>1. ForcedCall(r, s) = IF WellFormed(u) THEN ValidateAgainstSchema(e, s) ELSE Rejected
    BY <1>5 DEF ForcedCall
  <2>2. /\ IsSeq(said)
        /\ \A j \in DOMAIN said : \/ said[j] \in {Token("open"), Token("comma"), Token("close")}
                                  \/ \E l \in DOMAIN r.text : said[j] = r.text[l]
    <3>1. CASE r.call
      BY <1>1, <3>1
    <3>2. CASE ~r.call
      BY <1>1, <3>2, TemplatedIsSaid DEF IsSeq
    <3>. QED BY <3>1, <3>2
  <2>3. PICK w : w = u
    OBVIOUS
  <2>4. IsSeq(w) /\ \A i \in DOMAIN w : /\ w[i].v # "half"
                                        /\ w[i] = Token("close") \/ \E j \in DOMAIN said : From(said[j], w[i])
    <3>. HIDE DEF said
    <3>. QED BY <2>2, <2>3, SanitisedIsSaid DEF IsSeq
  <2>5. ASSUME NEW i \in DOMAIN w, w[i].t = "pair"
        PROVE  \E j \in DOMAIN r.text : From(r.text[j], w[i]) /\ (w[i].v = "half" => w[i] = r.text[j])
    <3>. HIDE DEF said
    <3>1. w[i] # Token("close") /\ w[i].v # "half"
      <4>1. Token("close").t = "close"
        BY DEF Token
      <4>. QED BY <2>4, <2>5, <4>1
    <3>2. PICK j \in DOMAIN said : From(said[j], w[i])
      BY <2>4, <3>1
    <3>3. said[j] \notin {Token("open"), Token("comma"), Token("close")}
      <4>1. /\ Token("open").t # "pair" /\ Token("open").v = ""
            /\ Token("comma").t # "pair" /\ Token("comma").v = ""
            /\ Token("close").t # "pair" /\ Token("close").v = ""
        BY DEF Token
      <4>. QED BY <2>5, <3>2, <4>1 DEF From
    <3>4. PICK l \in DOMAIN r.text : said[j] = r.text[l]
      BY <2>2, <3>3
    <3>. QED BY <3>1, <3>2, <3>4
  <2>6. PICK x : x = UnstringNulls(Loaded(w))
    OBVIOUS
  <2>7. DOMAIN x = DOMAIN Loaded(w) /\ \A k \in DOMAIN x : Unspelt(x[k], Loaded(w)[k])
    BY <2>6 DEF UnstringNulls, Unspelt
  <2>8. AnswerOK(ValidateAgainstSchema(x, s), s, r.text)
    BY <2>4, <2>5, <2>7, CheckedIsOK
  <2>9. ForcedCall(r, s) = IF WellFormed(w) THEN ValidateAgainstSchema(x, s) ELSE Rejected
    BY <2>1, <2>3, <2>6
  <2>10. AnswerOK(Rejected, s, r.text)
    BY DEF AnswerOK, Rejected
  <2>. QED BY <2>8, <2>9, <2>10
<1>6. {r.choices, r.call} \subseteq BOOLEAN
  BY ModelAssumption
<1>. QED BY <1>2, <1>3, <1>4, <1>5, <1>6

LEMMA ClaudeIsOK ==
  ASSUME NEW r \in Replies, NEW s, SchemaOK(s)
  PROVE  AnswerOK(ClaudeCall(r, s), s, r.text) /\ ClaudeCall(r, s).kind # "budget_exhausted"
<1>1. IsSeq(r.text) /\ r.fault \in Faults
  BY ReplyText
<1>. DEFINE kind == IF r.fault = "unknown" THEN "unknown" ELSE ClaudeKindOf(r.fault)
<1>2. CASE r.fault # ""
  <2>1. ClaudeCall(r, s) = Fault(kind)
    BY <1>2 DEF ClaudeCall
  <2>2. kind \notin {"", "budget_exhausted"}
    BY <1>1, <1>2, FaultHasKind
  <2>. HIDE DEF kind
  <2>. QED BY <2>1, <2>2, FaultsAreNone
<1>3. CASE r.fault = "" /\ r.finish = "refusal"
  <2>1. ClaudeCall(r, s) = Fault("refusal")
    BY <1>3 DEF ClaudeCall
  <2>. QED BY <2>1, FaultsAreNone
<1>4. CASE r.fault = "" /\ r.finish # "refusal" /\ r.text = <<>>
  <2>1. ClaudeCall(r, s) = Fault("empty")
    BY <1>4 DEF ClaudeCall
  <2>. QED BY <2>1, FaultsAreNone
<1>5. CASE r.fault = "" /\ r.finish # "refusal" /\ r.text # <<>>
  <2>1. ClaudeCall(r, s) = IF WellFormed(r.text) THEN ValidateAgainstSchema(Loaded(r.text), s) ELSE Rejected
    BY <1>5 DEF ClaudeCall
  <2>2. PICK w : w = r.text
    OBVIOUS
  <2>3. \A i \in DOMAIN w : \E j \in DOMAIN w : From(w[j], w[i]) /\ w[i] = w[j]
    BY DEF From
  <2>4. PICK x : x = Loaded(w)
    OBVIOUS
  <2>5. \A k \in DOMAIN x : Unspelt(x[k], Loaded(w)[k])
    BY <2>4 DEF Unspelt
  <2>6. AnswerOK(ValidateAgainstSchema(x, s), s, w) /\ ValidateAgainstSchema(x, s).kind \in {"", "schema"}
    BY <1>1, <2>2, <2>3, <2>4, <2>5, CheckedIsOK
  <2>7. AnswerOK(Rejected, s, w) /\ Rejected.kind = "schema"
    BY DEF AnswerOK, Rejected
  <2>. QED BY <2>1, <2>2, <2>4, <2>6, <2>7
<1>. QED BY <1>2, <1>3, <1>4, <1>5

-----------------------------------------------------------------------------
(* The requests of one call.  Which may follow which is a matter of a few  *)
(* sequences; how many were made follows from them.                        *)

Plain == Request(FALSE, "on")
ToldOf == Request(TRUE, "on")
Spare == Request(FALSE, "off")
Both == Request(TRUE, "off")

\* A call has sent these, and is about to send that.
Chain(b, sent, req) ==
  \/ sent = <<>> /\ req = Plain
  \/ b = "zai" /\ sent = <<Plain>> /\ req \in {ToldOf, Spare}
  \/ b = "zai" /\ sent = <<Plain, ToldOf>> /\ req = Both
Spent == {<<Plain, Spare>>, <<Plain, ToldOf, Both>>}
Histories == {<<>>, <<Plain>>, <<Plain, ToldOf>>} \cup Spent

LEMMA RequestsAre ==
  /\ Plain # ToldOf /\ Plain # Spare /\ Plain # Both /\ ToldOf # Spare /\ ToldOf # Both /\ Spare # Both
  /\ Plain # NoMore /\ ToldOf # NoMore /\ Spare # NoMore /\ Both # NoMore
  /\ Plain.thinking = "on" /\ ToldOf.thinking = "on" /\ Spare.thinking = "off" /\ Both.thinking = "off"
  /\ Plain.complaint = FALSE /\ ToldOf.complaint = TRUE
BY DEF Plain, ToldOf, Spare, Both, NoMore, Request

LEMMA WhatFollows ==
  ASSUME NEW kind
  PROVE  /\ AfterFirst(kind, Plain) = IF kind \in {"schema", "no_tool_call"} THEN ToldOf
                                      ELSE IF kind = "budget_exhausted" THEN Spare ELSE NoMore
         /\ AfterCorrection(kind, ToldOf) = IF kind = "budget_exhausted" THEN Both ELSE NoMore
<1>1. /\ Request(TRUE, Plain.thinking) = ToldOf /\ Request(Plain.complaint, "off") = Spare
      /\ Request(ToldOf.complaint, "off") = Both
  BY RequestsAre, Zenon DEF ToldOf, Spare, Both
<1>2. CASE kind \in {"schema", "no_tool_call"}
  BY <1>1, <1>2 DEF AfterFirst, AfterCorrection
<1>3. CASE kind = "budget_exhausted"
  BY <1>1, <1>3 DEF AfterFirst, AfterCorrection
<1>4. CASE kind \notin {"schema", "no_tool_call", "budget_exhausted"}
  BY <1>4 DEF AfterFirst, AfterCorrection
<1>. QED BY <1>2, <1>3, <1>4

LEMMA ShortSequences ==
  ASSUME NEW x, NEW y, NEW z
  PROVE  /\ Append(<<>>, x) = <<x>> /\ Append(<<x>>, y) = <<x, y>> /\ Append(<<x, y>>, z) = <<x, y, z>>
         /\ Len(<<>>) = 0 /\ Len(<<x>>) = 1 /\ Len(<<x, y>>) = 2 /\ Len(<<x, y, z>>) = 3
         /\ <<x>> # <<>> /\ <<x, y>> # <<>> /\ <<x, y, z>> # <<>>
<1>1. Len(<<>>) = 0 /\ Len(<<x>>) = 1 /\ Len(<<x, y>>) = 2 /\ Len(<<x, y, z>>) = 3
  OBVIOUS
<1>2. Append(<<>>, x) = <<x>>
  OBVIOUS
<1>3. Append(<<x>>, y) = <<x, y>>
  <2>1. <<x>> \in Seq({x, y}) /\ y \in {x, y} /\ <<x, y>> \in Seq({x, y})
    OBVIOUS
  <2>2. /\ Append(<<x>>, y) \in Seq({x, y}) /\ Len(Append(<<x>>, y)) = 2
        /\ Append(<<x>>, y)[1] = x /\ Append(<<x>>, y)[2] = y
    <3>1. Len(<<x>>) = 1 /\ <<x>>[1] = x
      OBVIOUS
    <3>. QED BY <2>1, <3>1, AppendProperties
  <2>3. Len(<<x, y>>) = 2 /\ <<x, y>>[1] = x /\ <<x, y>>[2] = y
    OBVIOUS
  <2>4. PICK a \in Seq({x, y}), b \in Seq({x, y}) : a = Append(<<x>>, y) /\ b = <<x, y>>
    BY <2>1, <2>2
  <2>5. Len(a) = 2 /\ Len(b) = 2 /\ \A i \in 1..2 : a[i] = b[i]
    BY <2>2, <2>3, <2>4
  <2>6. a = b
    BY <2>5, SeqEqual
  <2>. QED BY <2>4, <2>6
<1>4. Append(<<x, y>>, z) = <<x, y, z>>
  <2>1. <<x, y>> \in Seq({x, y, z}) /\ z \in {x, y, z} /\ <<x, y, z>> \in Seq({x, y, z})
    OBVIOUS
  <2>2. /\ Append(<<x, y>>, z) \in Seq({x, y, z}) /\ Len(Append(<<x, y>>, z)) = 3
        /\ Append(<<x, y>>, z)[1] = x /\ Append(<<x, y>>, z)[2] = y /\ Append(<<x, y>>, z)[3] = z
    <3>1. Len(<<x, y>>) = 2 /\ <<x, y>>[1] = x /\ <<x, y>>[2] = y
      OBVIOUS
    <3>. QED BY <2>1, <3>1, AppendProperties
  <2>3. Len(<<x, y, z>>) = 3 /\ <<x, y, z>>[1] = x /\ <<x, y, z>>[2] = y /\ <<x, y, z>>[3] = z
    OBVIOUS
  <2>4. PICK a \in Seq({x, y, z}), b \in Seq({x, y, z}) : a = Append(<<x, y>>, z) /\ b = <<x, y, z>>
    BY <2>1, <2>2
  <2>5. Len(a) = 3 /\ Len(b) = 3 /\ \A i \in 1..3 : a[i] = b[i]
    BY <2>2, <2>3, <2>4
  <2>6. a = b
    BY <2>5, SeqEqual
  <2>. QED BY <2>4, <2>6
<1>5. <<x>> # <<>> /\ <<x, y>> # <<>> /\ <<x, y, z>> # <<>>
  BY <1>1
<1>. QED BY <1>1, <1>2, <1>3, <1>4, <1>5

LEMMA NextIs ==
  ASSUME NEW kind, NEW sent, NEW req, Chain(setup.backend, sent, req), setup.backend \in {"zai", "anthropic"},
         NEW next, next = NextRequest(kind, req)
  PROVE  /\ Append(sent, req) \in Histories \ {<<>>} /\ Len(sent) \in 0..2
         /\ Len(Append(sent, req)) = Len(sent) + 1
         /\ next # NoMore => Chain(setup.backend, Append(sent, req), next) /\ setup.backend = "zai" /\ kind # ""
         /\ next = NoMore /\ kind = "budget_exhausted" /\ setup.backend = "zai" => Append(sent, req) \in Spent
         /\ setup.backend = "anthropic" => next = NoMore /\ Len(sent) = 0
<1>1. CASE sent = <<>> /\ req = Plain
  <2>1. Append(sent, req) = <<Plain>> /\ Len(sent) = 0 /\ Len(Append(sent, req)) = 1
    BY <1>1, ShortSequences
  <2>2. Append(sent, req) \in Histories \ {<<>>}
    BY <2>1, ShortSequences DEF Histories
  <2>3. next = IF kind = "" \/ setup.backend = "anthropic" THEN NoMore ELSE AfterFirst(kind, Plain)
    BY <1>1, RequestsAre DEF NextRequest
  <2>4. next # NoMore => setup.backend = "zai" /\ kind # "" /\ next \in {ToldOf, Spare}
    BY <2>3, WhatFollows, RequestsAre
  <2>5. next = NoMore /\ kind = "budget_exhausted" => setup.backend = "anthropic"
    BY <2>3, WhatFollows, RequestsAre
  <2>6. next # NoMore => Chain(setup.backend, Append(sent, req), next)
    BY <2>1, <2>4 DEF Chain
  <2>7. Len(sent) \in 0..2 /\ Len(Append(sent, req)) = Len(sent) + 1
    BY <2>1
  <2>8. setup.backend = "anthropic" => next = NoMore
    BY <2>3
  <2>. QED BY <2>1, <2>2, <2>4, <2>5, <2>6, <2>7, <2>8
<1>2. CASE setup.backend = "zai" /\ sent = <<Plain>> /\ req = ToldOf
  <2>1. Append(sent, req) = <<Plain, ToldOf>> /\ Len(sent) = 1 /\ Len(Append(sent, req)) = 2
    BY <1>2, ShortSequences
  <2>2. Append(sent, req) \in Histories \ {<<>>}
    BY <2>1, ShortSequences DEF Histories
  <2>3. next = IF kind = "" THEN NoMore ELSE AfterCorrection(kind, ToldOf)
    BY <1>2, RequestsAre DEF NextRequest
  <2>4. next # NoMore => kind # "" /\ next = Both
    BY <2>3, WhatFollows, RequestsAre
  <2>5. kind = "budget_exhausted" => next # NoMore
    BY <2>3, WhatFollows, RequestsAre
  <2>6. next # NoMore => Chain(setup.backend, Append(sent, req), next)
    BY <1>2, <2>1, <2>4 DEF Chain
  <2>7. Len(sent) \in 0..2 /\ Len(Append(sent, req)) = Len(sent) + 1
    BY <2>1
  <2>. QED BY <1>2, <2>2, <2>4, <2>5, <2>6, <2>7
<1>3. CASE setup.backend = "zai" /\ sent = <<Plain>> /\ req = Spare
  <2>1. Append(sent, req) = <<Plain, Spare>> /\ Len(sent) = 1 /\ Len(Append(sent, req)) = 2
    BY <1>3, ShortSequences
  <2>2. Append(sent, req) \in Histories \ {<<>>} /\ Append(sent, req) \in Spent
    BY <2>1, ShortSequences DEF Histories, Spent
  <2>3. next = NoMore
    BY <1>3, RequestsAre DEF NextRequest
  <2>. QED BY <1>3, <2>1, <2>2, <2>3
<1>4. CASE setup.backend = "zai" /\ sent = <<Plain, ToldOf>> /\ req = Both
  <2>1. Append(sent, req) = <<Plain, ToldOf, Both>> /\ Len(sent) = 2 /\ Len(Append(sent, req)) = 3
    BY <1>4, ShortSequences
  <2>2. Append(sent, req) \in Histories \ {<<>>} /\ Append(sent, req) \in Spent
    BY <2>1, ShortSequences DEF Histories, Spent
  <2>3. next = NoMore
    BY <1>4, RequestsAre DEF NextRequest
  <2>. QED BY <1>4, <2>1, <2>2, <2>3
<1>. QED BY <1>1, <1>2, <1>3, <1>4 DEF Chain

-----------------------------------------------------------------------------
(* The invariant, one caller at a time.                                    *)

K(phase, calls, schema, req, sent, heard, answer, payload) ==
  [at |-> phase, calls |-> calls, schema |-> schema, req |-> req, sent |-> sent, heard |-> heard,
   answer |-> answer, payload |-> payload]
LEMMA KIs ==
  ASSUME NEW phase, NEW calls, NEW schema, NEW req, NEW sent, NEW heard, NEW answer, NEW payload,
         NEW k, k = K(phase, calls, schema, req, sent, heard, answer, payload)
  PROVE  /\ k.at = phase /\ k.calls = calls /\ k.schema = schema /\ k.req = req /\ k.sent = sent
         /\ k.heard = heard /\ k.answer = answer /\ k.payload = payload
         /\ k = K(k.at, k.calls, k.schema, k.req, k.sent, k.heard, k.answer, k.payload)
BY DEF K

LEMMA SetAt ==
  ASSUME NEW phase, NEW calls, NEW schema, NEW req, NEW sent, NEW heard, NEW answer, NEW payload, NEW v,
         NEW k, k = K(phase, calls, schema, req, sent, heard, answer, payload)
  PROVE  [k EXCEPT !.at = v] = K(v, calls, schema, req, sent, heard, answer, payload)
BY DEF K
LEMMA SetCalls ==
  ASSUME NEW phase, NEW calls, NEW schema, NEW req, NEW sent, NEW heard, NEW answer, NEW payload, NEW v,
         NEW k, k = K(phase, calls, schema, req, sent, heard, answer, payload)
  PROVE  [k EXCEPT !.calls = v] = K(phase, v, schema, req, sent, heard, answer, payload)
BY DEF K
LEMMA SetSchema ==
  ASSUME NEW phase, NEW calls, NEW schema, NEW req, NEW sent, NEW heard, NEW answer, NEW payload, NEW v,
         NEW k, k = K(phase, calls, schema, req, sent, heard, answer, payload)
  PROVE  [k EXCEPT !.schema = v] = K(phase, calls, v, req, sent, heard, answer, payload)
BY DEF K
LEMMA SetReq ==
  ASSUME NEW phase, NEW calls, NEW schema, NEW req, NEW sent, NEW heard, NEW answer, NEW payload, NEW v,
         NEW k, k = K(phase, calls, schema, req, sent, heard, answer, payload)
  PROVE  [k EXCEPT !.req = v] = K(phase, calls, schema, v, sent, heard, answer, payload)
BY DEF K
LEMMA SetSent ==
  ASSUME NEW phase, NEW calls, NEW schema, NEW req, NEW sent, NEW heard, NEW answer, NEW payload, NEW v,
         NEW k, k = K(phase, calls, schema, req, sent, heard, answer, payload)
  PROVE  [k EXCEPT !.sent = v] = K(phase, calls, schema, req, v, heard, answer, payload)
BY DEF K
LEMMA SetHeard ==
  ASSUME NEW phase, NEW calls, NEW schema, NEW req, NEW sent, NEW heard, NEW answer, NEW payload, NEW v,
         NEW k, k = K(phase, calls, schema, req, sent, heard, answer, payload)
  PROVE  [k EXCEPT !.heard = v] = K(phase, calls, schema, req, sent, v, answer, payload)
BY DEF K
LEMMA SetAnswer ==
  ASSUME NEW phase, NEW calls, NEW schema, NEW req, NEW sent, NEW heard, NEW answer, NEW payload, NEW v,
         NEW k, k = K(phase, calls, schema, req, sent, heard, answer, payload)
  PROVE  [k EXCEPT !.answer = v] = K(phase, calls, schema, req, sent, heard, v, payload)
BY DEF K
LEMMA SetPayload ==
  ASSUME NEW phase, NEW calls, NEW schema, NEW req, NEW sent, NEW heard, NEW answer, NEW payload, NEW v,
         NEW k, k = K(phase, calls, schema, req, sent, heard, answer, payload)
  PROVE  [k EXCEPT !.payload = v] = K(phase, calls, schema, req, sent, heard, answer, v)
BY DEF K

\* The updates of a call, as the actions make them.
Opening(k, n, s, e, a) == [k EXCEPT !.calls = n, !.schema = s, !.sent = e, !.heard = e, !.answer = a, !.payload = e]
Beginning(k, a, q, s) == [k EXCEPT !.at = a, !.req = q, !.schema = s]
Making(k, s, q) == [k EXCEPT !.sent = s, !.req = q]
Ending(k, a, p, h, w) == [k EXCEPT !.at = a, !.payload = p, !.heard = h, !.answer = w]
Raising(k) == [k EXCEPT !.answer = "raised"]
LEMMA OpenedIs ==
  ASSUME NEW phase, NEW calls, NEW schema, NEW req, NEW sent, NEW heard, NEW answer, NEW payload,
         NEW n, NEW s, NEW e, NEW a, NEW k, k = K(phase, calls, schema, req, sent, heard, answer, payload)
  PROVE  Opening(k, n, s, e, a) = K(phase, n, s, req, e, e, a, e)
<1>1. PICK k1 : k1 = [k EXCEPT !.calls = n]
  OBVIOUS
<1>2. k1 = K(phase, n, schema, req, sent, heard, answer, payload)
  BY <1>1, SetCalls
<1>3. PICK k2 : k2 = [k1 EXCEPT !.schema = s]
  OBVIOUS
<1>4. k2 = K(phase, n, s, req, sent, heard, answer, payload)
  BY <1>2, <1>3, SetSchema
<1>5. PICK k3 : k3 = [k2 EXCEPT !.sent = e]
  OBVIOUS
<1>6. k3 = K(phase, n, s, req, e, heard, answer, payload)
  BY <1>4, <1>5, SetSent
<1>7. PICK k4 : k4 = [k3 EXCEPT !.heard = e]
  OBVIOUS
<1>8. k4 = K(phase, n, s, req, e, e, answer, payload)
  BY <1>6, <1>7, SetHeard
<1>9. PICK k5 : k5 = [k4 EXCEPT !.answer = a]
  OBVIOUS
<1>10. k5 = K(phase, n, s, req, e, e, a, payload)
  BY <1>8, <1>9, SetAnswer
<1>11. PICK k6 : k6 = [k5 EXCEPT !.payload = e]
  OBVIOUS
<1>12. k6 = K(phase, n, s, req, e, e, a, e)
  BY <1>10, <1>11, SetPayload
<1>. QED BY <1>1, <1>3, <1>5, <1>7, <1>9, <1>11, <1>12 DEF Opening
LEMMA RaisedIs ==
  ASSUME NEW phase, NEW calls, NEW schema, NEW req, NEW sent, NEW heard, NEW answer, NEW payload,
         NEW k, k = K(phase, calls, schema, req, sent, heard, answer, payload)
  PROVE  Raising(k) = K(phase, calls, schema, req, sent, heard, "raised", payload)
BY DEF K, Raising
LEMMA BegunIs ==
  ASSUME NEW phase, NEW calls, NEW schema, NEW req, NEW sent, NEW heard, NEW answer, NEW payload,
         NEW a, NEW q, NEW s, NEW k, k = K(phase, calls, schema, req, sent, heard, answer, payload)
  PROVE  Beginning(k, a, q, s) = K(a, calls, s, q, sent, heard, answer, payload)
<1>1. PICK k1 : k1 = [k EXCEPT !.at = a]
  OBVIOUS
<1>2. k1 = K(a, calls, schema, req, sent, heard, answer, payload)
  BY <1>1, SetAt
<1>3. PICK k2 : k2 = [k1 EXCEPT !.req = q]
  OBVIOUS
<1>4. k2 = K(a, calls, schema, q, sent, heard, answer, payload)
  BY <1>2, <1>3, SetReq
<1>5. PICK k3 : k3 = [k2 EXCEPT !.schema = s]
  OBVIOUS
<1>6. k3 = K(a, calls, s, q, sent, heard, answer, payload)
  BY <1>4, <1>5, SetSchema
<1>. QED BY <1>1, <1>3, <1>5, <1>6 DEF Beginning
LEMMA MadeIs ==
  ASSUME NEW phase, NEW calls, NEW schema, NEW req, NEW sent, NEW heard, NEW answer, NEW payload,
         NEW s, NEW q, NEW k, k = K(phase, calls, schema, req, sent, heard, answer, payload)
  PROVE  Making(k, s, q) = K(phase, calls, schema, q, s, heard, answer, payload)
<1>1. PICK k1 : k1 = [k EXCEPT !.sent = s]
  OBVIOUS
<1>2. k1 = K(phase, calls, schema, req, s, heard, answer, payload)
  BY <1>1, SetSent
<1>3. PICK k2 : k2 = [k1 EXCEPT !.req = q]
  OBVIOUS
<1>4. k2 = K(phase, calls, schema, q, s, heard, answer, payload)
  BY <1>2, <1>3, SetReq
<1>. QED BY <1>1, <1>3, <1>4 DEF Making
LEMMA EndedIs ==
  ASSUME NEW phase, NEW calls, NEW schema, NEW req, NEW sent, NEW heard, NEW answer, NEW payload,
         NEW a, NEW p, NEW h, NEW w, NEW k, k = K(phase, calls, schema, req, sent, heard, answer, payload)
  PROVE  Ending(k, a, p, h, w) = K(a, calls, schema, req, sent, h, w, p)
<1>1. PICK k1 : k1 = [k EXCEPT !.at = a]
  OBVIOUS
<1>2. k1 = K(a, calls, schema, req, sent, heard, answer, payload)
  BY <1>1, SetAt
<1>3. PICK k2 : k2 = [k1 EXCEPT !.payload = p]
  OBVIOUS
<1>4. k2 = K(a, calls, schema, req, sent, heard, answer, p)
  BY <1>2, <1>3, SetPayload
<1>5. PICK k3 : k3 = [k2 EXCEPT !.heard = h]
  OBVIOUS
<1>6. k3 = K(a, calls, schema, req, sent, h, answer, p)
  BY <1>4, <1>5, SetHeard
<1>7. PICK k4 : k4 = [k3 EXCEPT !.answer = w]
  OBVIOUS
<1>8. k4 = K(a, calls, schema, req, sent, h, w, p)
  BY <1>6, <1>7, SetAnswer
<1>. QED BY <1>1, <1>3, <1>5, <1>7, <1>8 DEF Ending

\* A call under way: its requests so far, each of them on its account, and nothing said of it yet.
Under(b, k, t, f, l) ==
  /\ k.answer = "none" /\ k.payload = <<>> /\ k.calls \in 1..MaxCalls /\ SchemaOK(k.schema)
  /\ Chain(b, k.sent, k.req)
  /\ t.calls = Len(k.sent) /\ (k.sent = <<>> => t.used = 0) /\ f = [kind |-> "", calls |-> 0] /\ l = <<"STARTED">>
\* A call that is over, or none yet.
Done(b, k, f, l) ==
  /\ k.calls \in 0..MaxCalls /\ k.req = NoMore /\ k.answer \in {"none", "raised", "payload"}
  /\ k.sent \in Histories
  /\ f.kind = "budget_exhausted" => k.sent \in Spent
  /\ l = IF k.sent = <<>> THEN <<>>
         ELSE IF k.answer = "payload" THEN <<"STARTED", "COMPLETED">> ELSE <<"STARTED", "FAILED">>
  /\ k.calls > 0 => ((f.kind # "" <=> k.answer = "none") /\ f.calls = Len(k.sent))
  /\ k.answer = "payload" => /\ k.sent # <<>>
                             /\ PayloadAsked(k.payload, k.schema)
                             /\ NullsSpelt(k.payload, k.schema)
                             /\ PayloadHeard(k.payload, k.heard)
\* The call under way has asked and has spent what its tally says, but is not yet recorded.
Account(special, k, t, n) ==
  /\ n = [asked |-> n.asked, spent |-> n.spent, calls |-> n.calls, tokens |-> n.tokens]
  /\ n.asked \in Nat /\ n.spent \in Nat /\ n.calls \in Nat /\ n.tokens \in Nat
  /\ ~special /\ k.at = "idle" => n.calls = n.asked /\ n.tokens = n.spent
  /\ ~special /\ k.at = "asking" => /\ n.calls + (IF k.sent = <<>> THEN 0 ELSE 1) = n.asked
                                    /\ n.tokens + t.used = n.spent
CallerOK(b, special, k, t, f, l, n) ==
  /\ k = K(k.at, k.calls, k.schema, k.req, k.sent, k.heard, k.answer, k.payload)
  /\ k.at \in {"idle", "asking"}
  /\ t = [calls |-> t.calls, used |-> t.used] /\ t.calls \in 0..3 /\ t.used \in Nat
  /\ k.at = "asking" => Under(b, k, t, f, l)
  /\ k.at = "idle" => Done(b, k, f, l)
  /\ Account(special, k, t, n)

ModelInv ==
  /\ setup \in [backend : {"zai", "anthropic"}, keyed : BOOLEAN]
  /\ DOMAIN call = Callers /\ DOMAIN tally = Callers /\ DOMAIN failure = Callers
  /\ DOMAIN line = Callers /\ DOMAIN counted = Callers
  /\ \A c \in Callers : CallerOK(setup.backend, c \in Specialists, call[c], tally[c], failure[c], line[c], counted[c])

LEMMA NothingYet ==
  /\ NoStats = [calls |-> NoStats.calls, used |-> NoStats.used]
  /\ NoStats.calls = 0 /\ NoStats.used = 0 /\ 0 \in 0..3 /\ 0 \in Nat
BY DEF NoStats

LEMMA OneMoreCall ==
  ASSUME NEW m \in Nat, NEW i \in 0..m, i < m, NEW j, j = i + 1
  PROVE  j \in 1..m /\ j \in 0..m /\ j > 0 /\ j - 1 = i
OBVIOUS

\* A structured call begins: refused at once, raised, or sent.
LEMMA BeginsOver ==
  ASSUME NEW b, NEW special, NEW k, NEW t, NEW f, NEW l, NEW n, CallerOK(b, special, k, t, f, l, n),
         k.at = "idle", k.calls < MaxCalls, NEW s, NEW a \in {"none", "raised"},
         NEW k1, k1 = K("idle", k.calls + 1, s, k.req, <<>>, <<>>, a, <<>>),
         NEW f1, f1 = [kind |-> IF a = "none" THEN "rate_limit" ELSE "", calls |-> 0], NEW l1, l1 = <<>>
  PROVE  CallerOK(b, special, k1, t, f1, l1, n)
<1>1. /\ k1.at = "idle" /\ k1.calls = k.calls + 1 /\ k1.schema = s /\ k1.req = k.req /\ k1.sent = <<>>
      /\ k1.heard = <<>> /\ k1.answer = a /\ k1.payload = <<>>
  BY DEF K
<1>1a. k1 = K(k1.at, k1.calls, k1.schema, k1.req, k1.sent, k1.heard, k1.answer, k1.payload)
  BY DEF K
<1>2. /\ Done(b, k, f, l) /\ Account(special, k, t, n)
      /\ t = [calls |-> t.calls, used |-> t.used] /\ t.calls \in 0..3 /\ t.used \in Nat
  BY DEF CallerOK
<1>3. MaxCalls \in Nat /\ k.calls \in 0..MaxCalls /\ k.req = NoMore
  BY <1>2, ModelAssumption DEF Done
<1>4. f1.calls = 0 /\ (f1.kind # "" <=> a = "none") /\ f1.kind # "budget_exhausted"
  <2>1. CASE a = "none"
    BY <2>1
  <2>2. CASE a = "raised"
    BY <2>2
  <2>. QED BY <2>1, <2>2
<1>5. k1.calls \in 1..MaxCalls /\ k1.calls \in 0..MaxCalls /\ k1.calls > 0
  <2>1. PICK m, i, j : m = MaxCalls /\ i = k.calls /\ j = k1.calls
    OBVIOUS
  <2>2. m \in Nat /\ i \in 0..m /\ i < m /\ j = i + 1
    BY <1>1, <1>3, <2>1, Zenon
  <2>. QED BY <2>1, <2>2, OneMoreCall, Zenon
<1>6. Done(b, k1, f1, l1)
  <2>1. Len(k1.sent) = 0 /\ k1.sent \in Histories
    BY <1>1 DEF Histories
  <2>2. k1.answer # "payload" /\ k1.answer \in {"none", "raised", "payload"}
    BY <1>1
  <2>. QED BY <1>1, <1>3, <1>4, <1>5, <2>1, <2>2 DEF Done
<1>7. Account(special, k1, t, n)
  <2>1. k1.at # "asking" /\ k1.at = "idle"
    BY <1>1
  <2>. QED BY <1>2, <2>1, Zenon DEF Account
<1>. QED BY <1>1, <1>1a, <1>2, <1>6, <1>7 DEF CallerOK

LEMMA BeginsSent ==
  ASSUME NEW b, NEW special, NEW k, NEW t, NEW f, NEW l, NEW n, CallerOK(b, special, k, t, f, l, n),
         k.at = "idle", k.calls < MaxCalls, NEW s, SchemaOK(s),
         NEW k1, k1 = K("asking", k.calls + 1, s, Plain, <<>>, <<>>, "none", <<>>),
         NEW f1, f1 = [kind |-> "", calls |-> 0], NEW l1, l1 = <<"STARTED">>
  PROVE  CallerOK(b, special, k1, NoStats, f1, l1, n)
<1>1. /\ k1.at = "asking" /\ k1.calls = k.calls + 1 /\ k1.schema = s /\ k1.req = Plain /\ k1.sent = <<>>
      /\ k1.heard = <<>> /\ k1.answer = "none" /\ k1.payload = <<>>
  BY DEF K
<1>1a. k1 = K(k1.at, k1.calls, k1.schema, k1.req, k1.sent, k1.heard, k1.answer, k1.payload)
  BY DEF K
<1>2. Done(b, k, f, l) /\ Account(special, k, t, n)
  BY DEF CallerOK
<1>3. MaxCalls \in Nat /\ k.calls \in 0..MaxCalls
  BY <1>2, ModelAssumption DEF Done
<1>4. k1.calls \in 1..MaxCalls
  <2>1. PICK m, i, j : m = MaxCalls /\ i = k.calls /\ j = k1.calls
    OBVIOUS
  <2>2. m \in Nat /\ i \in 0..m /\ i < m /\ j = i + 1
    BY <1>1, <1>3, <2>1, Zenon
  <2>. QED BY <2>1, <2>2, OneMoreCall, Zenon
<1>5. Len(k1.sent) = 0 /\ Chain(b, k1.sent, k1.req)
  BY <1>1 DEF Chain
<1>6. Under(b, k1, NoStats, f1, l1)
  BY <1>1, <1>4, <1>5, NothingYet DEF Under
<1>7. Account(special, k1, NoStats, n)
  <2>1. k1.at # "idle" /\ k1.sent = <<>>
    BY <1>1
  <2>2. /\ n = [asked |-> n.asked, spent |-> n.spent, calls |-> n.calls, tokens |-> n.tokens]
        /\ n.asked \in Nat /\ n.spent \in Nat /\ n.calls \in Nat /\ n.tokens \in Nat
        /\ ~special => n.calls = n.asked /\ n.tokens = n.spent
    BY <1>2, Zenon DEF Account
  <2>3. n.calls + 0 = n.calls /\ n.tokens + 0 = n.tokens
    <3>1. PICK i, j : i = n.calls /\ j = n.tokens
      OBVIOUS
    <3>2. i \in Nat /\ j \in Nat
      BY <2>2, <3>1, Zenon
    <3>3. i + 0 = i /\ j + 0 = j
      BY ONLY <3>2
    <3>. QED BY <3>1, <3>3, Zenon
  <2>4. NoStats.used = 0
    BY NothingYet
  <2>. QED BY <2>1, <2>2, <2>3, <2>4, Zenon DEF Account
<1>8. k1.at # "idle" /\ k1.at \in {"idle", "asking"}
  BY <1>1
<1>. QED BY <1>1, <1>1a, <1>6, <1>7, <1>8, NothingYet DEF CallerOK

\* A request of the call is made and is on its tally: another one follows, or the call ends.
Tallies(t, u, t1) == t1 = [calls |-> t.calls + 1, used |-> t.used + u] /\ u \in {0, 1}

LEMMA OneMoreRequest ==
  ASSUME NEW calls \in 0..2, NEW used \in Nat, NEW u \in {0, 1}, NEW asked \in Nat, NEW spent \in Nat,
         NEW told \in Nat, NEW tokens \in Nat, NEW first \in {0, 1}
  PROVE  /\ calls + 1 \in 0..3 /\ calls + 1 > 0 /\ used + u \in Nat
         /\ asked + (1 - first) \in Nat /\ spent + u \in Nat /\ told + 1 \in Nat /\ tokens + (used + u) \in Nat
         /\ told + first = asked => told + 1 = asked + (1 - first)
         /\ tokens + used = spent => tokens + (used + u) = spent + u
OBVIOUS

LEMMA UnderWayIs ==
  ASSUME NEW b, NEW special, NEW k, NEW t, NEW f, NEW l, NEW n, CallerOK(b, special, k, t, f, l, n),
         k.at = "asking", Len(k.sent) \in 0..2, NEW u, NEW t1, Tallies(t, u, t1),
         NEW asked, asked = n.asked + (IF k.sent = <<>> THEN 1 ELSE 0)
  PROVE  /\ t1 = [calls |-> t1.calls, used |-> t1.used]
         /\ t1.calls = Len(k.sent) + 1 /\ t1.calls \in 0..3 /\ t1.calls > 0 /\ t1.used \in Nat
         /\ k.calls \in 1..MaxCalls /\ k.calls \in 0..MaxCalls /\ k.calls > 0
         /\ asked \in Nat /\ n.spent + u \in Nat /\ n.calls \in Nat /\ n.tokens \in Nat
         /\ n.calls + 1 \in Nat /\ n.tokens + t1.used \in Nat
         /\ ~special => n.calls + 1 = asked /\ n.tokens + t1.used = n.spent + u
<1>1. Under(b, k, t, f, l) /\ Account(special, k, t, n) /\ t.used \in Nat
  BY DEF CallerOK
<1>2. t.calls = Len(k.sent) /\ k.calls \in 1..MaxCalls /\ MaxCalls \in Nat
  BY <1>1, ModelAssumption DEF Under
<1>3. t1.calls = t.calls + 1 /\ t1.used = t.used + u /\ u \in {0, 1} /\ t1 = [calls |-> t1.calls, used |-> t1.used]
  BY DEF Tallies
<1>4. PICK first : first = IF k.sent = <<>> THEN 0 ELSE 1
  OBVIOUS
<1>5. /\ n.asked \in Nat /\ n.spent \in Nat /\ n.calls \in Nat /\ n.tokens \in Nat
      /\ ~special => n.calls + first = n.asked /\ n.tokens + t.used = n.spent
  BY <1>1, <1>4, Zenon DEF Account
<1>6. first \in {0, 1} /\ asked = n.asked + (1 - first)
  <2>1. CASE k.sent = <<>>
    BY <1>4, <2>1
  <2>2. CASE k.sent # <<>>
    BY <1>4, <2>2
  <2>. QED BY <2>1, <2>2
<1>7. PICK m, calls, c, used, a, spent, told, tokens :
        /\ m = MaxCalls /\ calls = k.calls /\ c = t.calls /\ used = t.used /\ a = n.asked /\ spent = n.spent
        /\ told = n.calls /\ tokens = n.tokens
  OBVIOUS
<1>8. /\ m \in Nat /\ calls \in 1..m /\ c \in 0..2 /\ used \in Nat /\ a \in Nat /\ spent \in Nat
      /\ told \in Nat /\ tokens \in Nat /\ u \in {0, 1} /\ first \in {0, 1}
  BY <1>1, <1>2, <1>3, <1>5, <1>6, <1>7, Zenon
<1>9. calls \in 0..m /\ calls > 0
  BY ONLY <1>8
<1>10. /\ c + 1 \in 0..3 /\ c + 1 > 0 /\ used + u \in Nat
       /\ a + (1 - first) \in Nat /\ spent + u \in Nat /\ told + 1 \in Nat /\ tokens + (used + u) \in Nat
       /\ told + first = a => told + 1 = a + (1 - first)
       /\ tokens + used = spent => tokens + (used + u) = spent + u
  BY ONLY <1>8, OneMoreRequest
<1>. QED BY <1>2, <1>3, <1>5, <1>6, <1>7, <1>8, <1>9, <1>10, Zenon

LEMMA GoesOn ==
  ASSUME NEW b, NEW special, NEW k, NEW t, NEW f, NEW l, NEW n, CallerOK(b, special, k, t, f, l, n),
         k.at = "asking", Len(k.sent) \in 0..2, NEW next, NEW sent, sent # <<>>,
         Chain(b, sent, next), Len(sent) = Len(k.sent) + 1,
         NEW k1, k1 = K("asking", k.calls, k.schema, next, sent, k.heard, k.answer, k.payload),
         NEW u, NEW t1, Tallies(t, u, t1),
         NEW n1, n1 = [asked |-> n.asked + (IF k.sent = <<>> THEN 1 ELSE 0), spent |-> n.spent + u,
                       calls |-> n.calls, tokens |-> n.tokens]
  PROVE  CallerOK(b, special, k1, t1, f, l, n1)
<1>1. /\ k1.at = "asking" /\ k1.calls = k.calls /\ k1.schema = k.schema /\ k1.req = next /\ k1.sent = sent
      /\ k1.heard = k.heard /\ k1.answer = k.answer /\ k1.payload = k.payload
  BY DEF K
<1>1a. k1 = K(k1.at, k1.calls, k1.schema, k1.req, k1.sent, k1.heard, k1.answer, k1.payload)
  BY DEF K
<1>2. Under(b, k, t, f, l)
  BY DEF CallerOK
<1>3. PICK asked : asked = n.asked + (IF k.sent = <<>> THEN 1 ELSE 0)
  OBVIOUS
<1>4. /\ t1 = [calls |-> t1.calls, used |-> t1.used]
      /\ t1.calls = Len(k.sent) + 1 /\ t1.calls \in 0..3 /\ t1.used \in Nat /\ k.calls \in 1..MaxCalls
      /\ asked \in Nat /\ n.spent + u \in Nat /\ n.calls \in Nat /\ n.tokens \in Nat
      /\ ~special => n.calls + 1 = asked /\ n.tokens + t1.used = n.spent + u
  BY <1>3, UnderWayIs
<1>5. Under(b, k1, t1, f, l)
  <2>1. t1.calls = Len(sent)
    BY <1>4, Zenon
  <2>. QED BY <1>1, <1>2, <1>4, <2>1, Zenon DEF Under
<1>6. /\ n1.asked = asked /\ n1.spent = n.spent + u /\ n1.calls = n.calls /\ n1.tokens = n.tokens
      /\ n1 = [asked |-> n1.asked, spent |-> n1.spent, calls |-> n1.calls, tokens |-> n1.tokens]
  BY <1>3
<1>7. k1.at # "idle" /\ k1.at \in {"idle", "asking"}
  BY <1>1
<1>8. Account(special, k1, t1, n1)
  BY <1>1, <1>4, <1>6, <1>7, Zenon DEF Account
<1>. QED BY <1>1a, <1>4, <1>5, <1>7, <1>8, Zenon DEF CallerOK

\* How a call comes to an end: from k, t, l and n to k1, t1, f1, l1 and n1.
Ends(special, k, t, l, n, u, sent, o, text, a, k1, t1, f1, l1, n1) ==
  /\ k.at = "asking" /\ Len(k.sent) \in 0..2 /\ Len(sent) = Len(k.sent) + 1
  /\ sent \in Histories \ {<<>>}
  /\ AnswerOK(o, k.schema, text) /\ (o.kind = "budget_exhausted" => sent \in Spent)
  /\ a = IF o.kind = "" THEN "payload" ELSE "none"
  /\ k1 = K("idle", k.calls, k.schema, NoMore, sent, text, a, o.payload)
  /\ Tallies(t, u, t1)
  /\ f1 = [kind |-> o.kind, calls |-> t1.calls]
  /\ l1 = Append(l, IF o.kind = "" THEN "COMPLETED" ELSE "FAILED")
  /\ n1 = [asked |-> n.asked + (IF k.sent = <<>> THEN 1 ELSE 0), spent |-> n.spent + u,
            calls |-> IF special THEN n.calls ELSE n.calls + 1,
            tokens |-> IF special THEN n.tokens ELSE n.tokens + t1.used]

LEMMA ComesToAnEnd ==
  ASSUME NEW b, NEW special, NEW k, NEW t, NEW f, NEW l, NEW n, CallerOK(b, special, k, t, f, l, n),
         NEW u, NEW sent, NEW o, NEW text, NEW a, NEW k1, NEW t1, NEW f1, NEW l1, NEW n1,
         Ends(special, k, t, l, n, u, sent, o, text, a, k1, t1, f1, l1, n1)
  PROVE  CallerOK(b, special, k1, t1, f1, l1, n1)
<1>0a. /\ k.at = "asking" /\ Len(k.sent) \in 0..2 /\ Len(sent) = Len(k.sent) + 1
       /\ sent \in Histories \ {<<>>} /\ Tallies(t, u, t1)
  BY Zenon DEF Ends
<1>0b. AnswerOK(o, k.schema, text) /\ (o.kind = "budget_exhausted" => sent \in Spent)
  BY Zenon DEF Ends
<1>0c. a = IF o.kind = "" THEN "payload" ELSE "none"
  BY Zenon DEF Ends
<1>0d. k1 = K("idle", k.calls, k.schema, NoMore, sent, text, a, o.payload)
  BY Zenon DEF Ends
<1>0e. f1 = [kind |-> o.kind, calls |-> t1.calls]
  BY Zenon DEF Ends
<1>0f. l1 = Append(l, IF o.kind = "" THEN "COMPLETED" ELSE "FAILED")
  BY Zenon DEF Ends
<1>0g. n1 = [asked |-> n.asked + (IF k.sent = <<>> THEN 1 ELSE 0), spent |-> n.spent + u,
             calls |-> IF special THEN n.calls ELSE n.calls + 1,
             tokens |-> IF special THEN n.tokens ELSE n.tokens + t1.used]
  BY Zenon DEF Ends
<1>1. /\ k1.at = "idle" /\ k1.calls = k.calls /\ k1.schema = k.schema /\ k1.req = NoMore /\ k1.sent = sent
      /\ k1.heard = text /\ k1.answer = a /\ k1.payload = o.payload
  BY <1>0d DEF K
<1>1a. k1 = K(k1.at, k1.calls, k1.schema, k1.req, k1.sent, k1.heard, k1.answer, k1.payload)
  BY <1>0d DEF K
<1>2. Under(b, k, t, f, l)
  BY <1>0a DEF CallerOK
<1>3. PICK asked : asked = n.asked + (IF k.sent = <<>> THEN 1 ELSE 0)
  OBVIOUS
<1>3a. Tallies(t, u, t1) /\ Len(k.sent) \in 0..2 /\ k.at = "asking" /\ CallerOK(b, special, k, t, f, l, n)
  BY <1>0a
<1>4. /\ t1 = [calls |-> t1.calls, used |-> t1.used]
      /\ t1.calls = Len(k.sent) + 1 /\ t1.calls \in 0..3 /\ t1.used \in Nat
      /\ k.calls \in 0..MaxCalls /\ k.calls > 0
      /\ asked \in Nat /\ n.spent + u \in Nat /\ n.calls \in Nat /\ n.tokens \in Nat
      /\ n.calls + 1 \in Nat /\ n.tokens + t1.used \in Nat
      /\ ~special => n.calls + 1 = asked /\ n.tokens + t1.used = n.spent + u
  BY ONLY <1>3, <1>3a, UnderWayIs
<1>4a. t1.calls = Len(sent)
  BY <1>0a, <1>4, Zenon
<1>5. f1.kind = o.kind /\ f1.calls = t1.calls
  BY <1>0e
<1>6. /\ a \in {"none", "raised", "payload"} /\ (a = "payload" <=> o.kind = "") /\ (a = "none" <=> o.kind # "")
      /\ l1 = IF a = "payload" THEN <<"STARTED", "COMPLETED">> ELSE <<"STARTED", "FAILED">>
  <2>1. l = <<"STARTED">>
    BY <1>2 DEF Under
  <2>2. CASE o.kind = ""
    <3>1. a = "payload" /\ l1 = Append(<<"STARTED">>, "COMPLETED")
      BY <1>0c, <1>0f, <2>1, <2>2
    <3>2. l1 = <<"STARTED", "COMPLETED">>
      BY <3>1, ShortSequences
    <3>. QED BY <2>2, <3>1, <3>2
  <2>3. CASE o.kind # ""
    <3>1. a = "none" /\ l1 = Append(<<"STARTED">>, "FAILED")
      BY <1>0c, <1>0f, <2>1, <2>3
    <3>2. l1 = <<"STARTED", "FAILED">>
      BY <3>1, ShortSequences
    <3>. QED BY <2>3, <3>1, <3>2
  <2>. QED BY <2>2, <2>3
<1>7. Done(b, k1, f1, l1)
  <2>1. sent \in Histories /\ sent # <<>>
    BY <1>0a
  <2>2. o.kind = "" => PayloadAsked(o.payload, k.schema) /\ NullsSpelt(o.payload, k.schema) /\ PayloadHeard(o.payload, text)
    BY <1>0b DEF AnswerOK
  <2>. QED BY <1>1, <1>4, <1>4a, <1>5, <1>6, <1>0b, <2>1, <2>2, Zenon DEF Done
<1>8. /\ n1.asked = asked /\ n1.spent = n.spent + u
      /\ n1 = [asked |-> n1.asked, spent |-> n1.spent, calls |-> n1.calls, tokens |-> n1.tokens]
      /\ n1.calls = IF special THEN n.calls ELSE n.calls + 1
      /\ n1.tokens = IF special THEN n.tokens ELSE n.tokens + t1.used
  BY <1>0g, <1>3
<1>9. k1.at # "asking" /\ k1.at \in {"idle", "asking"}
  BY <1>1
<1>10. /\ n1.calls \in Nat /\ n1.tokens \in Nat
       /\ ~special => n1.calls = n1.asked /\ n1.tokens = n1.spent
  BY <1>4, <1>8, Zenon
<1>11. Account(special, k1, t1, n1)
  BY <1>4, <1>8, <1>9, <1>10, Zenon DEF Account
<1>. QED BY <1>1a, <1>4, <1>7, <1>9, <1>11, Zenon DEF CallerOK

LEMMA ModelStarts == ModelInit => ModelInv
<1>. SUFFICES ASSUME ModelInit PROVE ModelInv
  OBVIOUS
<1>1. /\ setup \in [backend : {"zai", "anthropic"}, keyed : BOOLEAN]
      /\ DOMAIN call = Callers /\ DOMAIN tally = Callers /\ DOMAIN failure = Callers
      /\ DOMAIN line = Callers /\ DOMAIN counted = Callers
  BY DEF ModelInit
<1>2. ASSUME NEW c \in Callers
      PROVE  CallerOK(setup.backend, c \in Specialists, call[c], tally[c], failure[c], line[c], counted[c])
  <2>1. /\ call[c] = K("idle", 0, <<>>, NoMore, <<>>, <<>>, "none", <<>>)
        /\ tally[c] = NoStats /\ failure[c] = [kind |-> "", calls |-> 0] /\ line[c] = <<>>
        /\ counted[c] = [asked |-> 0, spent |-> 0, calls |-> 0, tokens |-> 0]
    BY DEF ModelInit, K
  <2>2. PICK k, f, n, b : k = call[c] /\ f = failure[c] /\ n = counted[c] /\ b = setup.backend
    OBVIOUS
  <2>2a. PICK special : special = (c \in Specialists)
    OBVIOUS
  <2>2b. /\ k = K("idle", 0, <<>>, NoMore, <<>>, <<>>, "none", <<>>)
         /\ f = [kind |-> "", calls |-> 0] /\ n = [asked |-> 0, spent |-> 0, calls |-> 0, tokens |-> 0]
    BY <2>1, <2>2, Zenon
  <2>3. /\ k.at = "idle" /\ k.calls = 0 /\ k.req = NoMore /\ k.sent = <<>> /\ k.answer = "none"
        /\ k = K(k.at, k.calls, k.schema, k.req, k.sent, k.heard, k.answer, k.payload)
    BY <2>2b DEF K
  <2>4. MaxCalls \in Nat /\ 0 \in 0..MaxCalls /\ ~(0 > 0) /\ 0 \in Nat
    BY ModelAssumption
  <2>5. f.kind # "budget_exhausted"
    BY <2>2b
  <2>6. k.sent \in Histories
    BY <2>3 DEF Histories
  <2>7. Done(b, k, f, <<>>)
    BY <2>3, <2>4, <2>5, <2>6, Zenon DEF Done
  <2>8. /\ n = [asked |-> n.asked, spent |-> n.spent, calls |-> n.calls, tokens |-> n.tokens]
        /\ n.asked = 0 /\ n.spent = 0 /\ n.calls = 0 /\ n.tokens = 0
    BY <2>2b
  <2>9. k.at # "asking" /\ k.at \in {"idle", "asking"}
    BY <2>3
  <2>10. Account(special, k, NoStats, n)
    BY <2>4, <2>8, <2>9, Zenon DEF Account
  <2>11. CallerOK(b, special, k, NoStats, f, <<>>, n)
    BY <2>3, <2>7, <2>9, <2>10, NothingYet, Zenon DEF CallerOK
  <2>. QED BY <2>1, <2>2, <2>2a, <2>11, Zenon
<1>. QED BY <1>1, <1>2 DEF ModelInv

\* A step of one caller leaves the others as they are.
Touched(c) ==
  /\ UNCHANGED setup
  /\ DOMAIN call' = Callers /\ DOMAIN tally' = Callers /\ DOMAIN failure' = Callers
  /\ DOMAIN line' = Callers /\ DOMAIN counted' = Callers
  /\ \A d \in Callers \ {c} : /\ call'[d] = call[d] /\ tally'[d] = tally[d] /\ failure'[d] = failure[d]
                              /\ line'[d] = line[d] /\ counted'[d] = counted[d]

LEMMA OneCallerAtATime ==
  ASSUME ModelInv, NEW c \in Callers, Touched(c),
         CallerOK(setup.backend, c \in Specialists, call'[c], tally'[c], failure'[c], line'[c], counted'[c])
  PROVE  ModelInv'
<1>1. ASSUME NEW d \in Callers
      PROVE  CallerOK(setup'.backend, d \in Specialists, call'[d], tally'[d], failure'[d], line'[d], counted'[d])
  <2>1. CASE d = c
    BY <2>1 DEF Touched
  <2>2. CASE d # c
    BY <2>2, Zenon DEF Touched, ModelInv
  <2>. QED BY <2>1, <2>2
<1>2. /\ setup' \in [backend : {"zai", "anthropic"}, keyed : BOOLEAN]
      /\ DOMAIN call' = Callers /\ DOMAIN tally' = Callers /\ DOMAIN failure' = Callers
      /\ DOMAIN line' = Callers /\ DOMAIN counted' = Callers
  BY DEF Touched, ModelInv
<1>. QED BY <1>1, <1>2 DEF ModelInv

LEMMA CallKeeps ==
  ASSUME ModelInv, NEW c \in Callers, NEW s \in Schemas, StructuredCall(c, s)
  PROVE  ModelInv'
<1>1. PICK k, t, f, l, n, b : /\ k = call[c] /\ t = tally[c] /\ f = failure[c] /\ l = line[c] /\ n = counted[c]
                              /\ b = setup.backend
  OBVIOUS
<1>2. PICK special : special = (c \in Specialists)
  OBVIOUS
<1>3. CallerOK(b, special, k, t, f, l, n)
  BY <1>1, <1>2, Zenon DEF ModelInv
<1>4. k.at = "idle" /\ k.calls < MaxCalls
  BY <1>1 DEF StructuredCall
<1>5. k = K(k.at, k.calls, k.schema, k.req, k.sent, k.heard, k.answer, k.payload)
  BY <1>3 DEF CallerOK
<1>6. PICK o : o = Opened(c, s)
  OBVIOUS
<1>7. o = K(k.at, k.calls + 1, s, k.req, <<>>, <<>>, "none", <<>>)
  <2>1. o = Opening(k, k.calls + 1, s, <<>>, "none")
    BY <1>1, <1>6 DEF Opened, Opening
  <2>. QED BY <1>5, <2>1, OpenedIs
<1>8. CASE RateLimited(c, s)
  <2>1. Touched(c)
    BY <1>8 DEF RateLimited, Touched, ModelInv, StructuredCall
  <2>2. call'[c] = o /\ tally'[c] = t /\ failure'[c] = [kind |-> "rate_limit", calls |-> 0]
        /\ line'[c] = <<>> /\ counted'[c] = n
    BY <1>1, <1>6, <1>8 DEF RateLimited, ModelInv
  <2>3. PICK f1 : f1 = [kind |-> IF "none" = "none" THEN "rate_limit" ELSE "", calls |-> 0]
    OBVIOUS
  <2>4. CallerOK(b, special, o, t, f1, <<>>, n)
    BY <1>3, <1>4, <1>7, <2>3, BeginsOver
  <2>5. f1 = failure'[c]
    BY <2>2, <2>3
  <2>. QED BY <1>1, <1>2, <2>1, <2>2, <2>4, <2>5, OneCallerAtATime, Zenon
<1>9. CASE Unbuilt(c, s)
  <2>1. Touched(c)
    BY <1>9 DEF Unbuilt, Touched, ModelInv, StructuredCall
  <2>2. call'[c] = Raising(o) /\ tally'[c] = t /\ failure'[c] = [kind |-> "", calls |-> 0]
        /\ line'[c] = <<>> /\ counted'[c] = n
    BY <1>1, <1>6, <1>9 DEF Unbuilt, Raising, ModelInv
  <2>3. call'[c] = K(k.at, k.calls + 1, s, k.req, <<>>, <<>>, "raised", <<>>)
    <3>1. Raising(o) = K(k.at, k.calls + 1, s, k.req, <<>>, <<>>, "raised", <<>>)
      BY ONLY <1>7, RaisedIs
    <3>. QED BY <2>2, <3>1, Zenon
  <2>4. PICK f1 : f1 = [kind |-> IF "raised" = "none" THEN "rate_limit" ELSE "", calls |-> 0]
    OBVIOUS
  <2>5. CallerOK(b, special, call'[c], t, f1, <<>>, n)
    BY <1>3, <1>4, <2>3, <2>4, BeginsOver
  <2>6. f1 = failure'[c]
    BY <2>2, <2>4
  <2>. QED BY <1>1, <1>2, <2>1, <2>2, <2>5, <2>6, OneCallerAtATime, Zenon
<1>10. CASE Sent(c, s)
  <2>1. Touched(c)
    BY <1>10 DEF Sent, Touched, ModelInv, StructuredCall
  <2>2. PICK schema, req : schema = Strictened(s) /\ req = Plain
    OBVIOUS
  <2>3. call'[c] = Beginning(o, "asking", req, schema) /\ tally'[c] = NoStats
        /\ failure'[c] = [kind |-> "", calls |-> 0] /\ line'[c] = <<"STARTED">> /\ counted'[c] = n
    BY <1>1, <1>6, <1>10, <2>2 DEF Sent, ModelInv, Plain, Beginning
  <2>4. call'[c] = K("asking", k.calls + 1, schema, Plain, <<>>, <<>>, "none", <<>>)
    <3>1. Beginning(o, "asking", req, schema) = K("asking", k.calls + 1, schema, req, <<>>, <<>>, "none", <<>>)
      BY ONLY <1>7, BegunIs
    <3>. QED BY <2>2, <2>3, <3>1, Zenon
  <2>5. SchemaOK(schema)
    BY <2>2, StrictSchemas
  <2>6. CallerOK(b, special, call'[c], NoStats, failure'[c], line'[c], n)
    BY <1>3, <1>4, <2>3, <2>4, <2>5, BeginsSent
  <2>. QED BY <1>1, <1>2, <2>1, <2>3, <2>6, OneCallerAtATime, Zenon
<1>. QED BY <1>8, <1>9, <1>10 DEF StructuredCall

LEMMA AttemptKeeps ==
  ASSUME ModelInv, NEW c \in Callers, NEW r \in Replies, Attempt(c, r)
  PROVE  ModelInv'
<1>1. PICK k, t, f, l, n, b : /\ k = call[c] /\ t = tally[c] /\ f = failure[c] /\ l = line[c] /\ n = counted[c]
                              /\ b = setup.backend
  OBVIOUS
<1>2. PICK special : special = (c \in Specialists)
  OBVIOUS
<1>3. CallerOK(b, special, k, t, f, l, n) /\ b \in {"zai", "anthropic"}
  BY <1>1, <1>2, Zenon DEF ModelInv
<1>4. k.at = "asking"
  BY <1>1 DEF Attempt
<1>5. k = K(k.at, k.calls, k.schema, k.req, k.sent, k.heard, k.answer, k.payload) /\ Under(b, k, t, f, l)
  BY <1>3, <1>4 DEF CallerOK
<1>6. PICK o, next : o = Asked(r, k.schema) /\ next = NextRequest(o.kind, k.req)
  OBVIOUS
<1>7. SchemaOK(k.schema) /\ Chain(setup.backend, k.sent, k.req)
  BY <1>1, <1>5, Zenon DEF Under
<1>8. AnswerOK(o, k.schema, r.text) /\ (b = "anthropic" => o.kind # "budget_exhausted")
  <2>1. CASE b = "zai"
    <3>1. o = ForcedCall(r, k.schema)
      BY <1>1, <1>6, <2>1 DEF Asked
    <3>. QED BY <1>7, <2>1, <3>1, ForcedIsOK
  <2>2. CASE b = "anthropic"
    <3>1. o = ClaudeCall(r, k.schema)
      BY <1>1, <1>6, <2>2 DEF Asked
    <3>. QED BY <1>7, <3>1, ClaudeIsOK
  <2>. QED BY <1>3, <2>1, <2>2
<1>9. PICK sent, kind : sent = Append(k.sent, k.req) /\ kind = o.kind
  OBVIOUS
<1>10. /\ sent \in Histories \ {<<>>} /\ Len(k.sent) \in 0..2 /\ Len(sent) = Len(k.sent) + 1
       /\ next # NoMore => Chain(b, sent, next) /\ b = "zai"
       /\ next = NoMore /\ kind = "budget_exhausted" /\ b = "zai" => sent \in Spent
       /\ b = "anthropic" => next = NoMore /\ Len(k.sent) = 0
  <2>1. setup.backend \in {"zai", "anthropic"} /\ next = NextRequest(kind, k.req)
    BY <1>1, <1>3, <1>6, <1>9, Zenon
  <2>2. PICK x, q : x = k.sent /\ q = k.req
    OBVIOUS
  <2>3. Chain(setup.backend, x, q) /\ next = NextRequest(kind, q)
    BY <1>7, <2>1, <2>2, Zenon
  <2>4. /\ Append(x, q) \in Histories \ {<<>>} /\ Len(x) \in 0..2
        /\ Len(Append(x, q)) = Len(x) + 1
        /\ next # NoMore => Chain(setup.backend, Append(x, q), next) /\ setup.backend = "zai" /\ kind # ""
        /\ next = NoMore /\ kind = "budget_exhausted" /\ setup.backend = "zai" => Append(x, q) \in Spent
        /\ setup.backend = "anthropic" => next = NoMore /\ Len(x) = 0
    BY ONLY <2>1, <2>3, NextIs
  <2>. QED BY <1>1, <1>9, <2>2, <2>4, Zenon
<1>11. t = [calls |-> t.calls, used |-> t.used] /\ t.calls = Len(k.sent) /\ (k.sent = <<>> => t.used = 0)
  BY <1>3, <1>5 DEF Under, CallerOK
<1>12. PICK u, t1 : u = Usage(r) /\ t1 = Tallied(c, r)
  OBVIOUS
<1>13. Tallies(t, u, t1)
  <2>1. u \in {0, 1}
    BY <1>12 DEF Usage
  <2>2. CASE b = "zai"
    BY <1>1, <1>12, <2>1, <2>2 DEF Tallied, Tallies
  <2>3. CASE b = "anthropic"
    <3>1. Len(k.sent) = 0 /\ k.sent = <<>>
      <4>1. PICK sequence : sequence = k.sent
        OBVIOUS
      <4>2. Chain(setup.backend, sequence, k.req) /\ setup.backend = "anthropic"
        BY <1>1, <1>7, <2>3, <4>1, Zenon
      <4>3. sequence = <<>>
        BY <4>2 DEF Chain
      <4>. QED BY <1>10, <2>3, <4>1, <4>3
    <3>2. t.calls = 0 /\ t.used = 0
      BY <1>11, <3>1, Zenon
    <3>3. t.calls + 1 = 1 /\ t.used + u = u
      BY <2>1, <3>2
    <3>4. t1 = [calls |-> 1, used |-> u]
      BY <1>1, <1>12, <2>3 DEF Tallied
    <3>. QED BY <2>1, <3>3, <3>4, Zenon DEF Tallies
  <2>. QED BY <1>3, <2>2, <2>3
<1>14. PICK made : made = Making(k, sent, next)
  OBVIOUS
<1>15. made = K("asking", k.calls, k.schema, next, sent, k.heard, k.answer, k.payload)
  <2>1. k = K("asking", k.calls, k.schema, k.req, k.sent, k.heard, k.answer, k.payload)
    BY <1>4, <1>5, Zenon
  <2>. QED BY ONLY <1>14, <2>1, MadeIs
<1>16. PICK a : a = IF o.kind = "" THEN "payload" ELSE "none"
  OBVIOUS
<1>16a. PICK told : told = IF next = NoMore THEN Recorded(c, t1)
                          ELSE [calls |-> counted[c].calls, tokens |-> counted[c].tokens]
  OBVIOUS
<1>17. /\ tally' = [tally EXCEPT ![c] = t1]
       /\ call' = [call EXCEPT ![c] = IF next = NoMore THEN Ending(made, "idle", o.payload, r.text, a) ELSE made]
       /\ counted' = [counted EXCEPT ![c] = [asked |-> @.asked + (IF k.sent = <<>> THEN 1 ELSE 0),
                                             spent |-> @.spent + u,
                                             calls |-> told.calls, tokens |-> told.tokens]]
       /\ IF next = NoMore THEN Return(c, o, t1.calls) ELSE UNCHANGED <<failure, line>>
       /\ UNCHANGED setup
  BY <1>1, <1>6, <1>9, <1>12, <1>14, <1>16, <1>16a, Zenon DEF Attempt, Making, Ending
<1>18. Touched(c)
  BY <1>17 DEF Touched, ModelInv, Return
<1>19. CASE next # NoMore
  <2>1. PICK n1 : n1 = [asked |-> n.asked + (IF k.sent = <<>> THEN 1 ELSE 0), spent |-> n.spent + u,
                        calls |-> n.calls, tokens |-> n.tokens]
    OBVIOUS
  <2>1a. told.calls = n.calls /\ told.tokens = n.tokens
    BY <1>1, <1>16a, <1>19
  <2>2. /\ tally'[c] = t1 /\ call'[c] = made /\ failure'[c] = f /\ line'[c] = l
        /\ counted'[c] = n1
    BY <1>1, <1>17, <1>19, <2>1, <2>1a DEF ModelInv
  <2>3. CallerOK(b, special, made, t1, f, l, n1)
    <3>1. sent # <<>> /\ Chain(b, sent, next) /\ Len(sent) = Len(k.sent) + 1 /\ Len(k.sent) \in 0..2
      BY <1>10, <1>19
    <3>. QED BY ONLY <1>3, <1>4, <1>13, <1>15, <2>1, <3>1, GoesOn
  <2>. QED BY <1>1, <1>2, <1>18, <2>2, <2>3, OneCallerAtATime, Zenon DEF Touched
<1>20. CASE next = NoMore
  <2>0. PICK text, p : text = r.text /\ p = o.payload
    OBVIOUS
  <2>1. PICK k1, f1, l1 : /\ k1 = Ending(made, "idle", p, text, a)
                          /\ f1 = [kind |-> o.kind, calls |-> t1.calls]
                          /\ l1 = Append(l, IF o.kind = "" THEN "COMPLETED" ELSE "FAILED")
    OBVIOUS
  <2>2. PICK n1 : n1 = [asked |-> n.asked + (IF k.sent = <<>> THEN 1 ELSE 0), spent |-> n.spent + u,
                        calls |-> IF special THEN n.calls ELSE n.calls + 1,
                        tokens |-> IF special THEN n.tokens ELSE n.tokens + t1.used]
    OBVIOUS
  <2>3. tally'[c] = t1 /\ call'[c] = k1 /\ failure'[c] = f1 /\ line'[c] = l1
    BY <1>1, <1>17, <1>20, <2>0, <2>1 DEF ModelInv, Return
  <2>4. /\ told.calls = IF special THEN n.calls ELSE n.calls + 1
        /\ told.tokens = IF special THEN n.tokens ELSE n.tokens + t1.used
    <3>1. t1.calls > 0
      <4>1. Len(k.sent) \in 0..2
        BY <1>10
      <4>. QED BY ONLY <1>3, <1>4, <1>13, <4>1, UnderWayIs
    <3>2. told = Recorded(c, t1)
      BY <1>16a, <1>20
    <3>3. CASE special
      BY <1>1, <1>2, <3>2, <3>3 DEF Recorded
    <3>4. CASE ~special
      BY <1>1, <1>2, <3>1, <3>2, <3>4 DEF Recorded
    <3>. QED BY <3>3, <3>4
  <2>5. counted'[c] = n1
    <3>1. counted'[c] = [asked |-> n.asked + (IF k.sent = <<>> THEN 1 ELSE 0), spent |-> n.spent + u,
                         calls |-> told.calls, tokens |-> told.tokens]
      BY <1>1, <1>17 DEF ModelInv
    <3>. QED BY <2>2, <2>4, <3>1, Zenon
  <2>6. k1 = K("idle", k.calls, k.schema, NoMore, sent, text, a, o.payload)
    <3>1. Ending(made, "idle", p, text, a) = K("idle", k.calls, k.schema, next, sent, text, a, p)
      BY ONLY <1>15, EndedIs
    <3>. QED BY <1>20, <2>0, <2>1, <3>1, Zenon
  <2>7. o.kind = "budget_exhausted" => sent \in Spent
    BY <1>3, <1>8, <1>9, <1>10, <1>20, Zenon
  <2>9. AnswerOK(o, k.schema, text)
    BY <1>8, <2>0, Zenon
  <2>10. CallerOK(b, special, k1, t1, f1, l1, n1)
    <3>1. Len(k.sent) \in 0..2 /\ Len(sent) = Len(k.sent) + 1 /\ sent \in Histories \ {<<>>}
      BY <1>10
    <3>2. Ends(special, k, t, l, n, u, sent, o, text, a, k1, t1, f1, l1, n1)
      BY <1>4, <1>13, <1>16, <2>1, <2>2, <2>6, <2>7, <2>9, <3>1, Zenon DEF Ends
    <3>. QED BY <1>3, <3>2, ComesToAnEnd
  <2>. QED BY <1>1, <1>2, <1>18, <2>3, <2>5, <2>10, OneCallerAtATime, Zenon DEF Touched
<1>. QED BY <1>19, <1>20

\* What the invariant says of one caller, read as the properties say it.
LEMMA NeverTwice ==
  ASSUME NEW sent \in Histories
  PROVE  /\ \A i, j \in DOMAIN sent : i # j => sent[i] # sent[j]
         /\ sent \in Spent => Last(sent).thinking = "off"
<1>1. CASE sent = <<>>
  <2>1. DOMAIN sent = {}
    BY <1>1
  <2>2. sent \notin Spent
    BY <1>1, ShortSequences DEF Spent
  <2>. QED BY <2>1, <2>2
<1>2. CASE sent = <<Plain>>
  <2>1. DOMAIN sent = 1..1 /\ Len(sent) = 1
    BY <1>2
  <2>2. sent \notin Spent
    <3>1. Len(<<Plain, Spare>>) = 2 /\ Len(<<Plain, ToldOf, Both>>) = 3
      OBVIOUS
    <3>. QED BY <2>1, <3>1 DEF Spent
  <2>. QED BY <2>1, <2>2
<1>3. CASE sent = <<Plain, ToldOf>>
  <2>1. DOMAIN sent = 1..2 /\ Len(sent) = 2 /\ sent[1] = Plain /\ sent[2] = ToldOf
    BY <1>3
  <2>2. sent \notin Spent
    <3>1. Len(<<Plain, Spare>>) = 2 /\ <<Plain, Spare>>[2] = Spare /\ Len(<<Plain, ToldOf, Both>>) = 3
      OBVIOUS
    <3>. QED BY <2>1, <3>1, RequestsAre DEF Spent
  <2>. QED BY <2>1, <2>2, RequestsAre
<1>4. CASE sent = <<Plain, Spare>>
  <2>1. DOMAIN sent = 1..2 /\ Len(sent) = 2 /\ sent[1] = Plain /\ sent[2] = Spare
    BY <1>4
  <2>2. Last(sent) = Spare
    BY <2>1 DEF Last
  <2>. QED BY <2>1, <2>2, RequestsAre
<1>5. CASE sent = <<Plain, ToldOf, Both>>
  <2>1. DOMAIN sent = 1..3 /\ Len(sent) = 3 /\ sent[1] = Plain /\ sent[2] = ToldOf /\ sent[3] = Both
    BY <1>5
  <2>2. Last(sent) = Both
    BY <2>1 DEF Last
  <2>. QED BY <2>1, <2>2, RequestsAre
<1>. QED BY <1>1, <1>2, <1>3, <1>4, <1>5 DEF Histories, Spent

CallerSays(b, special, k, t, f, l, n) ==
  /\ k.at \in {"idle", "asking"} /\ k.calls \in 0..MaxCalls /\ k.answer \in {"none", "raised", "payload"}
  /\ t.calls \in 0..3 /\ t.used \in Nat
  /\ (k.at = "asking" <=> k.req # NoMore)
  /\ k.sent \in Histories
  /\ k.at = "idle" => Done(b, k, f, l)
  /\ k.at = "asking" => /\ f = [kind |-> "", calls |-> 0] /\ l = <<"STARTED">> /\ k.answer = "none"
  /\ ~special /\ k.at = "idle" => n.calls = n.asked /\ n.tokens = n.spent

LEMMA CallerIs ==
  ASSUME NEW b, NEW special, NEW k, NEW t, NEW f, NEW l, NEW n, CallerOK(b, special, k, t, f, l, n)
  PROVE  CallerSays(b, special, k, t, f, l, n)
<1>1. /\ k.at \in {"idle", "asking"} /\ t.calls \in 0..3 /\ t.used \in Nat
      /\ Account(special, k, t, n) /\ MaxCalls \in Nat
  BY ModelAssumption DEF CallerOK
<1>2. CASE k.at = "asking"
  <2>1. Under(b, k, t, f, l)
    BY <1>2 DEF CallerOK
  <2>2. /\ k.calls \in 1..MaxCalls /\ Chain(b, k.sent, k.req)
        /\ f = [kind |-> "", calls |-> 0] /\ l = <<"STARTED">> /\ k.answer = "none"
    BY <2>1, Zenon DEF Under
  <2>3. k.req # NoMore /\ k.sent \in Histories
    BY <2>2, RequestsAre DEF Chain, Histories
  <2>4. k.calls \in 0..MaxCalls /\ k.at # "idle"
    <3>1. PICK m, i : m = MaxCalls /\ i = k.calls
      OBVIOUS
    <3>2. m \in Nat /\ i \in 1..m
      BY <1>1, <2>2, <3>1, Zenon
    <3>3. i \in 0..m
      BY <3>2
    <3>. QED BY <1>2, <3>1, <3>3
  <2>. QED BY <1>1, <1>2, <2>2, <2>3, <2>4, Zenon DEF CallerSays
<1>3. CASE k.at = "idle"
  <2>1. Done(b, k, f, l)
    BY <1>3 DEF CallerOK
  <2>2. k.calls \in 0..MaxCalls /\ k.req = NoMore /\ k.answer \in {"none", "raised", "payload"} /\ k.sent \in Histories
    BY <2>1, Zenon DEF Done
  <2>3. k.at # "asking"
    BY <1>3
  <2>4. ~special => n.calls = n.asked /\ n.tokens = n.spent
    BY <1>1, <1>3, Zenon DEF Account
  <2>. QED BY <1>1, <1>3, <2>1, <2>2, <2>3, <2>4, Zenon DEF CallerSays
<1>. QED BY <1>1, <1>2, <1>3 DEF CallerSays

LEMMA AnswersFollow == ASSUME ModelInv PROVE AnswerHolds
<1>1. ASSUME NEW c \in Callers
      PROVE  /\ call[c].at \in {"idle", "asking"} /\ call[c].calls \in 0..MaxCalls
             /\ call[c].answer \in {"none", "raised", "payload"}
             /\ tally[c].calls \in 0..3 /\ tally[c].used \in Nat
             /\ (call[c].at = "asking" <=> call[c].req # NoMore)
             /\ call[c].sent \in Histories
             /\ call[c].at = "idle" => Done(setup.backend, call[c], failure[c], line[c])
             /\ call[c].at = "asking" => /\ failure[c] = [kind |-> "", calls |-> 0]
                                         /\ line[c] = <<"STARTED">> /\ call[c].answer = "none"
             /\ c \notin Specialists /\ call[c].at = "idle" =>
                    counted[c].calls = counted[c].asked /\ counted[c].tokens = counted[c].spent
  <2>1. CallerOK(setup.backend, c \in Specialists, call[c], tally[c], failure[c], line[c], counted[c])
    BY DEF ModelInv
  <2>2. PICK special : special = (c \in Specialists)
    OBVIOUS
  <2>3. PICK k, t, f, l, n, b : /\ k = call[c] /\ t = tally[c] /\ f = failure[c] /\ l = line[c] /\ n = counted[c]
                                /\ b = setup.backend
    OBVIOUS
  <2>4. CallerOK(b, special, k, t, f, l, n)
    BY <2>1, <2>2, <2>3, Zenon
  <2>5. CallerSays(b, special, k, t, f, l, n)
    BY <2>4, CallerIs
  <2>. QED BY <2>2, <2>3, <2>5, Zenon DEF CallerSays
<1>2. ModelTypeOK
  BY <1>1, Zenon DEF ModelTypeOK
<1>3. ASSUME NEW c \in Callers, call[c].answer = "payload"
      PROVE  /\ call[c].at = "idle" /\ call[c].sent # <<>>
             /\ PayloadAsked(call[c].payload, call[c].schema)
             /\ NullsSpelt(call[c].payload, call[c].schema)
             /\ PayloadHeard(call[c].payload, call[c].heard)
  <2>1. call[c].at = "idle"
    <3>1. call[c].answer # "none"
      BY <1>3
    <3>. QED BY <1>1, <3>1
  <2>2. Done(setup.backend, call[c], failure[c], line[c])
    BY <1>1, <2>1, Zenon
  <2>. QED BY <1>3, <2>1, <2>2, Zenon DEF Done
<1>4. AnswerIsAsAsked
  BY <1>3, Zenon DEF AnswerIsAsAsked, PayloadAsked
<1>5. NothingInvented
  BY <1>3, Zenon DEF NothingInvented, PayloadHeard
<1>6. NullsAreNull
  BY <1>3, Zenon DEF NullsAreNull, NullsSpelt
<1>7. NoRequestTwice
  <2>1. ASSUME NEW c \in Callers, call[c].at = "idle", failure[c].kind = "budget_exhausted"
        PROVE  Last(call[c].sent).thinking = "off"
    <3>1. call[c].sent \in Spent
      BY <1>1, <2>1, Zenon DEF Done
    <3>. QED BY <1>1, <3>1, NeverTwice, Zenon
  <2>2. ASSUME NEW c \in Callers, NEW i \in DOMAIN call[c].sent, NEW j \in DOMAIN call[c].sent, i # j
        PROVE  call[c].sent[i] # call[c].sent[j]
    BY <1>1, <2>2, NeverTwice, Zenon
  <2>. QED BY <2>1, <2>2, Zenon DEF NoRequestTwice
<1>8. EveryStartEnds
  <2>. SUFFICES ASSUME NEW c \in Callers
                PROVE  line[c] = CASE call[c].at = "asking"                          -> <<"STARTED">>
                                   [] call[c].at = "idle" /\ call[c].sent = <<>>     -> <<>>
                                   [] call[c].at = "idle" /\ call[c].answer = "payload" -> <<"STARTED", "COMPLETED">>
                                   [] OTHER                                          -> <<"STARTED", "FAILED">>
    BY DEF EveryStartEnds
  <2>1. CASE call[c].at = "asking"
    <3>1. call[c].at # "idle"
      BY <2>1
    <3>. QED BY <1>1, <2>1, <3>1
  <2>2. CASE call[c].at = "idle"
    <3>1. call[c].at # "asking"
      BY <2>2
    <3>2. line[c] = IF call[c].sent = <<>> THEN <<>>
                    ELSE IF call[c].answer = "payload" THEN <<"STARTED", "COMPLETED">> ELSE <<"STARTED", "FAILED">>
      BY <1>1, <2>2, Zenon DEF Done
    <3>3. CASE call[c].sent = <<>>
      <4>1. call[c].answer # "payload"
        BY <1>3, <3>3
      <4>. QED BY <2>2, <3>1, <3>2, <3>3, <4>1
    <3>4. CASE call[c].sent # <<>> /\ call[c].answer = "payload"
      BY <2>2, <3>1, <3>2, <3>4
    <3>5. CASE call[c].sent # <<>> /\ call[c].answer # "payload"
      BY <2>2, <3>1, <3>2, <3>5
    <3>. QED BY <3>3, <3>4, <3>5
  <2>. QED BY <1>1, <2>1, <2>2
<1>9. KindIsOfThisCall
  BY <1>1, Zenon DEF KindIsOfThisCall, Done
<1>10. CountedAsMade
  BY <1>1, Zenon DEF CountedAsMade
<1>. QED BY <1>2, <1>4, <1>5, <1>6, <1>7, <1>8, <1>9, <1>10, Zenon DEF AnswerHolds

\* A structured call answers once, with what the model said for the schema asked for or
\* with the kind of failure of this very call, within its number of requests, and is
\* recorded once with the usage of all of them, whatever the callers before it and
\* beside it do.
THEOREM AnswersHold == ModelSpec => []AnswerHolds
<1>1. ModelInit => ModelInv
  BY ModelStarts
<1>2. ModelInv /\ [ModelNext]_modelVars => ModelInv'
  <2>. SUFFICES ASSUME ModelInv, [ModelNext]_modelVars PROVE ModelInv'
    OBVIOUS
  <2>1. ASSUME NEW c \in Callers, NEW s \in Schemas, StructuredCall(c, s) PROVE ModelInv'
    BY <2>1, CallKeeps
  <2>2. ASSUME NEW c \in Callers, NEW r \in Replies, Attempt(c, r) PROVE ModelInv'
    BY <2>2, AttemptKeeps
  <2>3. CASE UNCHANGED modelVars
    BY <2>3, Zenon DEF modelVars, ModelInv
  <2>. QED BY <2>1, <2>2, <2>3 DEF ModelNext
<1>3. ModelInv => AnswerHolds
  BY AnswersFollow
<1>. QED BY <1>1, <1>2, <1>3, PTL DEF ModelSpec

-----------------------------------------------------------------------------
(* StressSearch: its arithmetic, and what a row of its table promises.      *)

Grid == -Reach..Reach

LEMMA HalfInGrid == ASSUME NEW R \in Nat, NEW x \in -R..R PROVE Halve(x) \in -R..R
BY DEF Halve, Size
LEMMA SignOfProduct ==
  ASSUME NEW a \in Int, NEW b \in Int
  PROVE  /\ a * b \in Int
         /\ a * b <= 0 <=> (a <= 0 /\ b >= 0) \/ (a >= 0 /\ b <= 0)
         /\ a * b < 0 <=> (a < 0 /\ b > 0) \/ (a > 0 /\ b < 0)
OBVIOUS
LEMMA Quotient ==
  ASSUME NEW X \in Int, NEW S \in Nat \ {0}, NEW lo \in Int, NEW hi \in Int, lo * S <= X, X <= hi * S
  PROVE  X \div S \in lo..hi
<1>1. PICK q : q = X \div S
  OBVIOUS
<1>2. q \in Int /\ S * q <= X /\ X < S * q + S
  BY <1>1
<1>3. q >= lo
  <2>1. SUFFICES ASSUME q + 1 <= lo PROVE FALSE
    BY <1>2
  <2>2. S * (q + 1) <= S * lo
    BY <1>2, <2>1
  <2>. QED BY <1>2, <2>2
<1>4. q <= hi
  <2>1. SUFFICES ASSUME q >= hi + 1 PROVE FALSE
    BY <1>2
  <2>2. S * q >= S * (hi + 1)
    BY <1>2, <2>1
  <2>. QED BY <1>2, <2>2
<1>. QED BY <1>1, <1>2, <1>3, <1>4

\* The sampled points are the two ends and points between them.
LEMMA SampledIsWithin ==
  ASSUME NEW lo \in Grid, NEW hi \in Grid
  PROVE  Sampled(lo, hi) \subseteq Grid /\ lo \in Sampled(lo, hi) /\ hi \in Sampled(lo, hi)
<1>1. Samples \in Nat \ {0} /\ Reach \in Nat /\ lo \in Int /\ hi \in Int
  BY SearchAssumption DEF Grid
<1>2. PICK S, d : S = Samples /\ d = hi - lo
  OBVIOUS
<1>3. S \in Nat \ {0} /\ d \in Int
  BY <1>1, <1>2
<1>4. \A i \in 0..S : /\ d >= 0 => (d * i) \div S \in 0..d
                      /\ d <= 0 => (d * i) \div S \in d..0
  <2>. SUFFICES ASSUME NEW i \in 0..S
                PROVE  /\ d >= 0 => (d * i) \div S \in 0..d
                       /\ d <= 0 => (d * i) \div S \in d..0
    OBVIOUS
  <2>1. d * i \in Int /\ 0 * S = 0
    BY <1>3
  <2>2. ASSUME d >= 0 PROVE 0 <= d * i /\ d * i <= d * S
    BY <1>3, <2>2
  <2>3. ASSUME d <= 0 PROVE d * i <= 0 /\ d * S <= d * i
    BY <1>3, <2>3
  <2>. QED BY <1>3, <2>1, <2>2, <2>3, Quotient
<1>5. (d * 0) \div S = 0 /\ (d * S) \div S = d
  <2>1. d * 0 = 0 /\ d * 0 \in Int /\ d * S \in Int /\ 0 * S = 0
    BY <1>3
  <2>2. (d * 0) \div S \in 0..0 /\ (d * S) \div S \in d..d
    BY <1>3, <2>1, Quotient
  <2>. QED BY <1>3, <2>2
<1>6. Sampled(lo, hi) = {lo + (d * i) \div S : i \in 0..S}
  BY <1>2 DEF Sampled
<1>7. 0 \in 0..S /\ S \in 0..S /\ lo + 0 = lo /\ lo + d = hi
  BY <1>1, <1>2, <1>3
<1>8. lo \in Sampled(lo, hi) /\ hi \in Sampled(lo, hi)
  BY <1>5, <1>6, <1>7
<1>9. ASSUME NEW i \in 0..S PROVE lo + (d * i) \div S \in Grid
  <2>1. PICK q : q = (d * i) \div S
    OBVIOUS
  <2>2. q \in 0..d \/ q \in d..0
    BY <1>3, <1>4, <2>1
  <2>. QED BY <1>1, <1>2, <2>1, <2>2 DEF Grid
<1>. QED BY <1>6, <1>8, <1>9

\* A bound is what is left of the stated one after some halvings, each of which was needed.
Shrunk(g, x, n, y) ==
  \E p \in [0..n -> Int] : /\ p[0] = x /\ p[n] = y
                           /\ \A i \in 1..n : g[p[i - 1]] = Broken /\ p[i] = Halve(p[i - 1])
Usable(g, x, y) == g[y] # Broken /\ \E n \in Nat : Shrunk(g, x, n, y)

LEMMA ShrunkNot == ASSUME NEW g, NEW x \in Int PROVE Shrunk(g, x, 0, x)
<1>1. PICK p : p = [i \in 0..0 |-> x]
  OBVIOUS
<1>2. p \in [0..0 -> Int] /\ p[0] = x /\ 1..0 = {}
  BY <1>1
<1>. QED BY <1>2 DEF Shrunk

LEMMA ShrunkOnce ==
  ASSUME NEW g, NEW x, NEW n \in Nat, NEW y \in Int, Shrunk(g, x, n, y), g[y] = Broken, Halve(y) \in Int
  PROVE  Shrunk(g, x, n + 1, Halve(y))
<1>1. PICK p \in [0..n -> Int] : /\ p[0] = x /\ p[n] = y
                                 /\ \A i \in 1..n : g[p[i - 1]] = Broken /\ p[i] = Halve(p[i - 1])
  BY DEF Shrunk
<1>2. PICK q : q = [i \in 0..(n + 1) |-> IF i = n + 1 THEN Halve(y) ELSE p[i]]
  OBVIOUS
<1>3. q \in [0..(n + 1) -> Int] /\ q[0] = x /\ q[n + 1] = Halve(y) /\ \A i \in 0..n : q[i] = p[i]
  BY <1>1, <1>2
<1>4. ASSUME NEW i \in 1..(n + 1) PROVE g[q[i - 1]] = Broken /\ q[i] = Halve(q[i - 1])
  <2>1. CASE i = n + 1
    <3>1. i - 1 = n /\ n \in 0..n
      BY <2>1
    <3>2. q[i - 1] = y /\ q[i] = Halve(y)
      BY <1>1, <1>3, <2>1, <3>1
    <3>. QED BY <3>2
  <2>2. CASE i # n + 1
    <3>1. i \in 1..n /\ i - 1 \in 0..n /\ i \in 0..n
      BY <2>2
    <3>2. q[i - 1] = p[i - 1] /\ q[i] = p[i]
      BY <1>3, <3>1
    <3>. QED BY <1>1, <3>1, <3>2
  <2>. QED BY <2>1, <2>2
<1>5. \A i \in 1..(n + 1) : g[q[i - 1]] = Broken /\ q[i] = Halve(q[i - 1])
  BY <1>4
<1>6. \E r \in [0..(n + 1) -> Int] : /\ r[0] = x /\ r[n + 1] = Halve(y)
                                     /\ \A i \in 1..(n + 1) : g[r[i - 1]] = Broken /\ r[i] = Halve(r[i - 1])
  BY <1>3, <1>5
<1>. QED BY <1>6 DEF Shrunk

\* Where the halving ends is a matter of the curve and of where it began.
LEMMA ShrunkAlike ==
  ASSUME NEW g, NEW x, NEW n \in Nat, NEW m \in Nat, n <= m, NEW y, NEW z,
         Shrunk(g, x, n, y), g[y] # Broken, Shrunk(g, x, m, z)
  PROVE  y = z
<1>1. PICK p \in [0..n -> Int] : /\ p[0] = x /\ p[n] = y
                                 /\ \A i \in 1..n : g[p[i - 1]] = Broken /\ p[i] = Halve(p[i - 1])
  BY DEF Shrunk
<1>2. PICK q \in [0..m -> Int] : /\ q[0] = x /\ q[m] = z
                                 /\ \A i \in 1..m : g[q[i - 1]] = Broken /\ q[i] = Halve(q[i - 1])
  BY DEF Shrunk
<1>3. PICK P : P = {i \in 0..n : p[i] = q[i]}
  OBVIOUS
<1>4. 0 \in P
  BY <1>1, <1>2, <1>3
<1>5. ASSUME NEW i \in 1..n, i - 1 \in P PROVE i \in P
  <2>1. i \in 1..m /\ p[i - 1] = q[i - 1]
    BY <1>3, <1>5
  <2>2. p[i] = q[i]
    BY <1>1, <1>2, <2>1
  <2>. QED BY <1>3, <2>2
<1>6. \A i \in 0..n : i \in P
  <2>1. \A i \in 1..n : i - 1 \in P => i \in P
    BY <1>5
  <2>. QED BY <1>4, <2>1, UpTo
<1>7. q[n] = y
  BY <1>1, <1>3, <1>6
<1>8. n = m
  <2>1. SUFFICES ASSUME n < m PROVE FALSE
    OBVIOUS
  <2>2. n + 1 \in 1..m /\ (n + 1) - 1 = n
    BY <2>1
  <2>3. g[q[n]] = Broken
    BY <1>2, <2>2
  <2>. QED BY <1>7, <2>3
<1>. QED BY <1>2, <1>7, <1>8

LEMMA OneUsable ==
  ASSUME NEW g, NEW x, NEW y, NEW z, Usable(g, x, y), Usable(g, x, z)
  PROVE  y = z
<1>1. PICK n \in Nat : Shrunk(g, x, n, y)
  BY DEF Usable
<1>2. PICK m \in Nat : Shrunk(g, x, m, z)
  BY DEF Usable
<1>3. g[y] # Broken /\ g[z] # Broken
  BY DEF Usable
<1>4. n <= m \/ m <= n
  OBVIOUS
<1>. QED BY <1>1, <1>2, <1>3, <1>4, ShrunkAlike

LEMMA BoundAt ==
  ASSUME NEW b, NEW x, NEW y, b = [low |-> x, high |-> y]
  PROVE  /\ b["low"] = x /\ b["high"] = y /\ b.low = x /\ b.high = y
         /\ \A z : /\ [b EXCEPT !["low"] = z] = [low |-> z, high |-> y]
                   /\ [b EXCEPT !["high"] = z] = [low |-> x, high |-> z]
<1>1. b["low"] = x /\ b["high"] = y /\ b.low = x /\ b.high = y
  OBVIOUS
<1>2. ASSUME NEW z PROVE [b EXCEPT !["low"] = z] = [low |-> z, high |-> y]
  OBVIOUS
<1>3. ASSUME NEW z PROVE [b EXCEPT !["high"] = z] = [low |-> x, high |-> z]
  OBVIOUS
<1>. QED BY <1>1, <1>2, <1>3

\* The target lies between the values at two points of the interval, the second of them the better.
Enclosed(g, t, lo, hi, a, b) ==
  /\ a \in lo..hi /\ b \in lo..hi /\ g[a] # Broken /\ g[b] # Broken
  /\ (g[a] - t) * (g[b] - t) <= 0 /\ Size(g[b] - t) <= Size(g[a] - t)

LEMMA OrderedEncloses ==
  ASSUME gain \in [Grid -> Int], NEW t \in Int, Target = t, NEW lo \in Grid, NEW hi \in Grid,
         NEW a \in lo..hi, NEW b \in lo..hi, gain[a] # Broken, gain[b] # Broken, Off(a) * Off(b) <= 0,
         NEW ab, ab = Ordered(a, b)
  PROVE  Enclosed(gain, t, lo, hi, ab[1], ab[2]) /\ ab[1] \in Grid /\ ab[2] \in Grid
<1>0. Reach \in Nat
  BY SearchAssumption
<1>1. a \in Grid /\ b \in Grid
  BY <1>0 DEF Grid
<1>2. PICK oa, ob : oa = Off(a) /\ ob = Off(b)
  OBVIOUS
<1>3. oa = gain[a] - t /\ ob = gain[b] - t /\ oa \in Int /\ ob \in Int /\ oa * ob <= 0
  BY <1>1, <1>2 DEF Off
<1>4. ab = IF Size(oa) < Size(ob) THEN <<b, a>> ELSE <<a, b>>
  BY <1>2 DEF Ordered
<1>5. CASE Size(oa) < Size(ob)
  <2>1. ab[1] = b /\ ab[2] = a
    BY <1>4, <1>5
  <2>2. ob * oa <= 0 /\ Size(oa) <= Size(ob)
    BY <1>3, <1>5 DEF Size
  <2>. QED BY <1>1, <1>3, <2>1, <2>2 DEF Enclosed
<1>6. CASE ~(Size(oa) < Size(ob))
  <2>1. ab[1] = a /\ ab[2] = b
    BY <1>4, <1>6
  <2>2. Size(ob) <= Size(oa)
    BY <1>3, <1>6 DEF Size
  <2>. QED BY <1>1, <1>3, <2>1, <2>2 DEF Enclosed
<1>. QED BY <1>5, <1>6

LEMMA NarrowEncloses ==
  ASSUME gain \in [Grid -> Int], NEW t \in Int, Target = t, NEW lo \in Grid, NEW hi \in Grid,
         Enclosed(gain, t, lo, hi, solver.a, solver.b), Off(solver.b) # 0,
         NEW s \in lo..hi, gain[s] # Broken, NEW ab, ab = Narrow(s)
  PROVE  Enclosed(gain, t, lo, hi, ab[1], ab[2]) /\ ab[1] \in Grid /\ ab[2] \in Grid
<1>0. Reach \in Nat
  BY SearchAssumption
<1>1. PICK a, b : a = solver.a /\ b = solver.b
  OBVIOUS
<1>2. a \in lo..hi /\ b \in lo..hi /\ gain[a] # Broken /\ gain[b] # Broken
  BY <1>1 DEF Enclosed
<1>3. a \in Grid /\ b \in Grid /\ s \in Grid
  BY <1>0, <1>2 DEF Grid
<1>4. PICK oa, ob, os : oa = Off(a) /\ ob = Off(b) /\ os = Off(s)
  OBVIOUS
<1>5. oa = gain[a] - t /\ ob = gain[b] - t /\ os = gain[s] - t /\ oa \in Int /\ ob \in Int /\ os \in Int
  BY <1>3, <1>4 DEF Off
<1>6. oa * ob <= 0 /\ Size(ob) <= Size(oa) /\ ob # 0
  BY <1>1, <1>4, <1>5, Zenon DEF Enclosed
<1>7. CASE oa * os < 0
  <2>1. ab = Ordered(a, s)
    BY <1>1, <1>4, <1>7 DEF Narrow
  <2>2. Off(a) * Off(s) <= 0
    BY <1>4, <1>5, <1>7, SignOfProduct
  <2>. QED BY <1>2, <2>1, <2>2, OrderedEncloses
<1>8. CASE ~(oa * os < 0)
  <2>1. ab = Ordered(s, b)
    BY <1>1, <1>4, <1>8 DEF Narrow
  <2>2. os * ob <= 0
    <3>1. oa # 0
      BY <1>5, <1>6 DEF Size
    <3>2. (oa < 0 /\ ob > 0) \/ (oa > 0 /\ ob < 0)
      BY <1>5, <1>6, <3>1, SignOfProduct
    <3>3. ~((oa < 0 /\ os > 0) \/ (oa > 0 /\ os < 0))
      BY <1>5, <1>8, SignOfProduct
    <3>4. (os <= 0 /\ ob >= 0) \/ (os >= 0 /\ ob <= 0)
      BY <1>5, <3>2, <3>3
    <3>. QED BY <1>5, <3>4, SignOfProduct
  <2>3. Off(s) * Off(b) <= 0
    BY <1>4, <2>2
  <2>. QED BY <1>2, <2>1, <2>3, OrderedEncloses
<1>. QED BY <1>7, <1>8

\* The next point to try lies within the bracket, whether it is trusted or not.
LEMMA NextPointWithin ==
  ASSUME NEW lo \in Grid, NEW hi \in Grid, NEW a \in lo..hi, NEW b \in lo..hi, solver.a = a, solver.b = b,
         NEW guess \in Grid, NEW s, s = IF Distrusted(guess) THEN (solver.a + solver.b) \div 2 ELSE guess
  PROVE  s \in lo..hi
<1>0. Reach \in Nat
  BY SearchAssumption
<1>1. CASE Distrusted(guess)
  <2>1. s = (a + b) \div 2
    BY <1>1
  <2>. QED BY <1>0, <2>1 DEF Grid
<1>2. CASE ~Distrusted(guess)
  <2>1. s = guess /\ Between(4 * s, 3 * a + b, 4 * b)
    BY <1>2 DEF Distrusted
  <2>. QED BY <1>0, <2>1 DEF Grid, Between
<1>. QED BY <1>1, <1>2

UpOrDown(g, P) == (\A x, y \in P : x < y => g[x] <= g[y]) \/ (\A x, y \in P : x < y => g[x] >= g[y])
\* What a row promises, of a target.
Meets(g, t, lo, hi, root) ==
  /\ root \in lo..hi
  /\ \E y \in lo..hi : Size(y - root) < Tolerance /\ g[y] # Broken /\ (g[y] - t) * (g[root] - t) <= 0
NowhereIn(g, t, lo, hi) ==
  (\A x \in lo..hi : g[x] # Broken) /\ UpOrDown(g, lo..hi) => \A x \in lo..hi : g[x] # t
RowOK(g, low, high, t, r) ==
  /\ r.bounds.low \in Grid /\ r.bounds.high \in Grid
  /\ r.converged => /\ Usable(g, low, r.bounds.low) /\ Usable(g, high, r.bounds.high)
                    /\ Meets(g, t, r.bounds.low, r.bounds.high, r.root)
  /\ r.reason = "unreachable" /\ r.bounds.low < r.bounds.high => NowhereIn(g, t, r.bounds.low, r.bounds.high)

LEMMA SettledMeets ==
  ASSUME gain \in [Grid -> Int], NEW t \in Int, Target = t, NEW lo \in Grid, NEW hi \in Grid,
         NEW a, NEW b, a = solver.a, b = solver.b, Enclosed(gain, t, lo, hi, a, b), Settled
  PROVE  Meets(gain, t, lo, hi, b)
<1>0. Reach \in Nat
  BY SearchAssumption
<1>1. a \in lo..hi /\ b \in lo..hi /\ gain[a] # Broken /\ gain[b] # Broken
      /\ (gain[a] - t) * (gain[b] - t) <= 0
  BY Zenon DEF Enclosed
<1>2. a \in Grid /\ b \in Grid /\ gain[a] \in Int /\ gain[b] \in Int
  BY <1>0, <1>1 DEF Grid
<1>3. CASE Off(b) = 0
  <2>1. gain[b] - t = 0
    BY <1>3 DEF Off
  <2>2. (gain[b] - t) * (gain[b] - t) <= 0
    BY <2>1
  <2>3. Size(b - b) < Tolerance
    BY <1>0, <1>2 DEF Size, Tolerance, Grid
  <2>. QED BY <1>1, <2>2, <2>3 DEF Meets
<1>4. CASE Size(b - a) < Tolerance
  <2>1. a \in Int /\ b \in Int
    BY <1>0, <1>2 DEF Grid
  <2>2. Size(a - b) = Size(b - a)
    BY ONLY <2>1 DEF Size
  <2>3. Size(a - b) < Tolerance
    BY ONLY <1>4, <2>2
  <2>. QED BY <1>1, <2>3 DEF Meets
<1>. QED BY <1>3, <1>4 DEF Settled

LEMMA MissedIsNowhere ==
  ASSUME NEW g \in [Grid -> Int], NEW t \in Int, NEW lo \in Grid, NEW hi \in Grid, lo < hi,
         ~((g[lo] - t) * (g[hi] - t) <= 0)
  PROVE  NowhereIn(g, t, lo, hi)
<1>0. Reach \in Nat /\ lo \in Int /\ hi \in Int /\ g[lo] \in Int /\ g[hi] \in Int
      /\ \A x \in lo..hi : x \in Int /\ x \in Grid /\ g[x] \in Int
  BY SearchAssumption DEF Grid
<1>1. (g[lo] < t /\ g[hi] < t) \/ (g[lo] > t /\ g[hi] > t)
  <2>1. PICK p, q : p = g[lo] - t /\ q = g[hi] - t
    OBVIOUS
  <2>2. p \in Int /\ q \in Int /\ ~(p * q <= 0)
    BY <1>0, <2>1
  <2>3. ~((p <= 0 /\ q >= 0) \/ (p >= 0 /\ q <= 0))
    BY <2>2, SignOfProduct
  <2>. QED BY <1>0, <2>1, <2>2, <2>3
<1>2. ASSUME UpOrDown(g, lo..hi), NEW x \in lo..hi PROVE g[x] # t
  <2>1. lo \in lo..hi /\ hi \in lo..hi /\ g[x] \in Int
    BY <1>0
  <2>2. CASE \A u, v \in lo..hi : u < v => g[u] <= g[v]
    <3>1. g[lo] <= g[x] /\ g[x] <= g[hi]
      BY <1>0, <2>1, <2>2
    <3>. QED BY <1>0, <1>1, <2>1, <3>1
  <2>3. CASE \A u, v \in lo..hi : u < v => g[u] >= g[v]
    <3>1. g[lo] >= g[x] /\ g[x] >= g[hi]
      BY <1>0, <2>1, <2>3
    <3>. QED BY <1>0, <1>1, <2>1, <3>1
  <2>. QED BY <1>2, <2>2, <2>3 DEF UpOrDown
<1>. QED BY <1>2 DEF NowhereIn

\* Two targets of a book that only loses: the smaller loss is met no later.
LEMMA SmallerLossFirst ==
  ASSUME NEW g \in [Grid -> Int], NEW lo \in Grid, NEW hi \in Grid, NEW t \in Int, NEW u \in Int, t < u,
         \A x, y \in lo..hi : x < y => g[x] > g[y],
         NEW p, Meets(g, t, lo, hi, p), NEW q, Meets(g, u, lo, hi, q)
  PROVE  q <= p + 1
<1>0. Reach \in Nat /\ lo \in Int /\ hi \in Int /\ \A x \in lo..hi : x \in Int /\ g[x] \in Int
  BY SearchAssumption DEF Grid
<1>1. p \in lo..hi /\ q \in lo..hi
  BY DEF Meets
<1>2. PICK y \in lo..hi : Size(y - p) < Tolerance /\ (g[y] - t) * (g[p] - t) <= 0
  BY DEF Meets
<1>3. PICK z \in lo..hi : Size(z - q) < Tolerance /\ (g[z] - u) * (g[q] - u) <= 0
  BY DEF Meets
<1>4. p \in Int /\ q \in Int /\ y \in Int /\ z \in Int
      /\ g[p] \in Int /\ g[q] \in Int /\ g[y] \in Int /\ g[z] \in Int
  BY <1>0, <1>1
<1>5. y <= p + 1 /\ p <= y + 1 /\ z <= q + 1 /\ q <= z + 1
  BY <1>2, <1>3, <1>4 DEF Size, Tolerance
<1>6. g[y] <= t \/ g[p] <= t
  <2>1. PICK i, j : i = g[y] - t /\ j = g[p] - t
    OBVIOUS
  <2>2. i \in Int /\ j \in Int /\ i * j <= 0
    BY <1>2, <1>4, <2>1
  <2>3. i <= 0 \/ j <= 0
    BY <2>2, SignOfProduct
  <2>. QED BY <1>4, <2>1, <2>3
<1>7. g[z] >= u \/ g[q] >= u
  <2>1. PICK i, j : i = g[z] - u /\ j = g[q] - u
    OBVIOUS
  <2>2. i \in Int /\ j \in Int /\ i * j <= 0
    BY <1>3, <1>4, <2>1
  <2>3. i >= 0 \/ j >= 0
    BY <2>2, SignOfProduct
  <2>. QED BY <1>4, <2>1, <2>3
<1>8. SUFFICES ASSUME q >= p + 2 PROVE FALSE
  BY <1>4
<1>9. PICK m \in {y, p} : g[m] <= t
  BY <1>6
<1>10. PICK n \in {z, q} : g[n] >= u
  BY <1>7
<1>11. m <= n /\ m \in lo..hi /\ n \in lo..hi /\ g[m] \in Int /\ g[n] \in Int
  BY <1>1, <1>4, <1>5, <1>8
<1>12. g[m] >= g[n]
  <2>1. CASE m = n
    BY <1>11, <2>1
  <2>2. CASE m < n
    BY <1>11, <2>2
  <2>. QED BY <1>4, <1>11, <2>1, <2>2
<1>. QED BY <1>9, <1>10, <1>11, <1>12

Grown(s, x, s1) ==
  /\ IsSeq(s1) /\ Len(s) \in Nat /\ Len(s1) = Len(s) + 1
  /\ s1[Len(s1)] = x /\ \A k \in 1..Len(s) : s1[k] = s[k]
LEMMA OneMoreRow == ASSUME NEW s, IsSeq(s), NEW x PROVE Grown(s, x, Append(s, x))
<1>0. PICK s1 : s1 = Append(s, x)
  OBVIOUS
<1>1. PICK T : s \in Seq(T)
  BY DEF IsSeq
<1>2. PICK S : S = T \cup {x}
  OBVIOUS
<1>3. s \in Seq(S) /\ x \in S
  BY <1>1, <1>2
<1>4. /\ s1 \in Seq(S) /\ Len(s1) = Len(s) + 1 /\ Len(s) \in Nat
      /\ \A k \in 1..Len(s) : s1[k] = s[k]
  BY <1>0, <1>3, AppendProperties
<1>5. s1[Len(s1)] = x
  BY <1>0, <1>3, <1>4, AppendProperties
<1>. QED BY <1>0, <1>4, <1>5 DEF IsSeq, Grown

Rows(g, asked, as) == \A k \in 1..Len(as) : RowOK(g, asked.low, asked.high, -asked.targets[k], as[k])
LEMMA RowsGrow ==
  ASSUME NEW g, NEW asked, NEW as, IsSeq(as), Rows(g, asked, as),
         NEW r, RowOK(g, asked.low, asked.high, -asked.targets[Len(as) + 1], r), NEW as1, as1 = Append(as, r)
  PROVE  Rows(g, asked, as1)
<1>1. /\ Len(as) \in Nat /\ Len(as1) = Len(as) + 1
      /\ as1[Len(as1)] = r /\ \A k \in 1..Len(as) : as1[k] = as[k]
  <2>1. Grown(as, r, as1)
    BY OneMoreRow
  <2>. QED BY <2>1 DEF Grown
<1>2. ASSUME NEW k \in 1..Len(as1) PROVE RowOK(g, asked.low, asked.high, -asked.targets[k], as1[k])
  <2>1. CASE k = Len(as1)
    <3>1. k = Len(as) + 1 /\ as1[k] = r
      BY <1>1, <2>1
    <3>. QED BY <3>1
  <2>2. CASE k # Len(as1)
    <3>1. k \in 1..Len(as)
      <4>1. PICK n, n1 : n = Len(as) /\ n1 = Len(as1)
        OBVIOUS
      <4>2. n \in Nat /\ n1 = n + 1 /\ k \in 1..n1 /\ k # n1
        BY <1>1, <2>2, <4>1
      <4>3. k \in 1..n
        BY ONLY <4>2
      <4>. QED BY <4>1, <4>3
    <3>2. as1[k] = as[k] /\ RowOK(g, asked.low, asked.high, -asked.targets[k], as[k])
      BY <1>1, <3>1 DEF Rows
    <3>. QED BY <3>2
  <2>. QED BY <2>1, <2>2
<1>. QED BY <1>2 DEF Rows

SearchInv ==
  /\ gain \in Shapes /\ search \in Searches
  /\ at \in {"begin", "low", "high", "bracket", "solve", "done", "raised"}
  /\ tries \in 0..Halvings
  /\ bounds = [low |-> bounds.low, high |-> bounds.high] /\ bounds.low \in Grid /\ bounds.high \in Grid
  /\ solver.a \in Grid /\ solver.b \in Grid /\ solver.c \in Grid /\ solver.i \in Nat
  /\ IsSeq(answers)
  /\ at \notin {"done", "raised"} => Len(answers) < Len(search.targets)
  /\ at = "done" => Len(answers) = Len(search.targets) /\ answers[Len(answers)].bounds = bounds
  /\ at = "raised" /\ search.kind = "single" => Len(answers) <= Len(search.targets)
  /\ at = "raised" /\ search.kind # "single" => /\ Len(answers) < Len(search.targets)
                                                /\ \E x \in Grid : gain[x] = Broken
  /\ at = "low" => Shrunk(gain, search.low, tries, bounds.low) /\ bounds.high = search.high
  /\ at = "high" => Usable(gain, search.low, bounds.low) /\ Shrunk(gain, search.high, tries, bounds.high)
  /\ at \in {"bracket", "solve"} => Usable(gain, search.low, bounds.low) /\ Usable(gain, search.high, bounds.high)
  /\ at = "solve" => Enclosed(gain, Target, bounds.low, bounds.high, solver.a, solver.b)
  /\ Rows(gain, search, answers)

LEMMA SearchHas ==
  ASSUME SearchInv
  PROVE  /\ Reach \in Nat /\ 0 \in Grid /\ Halvings \in Nat \ {0}
         /\ gain \in [Grid -> Int] /\ search.low \in Grid /\ search.high \in Grid
         /\ search.targets \in Seq(Int) /\ Len(search.targets) \in Nat \ {0}
         /\ \A k \in 1..Len(search.targets) : search.targets[k] \in Int
         /\ Len(answers) \in Nat
<1>1. Reach \in Nat /\ 0 \in Grid /\ Halvings \in Nat \ {0}
  BY SearchAssumption DEF Grid
<1>2. gain \in [Grid -> Int] /\ search.low \in Grid /\ search.high \in Grid /\ search.targets \in Seq(Int) \ {<<>>}
  BY SearchInputs DEF SearchInv, Grid
<1>3. Len(answers) \in Nat
  BY DEF SearchInv, IsSeq
<1>4. Len(search.targets) \in Nat \ {0} /\ \A k \in 1..Len(search.targets) : search.targets[k] \in Int
  <2>1. PICK ts : ts = search.targets
    OBVIOUS
  <2>2. ts \in Seq(Int) /\ ts # <<>>
    BY <1>2, <2>1
  <2>3. Len(ts) \in Nat \ {0} /\ \A k \in 1..Len(ts) : ts[k] \in Int
    BY <2>2, EmptySeq, LenProperties, ElementOfSeq
  <2>. QED BY <2>1, <2>3
<1>. QED BY <1>1, <1>2, <1>3, <1>4

LEMMA SearchStarts == SearchInit => SearchInv
<1>. SUFFICES ASSUME NEW f \in Shapes, NEW asked \in Searches, SearchFor(f, asked) PROVE SearchInv
  BY DEF SearchInit
<1>1. /\ gain = f /\ search = asked /\ at = "begin" /\ tries = 0 /\ answers = <<>>
      /\ bounds = [low |-> 0, high |-> 0]
      /\ solver = [a |-> 0, b |-> 0, c |-> 0, d |-> 0, bisected |-> TRUE, i |-> 1]
  BY DEF SearchFor
<1>2. 0 \in Grid /\ 0 \in 0..Halvings
  BY SearchAssumption DEF Grid
<1>3. bounds = [low |-> bounds.low, high |-> bounds.high] /\ bounds.low \in Grid /\ bounds.high \in Grid
  BY <1>1, <1>2
<1>4. solver.a \in Grid /\ solver.b \in Grid /\ solver.c \in Grid /\ solver.i \in Nat
  BY <1>1, <1>2
<1>5. IsSeq(answers) /\ Len(answers) = 0 /\ 1..Len(answers) = {}
  BY <1>1 DEF IsSeq
<1>6. Len(search.targets) > 0
  <2>1. PICK ts : ts = search.targets
    OBVIOUS
  <2>2. ts \in Seq(Int) /\ ts # <<>>
    BY <1>1, <2>1, SearchInputs
  <2>3. Len(ts) \in Nat \ {0}
    BY <2>2, EmptySeq, LenProperties
  <2>. QED BY <2>1, <2>3
<1>. QED BY <1>1, <1>2, <1>3, <1>4, <1>5, <1>6 DEF SearchInv, Rows

LEMMA OneLess ==
  ASSUME NEW n \in Nat, NEW m \in Nat, n < m, NEW n1, n1 = n + 1
  PROVE  n1 <= m /\ n1 \in Nat /\ (n1 # m => n1 < m)
OBVIOUS

\* A target is refused: its row says so, and the search goes on, ends or is raised.
LEMMA RefusalKeeps ==
  ASSUME SearchInv, at \notin {"done", "raised"}, NEW reason \in {"input", "empty side", "unreachable"},
         RefuseTarget(reason), UNCHANGED <<gain, search>>, tries' \in 0..Halvings,
         NEW b, bounds' = b, b = [low |-> b.low, high |-> b.high], b.low \in Grid, b.high \in Grid,
         reason = "unreachable" /\ b.low < b.high => NowhereIn(gain, Target, b.low, b.high)
  PROVE  SearchInv'
<1>1. /\ answers' = Append(answers, Row(NoRoot, FALSE, FALSE, reason))
      /\ at' = IF search.kind = "single" THEN "raised"
               ELSE IF Len(answers') = Len(search.targets) THEN "done" ELSE "begin"
      /\ UNCHANGED solver
  BY DEF RefuseTarget
<1>2. PICK r : r = [root |-> NoRoot, converged |-> FALSE, monotone |-> FALSE, reason |-> reason, bounds |-> b]
  OBVIOUS
<1>3. answers' = Append(answers, r) /\ r.bounds = b /\ ~r.converged /\ r.reason = reason
  BY <1>1, <1>2 DEF Row
<1>4. /\ IsSeq(answers') /\ Len(answers) \in Nat /\ Len(answers') = Len(answers) + 1
      /\ answers'[Len(answers')] = r
  <2>1. IsSeq(answers)
    BY DEF SearchInv
  <2>2. Grown(answers, r, answers')
    BY <1>3, <2>1, OneMoreRow
  <2>. QED BY <2>2 DEF Grown
<1>5. RowOK(gain, search.low, search.high, -search.targets[Len(answers) + 1], r)
  BY <1>3 DEF RowOK, Target
<1>6. Rows(gain, search, answers')
  BY <1>3, <1>5, RowsGrow DEF SearchInv
<1>7. PICK n, n1, m : n = Len(answers) /\ n1 = Len(answers') /\ m = Len(search.targets)
  OBVIOUS
<1>7a. n \in Nat /\ m \in Nat /\ n < m /\ n1 = n + 1
  <2>1. Len(search.targets) \in Nat /\ Len(answers) < Len(search.targets)
    BY SearchHas DEF SearchInv
  <2>. QED BY <1>4, <1>7, <2>1
<1>7b. n1 <= m /\ n1 \in Nat /\ (n1 # m => n1 < m)
  BY <1>7a, OneLess
<1>8. Len(answers') <= Len(search.targets)
  BY <1>7, <1>7b
<1>9. /\ at' \in {"begin", "done", "raised"}
      /\ at' = "begin" => Len(answers') < Len(search.targets)
      /\ at' = "done" => Len(answers') = Len(search.targets)
      /\ at' = "raised" => search.kind = "single"
  <2>1. at' = IF search.kind = "single" THEN "raised" ELSE IF n1 = m THEN "done" ELSE "begin"
    BY <1>1, <1>7
  <2>. QED BY <1>7, <1>7b, <2>1
<1>10. answers'[Len(answers')].bounds = bounds'
  BY <1>3, <1>4
<1>. QED BY <1>1, <1>4, <1>6, <1>8, <1>9, <1>10 DEF SearchInv

LEMMA BeginKeeps == ASSUME SearchInv, Begin PROVE SearchInv'
<1>0. /\ at = "begin" /\ UNCHANGED <<gain, search>> /\ tries' = 0
      /\ bounds' = [low |-> search.low, high |-> search.high]
  BY DEF Begin
<1>1. PICK b : b = [low |-> search.low, high |-> search.high]
  OBVIOUS
<1>2. bounds' = b /\ b = [low |-> b.low, high |-> b.high] /\ b.low = search.low /\ b.high = search.high
      /\ b.low \in Grid /\ b.high \in Grid /\ 0 \in 0..Halvings
  BY <1>0, <1>1, SearchHas
<1>3. CASE RefuseTarget("input")
  BY <1>0, <1>2, <1>3, RefusalKeeps
<1>4. CASE at' = "low" /\ UNCHANGED <<solver, answers>>
  <2>1. search.low \in Int
    BY SearchHas DEF Grid
  <2>2. Shrunk(gain, search.low, 0, search.low)
    BY <2>1, ShrunkNot
  <2>. QED BY <1>0, <1>2, <1>4, <2>2 DEF SearchInv
<1>. QED BY <1>3, <1>4 DEF Begin

LEMMA ShrinkKeeps == ASSUME SearchInv, Shrink PROVE SearchInv'
<1>0. at \in {"low", "high"} /\ UNCHANGED <<gain, search>>
  BY DEF Shrink
<1>1. PICK lo, hi : lo = bounds.low /\ hi = bounds.high
  OBVIOUS
<1>2. bounds = [low |-> lo, high |-> hi] /\ lo \in Grid /\ hi \in Grid /\ tries \in 0..Halvings
  BY <1>1 DEF SearchInv
<1>3. CASE ~MayTry /\ UNCHANGED <<bounds, tries>> /\ RefuseTarget("empty side")
  <2>1. PICK b : b = bounds
    OBVIOUS
  <2>2. bounds' = b /\ b = [low |-> b.low, high |-> b.high] /\ b.low \in Grid /\ b.high \in Grid
    BY <1>1, <1>2, <1>3, <2>1
  <2>3. at \notin {"done", "raised"} /\ tries' \in 0..Halvings
    BY <1>0, <1>2, <1>3
  <2>. QED BY <1>0, <1>3, <2>2, <2>3, RefusalKeeps
<1>4. CASE /\ MayTry /\ gain[bounds[at]] = Broken
           /\ bounds' = [bounds EXCEPT ![at] = Halve(@)]
           /\ tries' = tries + 1
           /\ UNCHANGED <<at, solver, answers>>
  <2>1. tries + 1 \in 0..Halvings /\ tries \in Nat
    BY <1>2, <1>4, SearchHas DEF MayTry
  <2>2. CASE at = "low"
    <3>1. gain[lo] = Broken /\ bounds' = [low |-> Halve(lo), high |-> hi]
      <4>1. bounds["low"] = lo
        BY <1>2, BoundAt
      <4>2. [bounds EXCEPT !["low"] = Halve(lo)] = [low |-> Halve(lo), high |-> hi]
        BY <1>2, BoundAt
      <4>. QED BY <1>4, <2>2, <4>1, <4>2
    <3>2. Halve(lo) \in Grid /\ lo \in Int /\ Halve(lo) \in Int
      BY <1>2, SearchHas, HalfInGrid DEF Grid
    <3>3. Shrunk(gain, search.low, tries, lo) /\ hi = search.high
      BY <1>1, <2>2 DEF SearchInv
    <3>4. Shrunk(gain, search.low, tries + 1, Halve(lo))
      BY <2>1, <3>1, <3>2, <3>3, ShrunkOnce
    <3>5. bounds'.low = Halve(lo) /\ bounds'.high = hi /\ bounds' = [low |-> bounds'.low, high |-> bounds'.high]
      BY <3>1
    <3>. QED BY <1>0, <1>2, <1>4, <2>1, <2>2, <3>2, <3>3, <3>4, <3>5 DEF SearchInv
  <2>3. CASE at = "high"
    <3>1. gain[hi] = Broken /\ bounds' = [low |-> lo, high |-> Halve(hi)]
      <4>1. bounds["high"] = hi
        BY <1>2, BoundAt
      <4>2. [bounds EXCEPT !["high"] = Halve(hi)] = [low |-> lo, high |-> Halve(hi)]
        BY <1>2, BoundAt
      <4>. QED BY <1>4, <2>3, <4>1, <4>2
    <3>2. Halve(hi) \in Grid /\ hi \in Int /\ Halve(hi) \in Int
      BY <1>2, SearchHas, HalfInGrid DEF Grid
    <3>3. Usable(gain, search.low, lo) /\ Shrunk(gain, search.high, tries, hi)
      BY <1>1, <2>3 DEF SearchInv
    <3>4. Shrunk(gain, search.high, tries + 1, Halve(hi))
      BY <2>1, <3>1, <3>2, <3>3, ShrunkOnce
    <3>5. bounds'.low = lo /\ bounds'.high = Halve(hi) /\ bounds' = [low |-> bounds'.low, high |-> bounds'.high]
      BY <3>1
    <3>. QED BY <1>0, <1>2, <1>4, <2>1, <2>3, <3>2, <3>3, <3>4, <3>5 DEF SearchInv
  <2>. QED BY <1>0, <2>2, <2>3
<1>5. CASE /\ MayTry /\ gain[bounds[at]] # Broken
           /\ tries' = 0
           /\ at' = IF at = "low" THEN "high" ELSE "bracket"
           /\ UNCHANGED <<bounds, solver, answers>>
  <2>0. 0 \in 0..Halvings /\ tries \in Nat
    BY <1>2, SearchHas
  <2>1. CASE at = "low"
    <3>1. gain[lo] # Broken
      <4>1. bounds["low"] = lo
        BY <1>2, BoundAt
      <4>. QED BY <1>5, <2>1, <4>1
    <3>2. Usable(gain, search.low, lo)
      BY <1>1, <2>0, <2>1, <3>1 DEF SearchInv, Usable
    <3>3. Shrunk(gain, search.high, 0, hi)
      <4>1. hi = search.high /\ hi \in Int
        BY <1>1, <1>2, <2>1 DEF SearchInv, Grid
      <4>. QED BY <4>1, ShrunkNot
    <3>. QED BY <1>0, <1>1, <1>5, <2>0, <2>1, <3>2, <3>3 DEF SearchInv
  <2>2. CASE at = "high"
    <3>1. gain[hi] # Broken
      <4>1. bounds["high"] = hi
        BY <1>2, BoundAt
      <4>. QED BY <1>5, <2>2, <4>1
    <3>2. Usable(gain, search.high, hi) /\ Usable(gain, search.low, lo)
      BY <1>1, <2>0, <2>2, <3>1 DEF SearchInv, Usable
    <3>. QED BY <1>0, <1>1, <1>5, <2>0, <2>2, <3>2 DEF SearchInv
  <2>. QED BY <1>0, <2>1, <2>2
<1>. QED BY <1>3, <1>4, <1>5 DEF Shrink

LEMMA TargetIs == ASSUME SearchInv, at \notin {"done", "raised"} PROVE Target \in Int
<1>1. PICK n, m, ts : n = Len(answers) /\ m = Len(search.targets) /\ ts = search.targets
  OBVIOUS
<1>2. n \in Nat /\ m \in Nat /\ n < m
  BY <1>1, SearchHas DEF SearchInv
<1>3. n + 1 \in 1..m
  BY <1>2
<1>4. ts[n + 1] \in Int
  BY <1>1, <1>3, SearchHas
<1>. QED BY <1>1, <1>4 DEF Target

LEMMA BracketKeeps == ASSUME SearchInv, Bracket PROVE SearchInv'
<1>0. at = "bracket" /\ UNCHANGED <<gain, search, bounds, tries>>
  BY DEF Bracket
<1>1. PICK lo, hi, t : lo = bounds.low /\ hi = bounds.high /\ t = Target
  OBVIOUS
<1>2. /\ bounds = [low |-> lo, high |-> hi] /\ lo \in Grid /\ hi \in Grid /\ t \in Int
      /\ tries \in 0..Halvings /\ at \notin {"done", "raised"}
  BY <1>0, <1>1, TargetIs DEF SearchInv
<1>3. Sampled(lo, hi) \subseteq Grid /\ lo \in Sampled(lo, hi) /\ hi \in Sampled(lo, hi)
  BY <1>2, SampledIsWithin
<1>4. CASE /\ \E x \in Sampled(bounds.low, bounds.high) : gain[x] = Broken
           /\ at' = "raised"
           /\ UNCHANGED <<solver, answers>>
  <2>1. \E x \in Grid : gain[x] = Broken
    BY <1>1, <1>3, <1>4
  <2>2. Len(answers) < Len(search.targets) /\ Len(answers) <= Len(search.targets)
    BY <1>0, SearchHas DEF SearchInv
  <2>. QED BY <1>0, <1>4, <2>1, <2>2 DEF SearchInv
<1>5. CASE /\ bounds.high <= bounds.low \/ ~Encloses(bounds.low, bounds.high)
           /\ RefuseTarget("unreachable")
  <2>1. PICK b : b = bounds
    OBVIOUS
  <2>2. bounds' = b /\ b = [low |-> b.low, high |-> b.high] /\ b.low = lo /\ b.high = hi
    BY <1>0, <1>1, <1>2, <2>1
  <2>3. ASSUME lo < hi PROVE NowhereIn(gain, t, lo, hi)
    <3>1. ~((gain[lo] - t) * (gain[hi] - t) <= 0)
      <4>1. lo \in Int /\ hi \in Int
        BY <1>2, SearchHas DEF Grid
      <4>. QED BY <1>1, <1>5, <2>3, <4>1 DEF Encloses, Off
    <3>. QED BY <1>2, <2>3, <3>1, SearchHas, MissedIsNowhere
  <2>4. tries' \in 0..Halvings
    BY <1>0, <1>2
  <2>. QED BY <1>0, <1>1, <1>2, <1>5, <2>2, <2>3, <2>4, RefusalKeeps
<1>6. CASE /\ \A x \in Sampled(bounds.low, bounds.high) : gain[x] # Broken
           /\ bounds.low < bounds.high /\ Encloses(bounds.low, bounds.high)
           /\ at' = "solve"
           /\ LET ab == Ordered(bounds.low, bounds.high)
              IN solver' = [a |-> ab[1], b |-> ab[2], c |-> ab[1],
                            d |-> ab[2] - ab[1], bisected |-> TRUE, i |-> 1]
           /\ UNCHANGED answers
  <2>1. PICK ab : ab = Ordered(lo, hi)
    OBVIOUS
  <2>2. gain[lo] # Broken /\ gain[hi] # Broken /\ lo \in lo..hi /\ hi \in lo..hi /\ Off(lo) * Off(hi) <= 0
    <3>1. lo \in Int /\ hi \in Int /\ lo < hi
      BY <1>1, <1>2, <1>6, SearchHas DEF Grid
    <3>. QED BY <1>1, <1>3, <1>6, <3>1 DEF Encloses
  <2>3. Enclosed(gain, t, lo, hi, ab[1], ab[2]) /\ ab[1] \in Grid /\ ab[2] \in Grid
    BY <1>1, <1>2, <2>1, <2>2, SearchHas, OrderedEncloses
  <2>4. solver' = [a |-> ab[1], b |-> ab[2], c |-> ab[1], d |-> ab[2] - ab[1], bisected |-> TRUE, i |-> 1]
    BY <1>1, <1>6, <2>1
  <2>5. solver'.a = ab[1] /\ solver'.b = ab[2] /\ solver'.c = ab[1] /\ solver'.i = 1
    BY <2>4
  <2>6. Target' = t
    BY <1>0, <1>1, <1>6 DEF Target
  <2>7. Enclosed(gain', Target', bounds'.low, bounds'.high, solver'.a, solver'.b)
    BY <1>0, <1>1, <2>3, <2>5, <2>6
  <2>. QED BY <1>0, <1>2, <1>6, <2>3, <2>5, <2>7 DEF SearchInv
<1>. QED BY <1>4, <1>5, <1>6 DEF Bracket

LEMMA ConcludeKeeps == ASSUME SearchInv, Conclude PROVE SearchInv'
<1>0. /\ at = "solve" /\ UNCHANGED <<gain, search, bounds, tries, solver>>
      /\ Settled \/ solver.i > MaxIter
      /\ at' = IF Len(answers') = Len(search.targets) THEN "done" ELSE "begin"
  BY DEF Conclude
<1>1. PICK lo, hi, t, a, b : lo = bounds.low /\ hi = bounds.high /\ t = Target /\ a = solver.a /\ b = solver.b
  OBVIOUS
<1>2. /\ bounds' = bounds /\ lo \in Grid /\ hi \in Grid /\ t \in Int
      /\ at \notin {"done", "raised"}
  BY <1>0, <1>1, TargetIs DEF SearchInv
<1>3. PICK mono : mono = Monotone(Sampled(bounds.low, bounds.high))
  OBVIOUS
<1>4. PICK r : r = [root |-> solver.b, converged |-> (solver.i <= MaxIter), monotone |-> mono,
                    reason |-> "none", bounds |-> bounds]
  OBVIOUS
<1>5. answers' = Append(answers, r)
  BY <1>2, <1>3, <1>4 DEF Conclude, Row
<1>6. r.bounds = bounds /\ r.root = b /\ r.reason = "none"
  BY <1>1, <1>4
<1>6a. r.converged = (solver.i <= MaxIter)
  BY <1>4, Zenon
<1>7. /\ IsSeq(answers') /\ Len(answers) \in Nat /\ Len(answers') = Len(answers) + 1
      /\ answers'[Len(answers')] = r
  <2>1. IsSeq(answers)
    BY DEF SearchInv
  <2>2. Grown(answers, r, answers')
    BY <1>5, <2>1, OneMoreRow
  <2>. QED BY <2>2 DEF Grown
<1>8. ASSUME r.converged PROVE Meets(gain, t, lo, hi, b)
  <2>1. solver.i <= MaxIter /\ solver.i \in Nat /\ MaxIter \in Nat
    BY <1>6a, <1>8, SearchAssumption DEF SearchInv
  <2>2. Settled
    <3>1. PICK i, m : i = solver.i /\ m = MaxIter
      OBVIOUS
    <3>2. i \in Nat /\ m \in Nat /\ i <= m /\ (Settled \/ i > m)
      BY <1>0, <2>1, <3>1
    <3>. QED BY <3>2
  <2>3. Enclosed(gain, t, lo, hi, a, b)
    BY <1>0, <1>1 DEF SearchInv
  <2>. QED BY <1>1, <1>2, <2>2, <2>3, SearchHas, SettledMeets
<1>9. RowOK(gain, search.low, search.high, -search.targets[Len(answers) + 1], r)
  <2>1. Usable(gain, search.low, lo) /\ Usable(gain, search.high, hi)
    BY <1>0, <1>1 DEF SearchInv
  <2>2. t = -search.targets[Len(answers) + 1]
    BY <1>1 DEF Target
  <2>3. r.bounds.low = lo /\ r.bounds.high = hi
    BY <1>1, <1>6
  <2>4. r.converged => /\ Usable(gain, search.low, r.bounds.low) /\ Usable(gain, search.high, r.bounds.high)
                       /\ Meets(gain, t, r.bounds.low, r.bounds.high, r.root)
    BY <1>6, <1>8, <2>1, <2>3
  <2>. QED BY <1>2, <1>6, <2>2, <2>3, <2>4 DEF RowOK
<1>10. Rows(gain, search, answers')
  BY <1>5, <1>9, RowsGrow DEF SearchInv
<1>11. PICK n, n1, m : n = Len(answers) /\ n1 = Len(answers') /\ m = Len(search.targets)
  OBVIOUS
<1>12. n \in Nat /\ m \in Nat /\ n < m /\ n1 = n + 1
  <2>1. Len(search.targets) \in Nat /\ Len(answers) < Len(search.targets)
    BY <1>2, SearchHas DEF SearchInv
  <2>. QED BY <1>7, <1>11, <2>1
<1>13. n1 <= m /\ n1 \in Nat /\ (n1 # m => n1 < m)
  BY <1>12, OneLess
<1>14. /\ at' \in {"begin", "done"}
       /\ at' = "begin" => Len(answers') < Len(search.targets)
       /\ at' = "done" => Len(answers') = Len(search.targets)
  BY <1>0, <1>11, <1>13
<1>15. answers'[Len(answers')].bounds = bounds'
  BY <1>2, <1>6, <1>7
<1>. QED BY <1>0, <1>7, <1>10, <1>14, <1>15 DEF SearchInv

LEMMA IterateKeeps == ASSUME SearchInv, Iterate PROVE SearchInv'
<1>0. at = "solve" /\ ~Settled /\ UNCHANGED <<gain, search, bounds, tries>>
  BY DEF Iterate
<1>1. PICK lo, hi, t, a, b : lo = bounds.low /\ hi = bounds.high /\ t = Target /\ a = solver.a /\ b = solver.b
  OBVIOUS
<1>2. /\ lo \in Grid /\ hi \in Grid /\ t \in Int /\ at \notin {"done", "raised"}
      /\ Enclosed(gain, t, lo, hi, a, b)
  BY <1>0, <1>1, TargetIs DEF SearchInv
<1>3. PICK guess \in -Reach..Reach :
         LET s == IF Distrusted(guess) THEN (solver.a + solver.b) \div 2 ELSE guess
         IN \/ /\ gain[s] = Broken
               /\ at' = "raised"
               /\ UNCHANGED <<solver, answers>>
            \/ /\ gain[s] # Broken
               /\ LET ab == Narrow(s)
                  IN solver' = [a |-> ab[1], b |-> ab[2], c |-> solver.b, d |-> solver.c,
                                bisected |-> Distrusted(guess), i |-> solver.i + 1]
               /\ UNCHANGED <<at, answers>>
  BY DEF Iterate
<1>4. PICK s : s = IF Distrusted(guess) THEN (solver.a + solver.b) \div 2 ELSE guess
  OBVIOUS
<1>5. s \in lo..hi /\ s \in Grid
  <2>1. a \in lo..hi /\ b \in lo..hi /\ guess \in Grid
    BY <1>2 DEF Enclosed, Grid
  <2>2. s \in lo..hi
    BY <1>1, <1>2, <1>4, <2>1, NextPointWithin
  <2>. QED BY <1>2, <2>2, SearchHas DEF Grid
<1>6. CASE gain[s] = Broken /\ at' = "raised" /\ UNCHANGED <<solver, answers>>
  <2>1. \E x \in Grid : gain[x] = Broken
    BY <1>5, <1>6
  <2>2. Len(answers) < Len(search.targets) /\ Len(answers) <= Len(search.targets)
    BY <1>0, SearchHas DEF SearchInv
  <2>. QED BY <1>0, <1>6, <2>1, <2>2 DEF SearchInv
<1>7. CASE /\ gain[s] # Broken
           /\ solver' = [a |-> Narrow(s)[1], b |-> Narrow(s)[2], c |-> solver.b, d |-> solver.c,
                         bisected |-> Distrusted(guess), i |-> solver.i + 1]
           /\ UNCHANGED <<at, answers>>
  <2>1. PICK ab : ab = Narrow(s)
    OBVIOUS
  <2>2. Off(solver.b) # 0
    BY <1>0 DEF Settled
  <2>3. Enclosed(gain, t, lo, hi, ab[1], ab[2]) /\ ab[1] \in Grid /\ ab[2] \in Grid
    BY <1>1, <1>2, <1>5, <1>7, <2>1, <2>2, SearchHas, NarrowEncloses
  <2>4. solver'.a = ab[1] /\ solver'.b = ab[2] /\ solver'.c = solver.b /\ solver'.i = solver.i + 1
    BY <1>7, <2>1
  <2>5. solver'.c \in Grid /\ solver'.i \in Nat
    BY <2>4 DEF SearchInv
  <2>6. Target' = t
    BY <1>0, <1>1, <1>7 DEF Target
  <2>7. Enclosed(gain', Target', bounds'.low, bounds'.high, solver'.a, solver'.b)
    BY <1>0, <1>1, <2>3, <2>4, <2>6
  <2>. QED BY <1>0, <1>7, <2>3, <2>4, <2>5, <2>7 DEF SearchInv
<1>. QED BY <1>3, <1>4, <1>6, <1>7

LEMMA SearchFollows == ASSUME SearchInv PROVE SearchHolds
<1>1. PICK g, lo, hi, n, m : g = gain /\ lo = bounds.low /\ hi = bounds.high /\ n = Len(answers) /\ m = Len(search.targets)
  OBVIOUS
<1>2. /\ g \in [Grid -> Int] /\ lo \in Grid /\ hi \in Grid /\ n \in Nat /\ m \in Nat \ {0} /\ Reach \in Nat
      /\ \A x \in Grid : x \in Int
  BY <1>1, SearchHas DEF SearchInv, Grid
<1>3. n <= m
  <2>1. at \notin {"done", "raised"} => n < m
    BY <1>1 DEF SearchInv
  <2>2. at = "done" => n = m
    BY <1>1 DEF SearchInv
  <2>3. at = "raised" => n <= m \/ n < m
    BY <1>1 DEF SearchInv
  <2>. QED BY <1>2, <2>1, <2>2, <2>3
<1>4. SearchTypeOK
  <2>1. Len(answers) <= Len(search.targets)
    BY <1>1, <1>3
  <2>2. {bounds.low, bounds.high, solver.a, solver.b, solver.c} \subseteq -Reach..Reach
    BY DEF SearchInv, Grid
  <2>. QED BY <2>1, <2>2 DEF SearchInv, SearchTypeOK
<1>5. RootStaysEnclosed
  <2>. SUFFICES ASSUME at = "solve"
                PROVE  /\ Off(solver.a) * Off(solver.b) <= 0
                       /\ Size(Off(solver.b)) <= Size(Off(solver.a))
                       /\ {solver.a, solver.b} \subseteq bounds.low..bounds.high
    BY DEF RootStaysEnclosed
  <2>1. Enclosed(gain, Target, bounds.low, bounds.high, solver.a, solver.b)
    BY DEF SearchInv
  <2>2. Off(solver.a) = gain[solver.a] - Target /\ Off(solver.b) = gain[solver.b] - Target
    BY DEF Off
  <2>. QED BY <2>1, <2>2 DEF Enclosed
<1>6. \A k \in 1..n : RowOK(g, search.low, search.high, -search.targets[k], answers[k])
  BY <1>1 DEF SearchInv, Rows
<1>7. ConvergedIsAnswer
  <2>. SUFFICES ASSUME NEW k \in 1..Len(answers), answers[k].converged
                PROVE  LET t == -search.targets[k]
                       IN \E y \in answers[k].bounds.low..answers[k].bounds.high :
                             /\ Size(y - answers[k].root) < Tolerance /\ gain[y] # Broken
                             /\ (gain[y] - t) * (gain[answers[k].root] - t) <= 0
    BY DEF ConvergedIsAnswer
  <2>1. Meets(g, -search.targets[k], answers[k].bounds.low, answers[k].bounds.high, answers[k].root)
    BY <1>1, <1>6 DEF RowOK
  <2>. QED BY <1>1, <2>1 DEF Meets
<1>8. UnreachableIsTrue
  <2>. SUFFICES ASSUME NEW k \in 1..Len(answers), answers[k].reason = "unreachable",
                       answers[k].bounds.low < answers[k].bounds.high,
                       \A x \in answers[k].bounds.low..answers[k].bounds.high : gain[x] # Broken,
                       Monotone(answers[k].bounds.low..answers[k].bounds.high)
                PROVE  \A x \in answers[k].bounds.low..answers[k].bounds.high : gain[x] # -search.targets[k]
    BY DEF UnreachableIsTrue
  <2>1. NowhereIn(g, -search.targets[k], answers[k].bounds.low, answers[k].bounds.high)
    BY <1>1, <1>6 DEF RowOK
  <2>2. UpOrDown(g, answers[k].bounds.low..answers[k].bounds.high)
    BY <1>1 DEF Monotone, UpOrDown
  <2>. QED BY <1>1, <2>1, <2>2 DEF NowhereIn
<1>9. EveryTargetHasItsRow
  <2>1. at = "done" => Len(answers) = Len(search.targets)
    BY DEF SearchInv
  <2>2. at = "raised" /\ search.kind # "single" => \E x \in -Reach..Reach : gain[x] = Broken
    BY DEF SearchInv, Grid
  <2>. QED BY <2>1, <2>2 DEF EveryTargetHasItsRow
<1>10. AmberComesFirst
  <2>. SUFFICES ASSUME search.kind = "limit", Len(answers) = 2, answers[1].converged, answers[2].converged,
                       \A x, y \in bounds.low..bounds.high : x < y => gain[x] > gain[y]
                PROVE  answers[2].root <= answers[1].root + 1
    BY DEF AmberComesFirst
  <2>1. m = 2 /\ search.targets[2] < search.targets[1]
    BY <1>1, SearchInputs DEF SearchInv
  <2>2. at = "done"
    <3>1. at \notin {"done", "raised"} => n < m
      BY <1>1 DEF SearchInv
    <3>2. at # "raised"
      <4>1. search.kind # "single"
        OBVIOUS
      <4>2. at = "raised" => Len(answers) < Len(search.targets)
        BY <4>1 DEF SearchInv
      <4>. QED BY <1>1, <2>1, <4>2
    <3>. QED BY <1>1, <2>1, <3>1, <3>2
  <2>3. answers[2].bounds = bounds
    BY <2>2 DEF SearchInv
  <2>4. RowOK(g, search.low, search.high, -search.targets[1], answers[1])
        /\ RowOK(g, search.low, search.high, -search.targets[2], answers[2])
    BY <1>1, <1>6
  <2>5. PICK t, u : t = -search.targets[1] /\ u = -search.targets[2]
    OBVIOUS
  <2>6. t \in Int /\ u \in Int /\ t < u
    <3>1. search.targets[1] \in Int /\ search.targets[2] \in Int
      BY <1>1, <2>1, SearchHas
    <3>. QED BY <2>1, <2>5, <3>1
  <2>7. Usable(g, search.low, lo) /\ Usable(g, search.high, hi) /\ Meets(g, u, lo, hi, answers[2].root)
    BY <1>1, <2>3, <2>4, <2>5 DEF RowOK
  <2>8. Usable(g, search.low, answers[1].bounds.low) /\ Usable(g, search.high, answers[1].bounds.high)
        /\ Meets(g, t, answers[1].bounds.low, answers[1].bounds.high, answers[1].root)
    BY <2>4, <2>5 DEF RowOK
  <2>9. answers[1].bounds.low = lo /\ answers[1].bounds.high = hi
    BY <2>7, <2>8, OneUsable
  <2>10. Meets(g, t, lo, hi, answers[1].root)
    BY <2>8, <2>9
  <2>11. \A x, y \in lo..hi : x < y => g[x] > g[y]
    BY <1>1
  <2>. QED BY <1>2, <2>6, <2>7, <2>10, <2>11, SmallerLossFirst
<1>. QED BY <1>4, <1>5, <1>7, <1>8, <1>9, <1>10 DEF SearchHolds

\* A reverse stress finds what it says it found: the target stays inside the bracket, a
\* converged row is an answer, an unreachable loss is out of reach wherever the P&L is
\* monotone, every target gets its row, and the amber level is met no later than the limit.
THEOREM SearchesHold == SearchSpec => []SearchHolds
<1>1. SearchInv /\ [SearchNext]_searchVars => SearchInv'
  <2>. SUFFICES ASSUME SearchInv, [SearchNext]_searchVars PROVE SearchInv'
    OBVIOUS
  <2>1. CASE SearchNext
    BY <2>1, BeginKeeps, ShrinkKeeps, BracketKeeps, ConcludeKeeps, IterateKeeps DEF SearchNext
  <2>2. CASE UNCHANGED searchVars
    BY <2>2 DEF searchVars, SearchInv, Rows, Target
  <2>. QED BY <2>1, <2>2
<1>. QED BY <1>1, SearchStarts, SearchFollows, PTL DEF SearchSpec

-----------------------------------------------------------------------------
(* Sequences made of parts.                                                *)

\* f joins the parts one after the other.
Joins(f, parts, X) ==
  /\ f \in [1..Len(parts) -> Seq(X)]
  /\ \A i \in 1..Len(parts) : f[i] = IF i = 1 THEN parts[i] ELSE f[i - 1] \o parts[i]

LEMMA JoinsExists ==
  ASSUME NEW X, NEW parts \in Seq(Seq(X)) PROVE \E f : Joins(f, parts, X)
<1>. DEFINE N == Len(parts)
            Upto(n) == {f \in [1..n -> Seq(X)] :
                           \A i \in 1..n : f[i] = IF i = 1 THEN parts[i] ELSE f[i - 1] \o parts[i]}
            P == {n \in 0..N : Upto(n) # {}}
<1>0. N \in Nat /\ \A i \in 1..N : parts[i] \in Seq(X)
  OBVIOUS
<1>1. 0 \in P
  <2>1. [i \in 1..0 |-> <<>>] \in Upto(0)
    OBVIOUS
  <2>. HIDE DEF Upto
  <2>. QED BY <1>0, <2>1
<1>2. ASSUME NEW n \in 1..N, n - 1 \in P PROVE n \in P
  <2>1. PICK old \in Upto(n - 1) : TRUE
    BY <1>2
  <2>2. /\ old \in [1..(n - 1) -> Seq(X)]
        /\ \A i \in 1..(n - 1) : old[i] = IF i = 1 THEN parts[i] ELSE old[i - 1] \o parts[i]
    BY <2>1
  <2>3. PICK p : p = IF n = 1 THEN parts[n] ELSE old[n - 1] \o parts[n]
    OBVIOUS
  <2>4. p \in Seq(X)
    <3>1. CASE n = 1
      BY <1>0, <2>3, <3>1
    <3>2. CASE n # 1
      <4>1. n - 1 \in 1..(n - 1)
        BY <3>2
      <4>2. old[n - 1] \in Seq(X) /\ parts[n] \in Seq(X)
        BY <1>0, <2>2, <4>1
      <4>. QED BY <2>3, <3>2, <4>2, ConcatProperties
    <3>. QED BY <3>1, <3>2
  <2>. DEFINE new == [i \in 1..n |-> IF i = n THEN p ELSE old[i]]
  <2>5. new \in [1..n -> Seq(X)]
    BY <2>2, <2>4
  <2>6. ASSUME NEW i \in 1..n PROVE new[i] = IF i = 1 THEN parts[i] ELSE new[i - 1] \o parts[i]
    <3>1. CASE i = n
      <4>1. i # 1 => new[i - 1] = old[n - 1]
        BY <3>1
      <4>2. new[i] = p
        BY <3>1
      <4>. HIDE DEF new
      <4>. QED BY <2>3, <3>1, <4>1, <4>2
    <3>2. CASE i # n
      <4>1. i \in 1..(n - 1) /\ new[i] = old[i] /\ (i # 1 => new[i - 1] = old[i - 1])
        BY <3>2
      <4>. HIDE DEF new
      <4>. QED BY <2>2, <4>1
    <3>. QED BY <3>1, <3>2
  <2>7. new \in Upto(n)
    <3>. HIDE DEF new
    <3>. QED BY <2>5, <2>6
  <2>. HIDE DEF new, Upto
  <2>. QED BY <2>7
<1>3. N \in P
  <2>. HIDE DEF P
  <2>1. \A n \in 0..N : n \in P
    <3>. HIDE DEF N
    <3>. QED BY <1>0, <1>1, <1>2, UpTo
  <2>. QED BY <1>0, <2>1
<1>4. PICK f \in Upto(N) : TRUE
  BY <1>3
<1>5. Joins(f, parts, X)
  BY <1>4 DEF Joins
<1>. QED BY <1>5

\* There is one way to join the parts, and it is what flattening them does.
LEMMA JoinedIsFlat ==
  ASSUME NEW X, NEW parts \in Seq(Seq(X)), parts # <<>>, NEW f, Joins(f, parts, X)
  PROVE  FlattenSeq(parts) = f[Len(parts)]
<1>. DEFINE N == Len(parts)
            Fun(g) == g = [i \in 1..Len(parts) |-> IF i = 1 THEN parts[i] ELSE g[i - 1] \o parts[i]]
<1>1. N \in Nat /\ N # 0
  OBVIOUS
<1>2. FlattenSeq(parts) = (CHOOSE g : Fun(g))[N]
  BY <1>1 DEF FlattenSeq
<1>3. Fun(f)
  BY DEF Joins
<1>4. PICK g : g = CHOOSE h : Fun(h)
  OBVIOUS
<1>5. Fun(g)
  <2>. HIDE DEF Fun
  <2>. QED BY <1>3, <1>4
<1>6. /\ \A i \in 1..N : f[i] = IF i = 1 THEN parts[i] ELSE f[i - 1] \o parts[i]
      /\ \A i \in 1..N : g[i] = IF i = 1 THEN parts[i] ELSE g[i - 1] \o parts[i]
  BY <1>5 DEF Joins
<1>. DEFINE P == {n \in 0..N : n = 0 \/ f[n] = g[n]}
<1>7. ASSUME NEW n \in 1..N, n - 1 \in P PROVE n \in P
  BY <1>6, <1>7
<1>8. N \in P
  <2>1. 0 \in P
    BY <1>1
  <2>. HIDE DEF P
  <2>2. \A n \in 0..N : n \in P
    <3>. HIDE DEF N
    <3>. QED BY <1>1, <1>7, <2>1, UpTo
  <2>. QED BY <1>1, <2>2
<1>. HIDE DEF Fun
<1>. QED BY <1>1, <1>2, <1>4, <1>8

\* More parts are joined where the others end.
LEMMA FlatFollows ==
  ASSUME NEW X, NEW a \in Seq(Seq(X)), a # <<>>, NEW b \in Seq(Seq(X)),
         NEW f \in [0..Len(b) -> Seq(X)], f[0] = FlattenSeq(a),
         \A i \in 1..Len(b) : f[i] = f[i - 1] \o b[i]
  PROVE  FlattenSeq(a \o b) = f[Len(b)]
<1>1. PICK g : Joins(g, a, X)
  BY JoinsExists
<1>2. PICK m, n : m = Len(a) /\ n = Len(b)
  OBVIOUS
<1>3. m \in Nat /\ m # 0 /\ n \in Nat
  BY <1>2
<1>4. f[0] = g[m]
  BY <1>1, <1>2, JoinedIsFlat
<1>5. PICK c : c = a \o b
  OBVIOUS
<1>6. c \in Seq(Seq(X)) /\ Len(c) = m + n /\ \A i \in 1..(m + n) : c[i] = IF i <= m THEN a[i] ELSE b[i - m]
  BY <1>2, <1>5, ConcatProperties
<1>. DEFINE h == [i \in 1..(m + n) |-> IF i <= m THEN g[i] ELSE f[i - m]]
<1>7. h \in [1..(m + n) -> Seq(X)]
  <2>1. ASSUME NEW i \in 1..(m + n) PROVE h[i] \in Seq(X)
    <3>1. CASE i <= m
      <4>1. i \in 1..m /\ h[i] = g[i]
        BY <1>3, <3>1
      <4>. QED BY <1>1, <1>2, <4>1 DEF Joins
    <3>2. CASE ~(i <= m)
      <4>1. i - m \in 0..n /\ h[i] = f[i - m]
        BY <1>3, <3>2
      <4>. QED BY <1>2, <4>1
    <3>. QED BY <3>1, <3>2
  <2>. QED BY <2>1
<1>8. ASSUME NEW i \in 1..(m + n) PROVE h[i] = IF i = 1 THEN c[i] ELSE h[i - 1] \o c[i]
  <2>1. CASE i <= m
    <3>1. i \in 1..m /\ h[i] = g[i] /\ c[i] = a[i] /\ (i # 1 => h[i - 1] = g[i - 1])
      BY <1>3, <1>6, <2>1
    <3>. HIDE DEF h
    <3>. QED BY <1>1, <1>2, <3>1 DEF Joins
  <2>2. CASE ~(i <= m)
    <3>1. i - m \in 1..n /\ i # 1 /\ h[i] = f[i - m] /\ c[i] = b[i - m]
      BY <1>3, <1>6, <2>2
    <3>2. h[i - 1] = f[(i - m) - 1]
      <4>1. CASE i = m + 1
        BY <1>3, <1>4, <4>1
      <4>2. CASE i # m + 1
        <5>1. i - 1 \in 1..(m + n) /\ ~(i - 1 <= m) /\ (i - 1) - m = (i - m) - 1
          BY <1>3, <2>2, <4>2
        <5>. QED BY <5>1
      <4>. QED BY <4>1, <4>2
    <3>. HIDE DEF h
    <3>. QED BY <1>2, <3>1, <3>2
  <2>. QED BY <2>1, <2>2
<1>9. Joins(h, c, X)
  <2>. HIDE DEF h
  <2>. QED BY <1>6, <1>7, <1>8 DEF Joins
<1>10. c # <<>>
  BY <1>3, <1>6
<1>11. FlattenSeq(c) = h[m + n]
  <2>. HIDE DEF h
  <2>. QED BY <1>6, <1>9, <1>10, JoinedIsFlat
<1>12. h[m + n] = f[n]
  <2>1. CASE n = 0
    BY <1>3, <1>4, <2>1
  <2>2. CASE n # 0
    BY <1>3, <2>2
  <2>. QED BY <2>1, <2>2
<1>. QED BY <1>2, <1>5, <1>11, <1>12

-----------------------------------------------------------------------------
(* What a conversation says: the calls its turns made, and the results     *)
(* it told the model.                                                      *)

Calls == UNION {Elements(r.calls) : r \in Turns}
Ids   == {c.id : c \in Calls}
IdsOf(s) == [j \in DOMAIN s |-> s[j].id]
Said(m) == IF m.role = "assistant" THEN m.ids ELSE <<>>
Heard(m) == IF m.role = "assistant" THEN <<>> ELSE IdsOf(m.results)
CallsOf(ms) == [i \in DOMAIN ms |-> Said(ms[i])]
TellsOf(ms) == [i \in DOMAIN ms |-> Heard(ms[i])]
TurnsIn(ms) == {i \in DOMAIN ms : ms[i].role = "assistant"}
\* The turns of a conversation stand where they stood.
TurnsStand(ms, ns) == \A i \in TurnsIn(ms) : ns[i] = ms[i]

Messages(ms) ==
  /\ IsSeq(ms)
  /\ \A i \in DOMAIN ms : Said(ms[i]) \in Seq(Ids) /\ Heard(ms[i]) \in Seq(Ids)

LEMMA SeqHas == ASSUME NEW s, IsSeq(s) PROVE Len(s) \in Nat /\ DOMAIN s = 1..Len(s) /\ s \in Seq(Elements(s))
<1>1. PICK T : s \in Seq(T)
  BY DEF IsSeq
<1>2. Len(s) \in Nat /\ DOMAIN s = 1..Len(s)
  BY <1>1
<1>3. s = [i \in 1..Len(s) |-> s[i]]
  BY <1>1
<1>4. \A i \in 1..Len(s) : s[i] \in Elements(s)
  BY <1>2 DEF Elements
<1>. QED BY <1>2, <1>3, <1>4

LEMMA PartsAreSeqs ==
  ASSUME NEW ms, Messages(ms)
  PROVE  /\ CallsOf(ms) \in Seq(Seq(Ids)) /\ Len(CallsOf(ms)) = Len(ms)
         /\ TellsOf(ms) \in Seq(Seq(Ids)) /\ Len(TellsOf(ms)) = Len(ms)
         /\ ms # <<>> => CallsOf(ms) # <<>> /\ TellsOf(ms) # <<>>
<1>1. Len(ms) \in Nat /\ DOMAIN ms = 1..Len(ms)
  BY SeqHas DEF Messages
<1>2. /\ \A i \in 1..Len(ms) : Said(ms[i]) \in Seq(Ids) /\ Heard(ms[i]) \in Seq(Ids)
  BY <1>1 DEF Messages
<1>3. ms # <<>> => Len(ms) # 0
  BY DEF Messages, IsSeq
<1>. QED BY <1>1, <1>2, <1>3 DEF CallsOf, TellsOf

LEMMA JoinIs ==
  ASSUME NEW S, NEW x \in Seq(S), NEW y \in Seq(S), NEW w \in Seq(S), Len(w) = Len(x) + Len(y),
         \A i \in 1..(Len(x) + Len(y)) : w[i] = IF i <= Len(x) THEN x[i] ELSE y[i - Len(x)]
  PROVE  w = x \o y
<1>1. PICK z : z = x \o y
  OBVIOUS
<1>2. z \in Seq(S) /\ Len(z) = Len(w) /\ \A i \in 1..Len(w) : w[i] = z[i]
  BY <1>1, ConcatProperties
<1>3. w = z
  BY <1>2, SeqEqual
<1>. QED BY <1>1, <1>3

\* The parts of two conversations, one after the other, are the parts of both.
LEMMA PartsFollow ==
  ASSUME NEW ms, Messages(ms), NEW ns, Messages(ns)
  PROVE  /\ Messages(ms \o ns) /\ Len(ms \o ns) = Len(ms) + Len(ns)
         /\ \A i \in 1..(Len(ms) + Len(ns)) : (ms \o ns)[i] = IF i <= Len(ms) THEN ms[i] ELSE ns[i - Len(ms)]
         /\ CallsOf(ms \o ns) = CallsOf(ms) \o CallsOf(ns)
         /\ TellsOf(ms \o ns) = TellsOf(ms) \o TellsOf(ns)
<1>1. /\ Len(ms) \in Nat /\ DOMAIN ms = 1..Len(ms) /\ ms \in Seq(Elements(ms))
      /\ Len(ns) \in Nat /\ DOMAIN ns = 1..Len(ns) /\ ns \in Seq(Elements(ns))
  BY SeqHas DEF Messages
<1>2. PICK T : T = Elements(ms) \cup Elements(ns)
  OBVIOUS
<1>3. ms \in Seq(T) /\ ns \in Seq(T)
  BY <1>1, <1>2
<1>4. PICK all, m, n : all = ms \o ns /\ m = Len(ms) /\ n = Len(ns)
  OBVIOUS
<1>5. /\ all \in Seq(T) /\ Len(all) = m + n /\ m \in Nat /\ n \in Nat
      /\ \A i \in 1..(m + n) : all[i] = IF i <= m THEN ms[i] ELSE ns[i - m]
  BY <1>1, <1>3, <1>4, ConcatProperties
<1>6. DOMAIN all = 1..(m + n)
  BY <1>5
<1>7. ASSUME NEW i \in 1..(m + n) PROVE Said(all[i]) \in Seq(Ids) /\ Heard(all[i]) \in Seq(Ids)
  <2>1. CASE i <= m
    <3>1. i \in DOMAIN ms /\ all[i] = ms[i]
      BY <1>1, <1>4, <1>5, <2>1
    <3>. QED BY <3>1 DEF Messages
  <2>2. CASE ~(i <= m)
    <3>1. i - m \in DOMAIN ns /\ all[i] = ns[i - m]
      BY <1>1, <1>4, <1>5, <2>2
    <3>. QED BY <3>1 DEF Messages
  <2>. QED BY <2>1, <2>2
<1>8. Messages(all)
  BY <1>5, <1>6, <1>7 DEF Messages, IsSeq
<1>9. /\ CallsOf(all) \in Seq(Seq(Ids)) /\ Len(CallsOf(all)) = m + n
      /\ TellsOf(all) \in Seq(Seq(Ids)) /\ Len(TellsOf(all)) = m + n
  BY <1>5, <1>8, PartsAreSeqs
<1>10. /\ CallsOf(ms) \in Seq(Seq(Ids)) /\ Len(CallsOf(ms)) = m
       /\ TellsOf(ms) \in Seq(Seq(Ids)) /\ Len(TellsOf(ms)) = m
       /\ CallsOf(ns) \in Seq(Seq(Ids)) /\ Len(CallsOf(ns)) = n
       /\ TellsOf(ns) \in Seq(Seq(Ids)) /\ Len(TellsOf(ns)) = n
  BY <1>4, PartsAreSeqs
<1>11. ASSUME NEW i \in 1..(m + n)
       PROVE  /\ CallsOf(all)[i] = IF i <= m THEN CallsOf(ms)[i] ELSE CallsOf(ns)[i - m]
              /\ TellsOf(all)[i] = IF i <= m THEN TellsOf(ms)[i] ELSE TellsOf(ns)[i - m]
  <2>1. CASE i <= m
    <3>1. i \in DOMAIN ms /\ all[i] = ms[i] /\ i \in DOMAIN all
      BY <1>1, <1>4, <1>5, <1>6, <2>1
    <3>. QED BY <2>1, <3>1 DEF CallsOf, TellsOf
  <2>2. CASE ~(i <= m)
    <3>1. i - m \in DOMAIN ns /\ all[i] = ns[i - m] /\ i \in DOMAIN all
      BY <1>1, <1>4, <1>5, <1>6, <2>2
    <3>. QED BY <2>2, <3>1 DEF CallsOf, TellsOf
  <2>. QED BY <2>1, <2>2
<1>12. CallsOf(all) = CallsOf(ms) \o CallsOf(ns)
  <2>1. PICK x, y, w : w = CallsOf(all) /\ x = CallsOf(ms) /\ y = CallsOf(ns)
    OBVIOUS
  <2>2. /\ w \in Seq(Seq(Ids)) /\ x \in Seq(Seq(Ids)) /\ y \in Seq(Seq(Ids))
        /\ Len(x) = m /\ Len(y) = n /\ Len(w) = m + n
        /\ \A i \in 1..(m + n) : w[i] = IF i <= m THEN x[i] ELSE y[i - m]
    BY <1>9, <1>10, <1>11, <2>1
  <2>3. w = x \o y
    BY <2>2, JoinIs
  <2>. QED BY <2>1, <2>3
<1>13. TellsOf(all) = TellsOf(ms) \o TellsOf(ns)
  <2>1. PICK x, y, w : w = TellsOf(all) /\ x = TellsOf(ms) /\ y = TellsOf(ns)
    OBVIOUS
  <2>2. /\ w \in Seq(Seq(Ids)) /\ x \in Seq(Seq(Ids)) /\ y \in Seq(Seq(Ids))
        /\ Len(x) = m /\ Len(y) = n /\ Len(w) = m + n
        /\ \A i \in 1..(m + n) : w[i] = IF i <= m THEN x[i] ELSE y[i - m]
    BY <1>9, <1>10, <1>11, <2>1
  <2>3. w = x \o y
    BY <2>2, JoinIs
  <2>. QED BY <2>1, <2>3
<1>. QED BY <1>4, <1>5, <1>8, <1>12, <1>13

\* Joining empty parts adds nothing.
LEMMA FlatSilence ==
  ASSUME NEW X, NEW a \in Seq(Seq(X)), a # <<>>, NEW b \in Seq(Seq(X)), \A i \in 1..Len(b) : b[i] = <<>>
  PROVE  FlattenSeq(a \o b) = FlattenSeq(a) /\ FlattenSeq(a) \in Seq(X)
<1>0. PICK s : s = FlattenSeq(a)
  OBVIOUS
<1>1. s \in Seq(X)
  <2>1. PICK g : Joins(g, a, X)
    BY JoinsExists
  <2>2. s = g[Len(a)] /\ Len(a) \in 1..Len(a)
    BY <1>0, <2>1, JoinedIsFlat
  <2>. QED BY <2>1, <2>2 DEF Joins
<1>. DEFINE f == [i \in 0..Len(b) |-> s]
<1>2. f \in [0..Len(b) -> Seq(X)] /\ f[0] = FlattenSeq(a) /\ f[Len(b)] = s
  BY <1>0, <1>1
<1>3. \A i \in 1..Len(b) : f[i] = f[i - 1] \o b[i]
  <2>1. s \o <<>> = s
    BY <1>1, ConcatEmptySeq
  <2>2. ASSUME NEW i \in 1..Len(b) PROVE f[i] = s /\ f[i - 1] = s /\ b[i] = <<>>
    OBVIOUS
  <2>. HIDE DEF f
  <2>. QED BY <2>1, <2>2
<1>4. FlattenSeq(a \o b) = f[Len(b)]
  <2>. HIDE DEF f
  <2>. QED BY <1>2, <1>3, FlatFollows
<1>. QED BY <1>0, <1>1, <1>2, <1>4

LEMMA FlatIsASeq ==
  ASSUME NEW X, NEW a \in Seq(Seq(X)), a # <<>> PROVE FlattenSeq(a) \in Seq(X)
<1>1. <<>> \in Seq(Seq(X)) /\ \A i \in 1..Len(<<>>) : <<>>[i] = <<>>
  OBVIOUS
<1>. QED BY <1>1, FlatSilence

\* Joining one part adds it.
LEMMA FlatOne ==
  ASSUME NEW X, NEW a \in Seq(Seq(X)), a # <<>>, NEW p \in Seq(X)
  PROVE  FlattenSeq(a \o <<p>>) = FlattenSeq(a) \o p
<1>0. PICK s : s = FlattenSeq(a)
  OBVIOUS
<1>1. s \in Seq(X)
  BY <1>0, FlatIsASeq
<1>. DEFINE b == <<p>>
            f == [i \in 0..1 |-> IF i = 0 THEN s ELSE s \o p]
<1>2. b \in Seq(Seq(X)) /\ Len(b) = 1 /\ b[1] = p
  OBVIOUS
<1>3. s \o p \in Seq(X)
  BY <1>1, ConcatProperties
<1>4. f \in [0..1 -> Seq(X)] /\ f[0] = s /\ f[1] = s \o p
  BY <1>1, <1>3
<1>5. FlattenSeq(a \o b) = f[Len(b)]
  <2>. HIDE DEF f, b
  <2>1. \A i \in 1..Len(b) : f[i] = f[i - 1] \o b[i]
    <3>1. \A i \in 1..Len(b) : i = 1 /\ i - 1 = 0
      BY <1>2
    <3>2. f[1] = f[0] \o b[1]
      BY <1>2, <1>4
    <3>. QED BY <3>1, <3>2
  <2>2. f \in [0..Len(b) -> Seq(X)] /\ f[0] = FlattenSeq(a)
    BY <1>0, <1>2, <1>4
  <2>. QED BY <1>2, <2>1, <2>2, FlatFollows
<1>. QED BY <1>0, <1>2, <1>4, <1>5

\* Joining parts of one element each adds the elements.
LEMMA FlatSingles ==
  ASSUME NEW X, NEW a \in Seq(Seq(X)), a # <<>>, NEW e \in Seq(X)
  PROVE  FlattenSeq(a \o [i \in 1..Len(e) |-> <<e[i]>>]) = FlattenSeq(a) \o e
<1>0. PICK s, n : s = FlattenSeq(a) /\ n = Len(e)
  OBVIOUS
<1>1. s \in Seq(X) /\ n \in Nat
  BY <1>0, FlatIsASeq
<1>. DEFINE b == [i \in 1..n |-> <<e[i]>>]
            f == [i \in 0..n |-> s \o SubSeq(e, 1, i)]
<1>2. b \in Seq(Seq(X)) /\ Len(b) = n /\ \A i \in 1..n : b[i] = <<e[i]>>
  BY <1>0, <1>1
<1>3. \A i \in 0..n : SubSeq(e, 1, i) \in Seq(X)
  BY <1>0, <1>1
<1>4. f \in [0..n -> Seq(X)]
  BY <1>1, <1>3, ConcatProperties
<1>5. f[0] = s
  <2>1. SubSeq(e, 1, 0) = <<>>
    BY SubSeqEmpty
  <2>2. s \o <<>> = s
    BY <1>1, ConcatEmptySeq
  <2>. QED BY <1>1, <2>1, <2>2
<1>6. ASSUME NEW i \in 1..n PROVE f[i] = f[i - 1] \o b[i]
  <2>1. SubSeq(e, 1, i) = SubSeq(e, 1, i - 1) \o <<e[i]>>
    <3>1. 1 \in 1..Len(e) /\ i \in 1..Len(e)
      BY <1>0, <1>1
    <3>. QED BY <3>1, SubSeqRecursiveSecond
  <2>2. PICK u, v : u = SubSeq(e, 1, i - 1) /\ v = <<e[i]>>
    OBVIOUS
  <2>3. u \in Seq(X) /\ v \in Seq(X)
    BY <1>0, <1>1, <1>3, <2>2
  <2>4. (s \o u) \o v = s \o (u \o v)
    BY ONLY <1>1, <2>3
  <2>5. f[i] = s \o SubSeq(e, 1, i) /\ f[i - 1] = s \o u
    <3>1. i \in 0..n /\ i - 1 \in 0..n
      BY <1>1
    <3>. QED BY <2>2, <3>1
  <2>. HIDE DEF f
  <2>. QED BY <1>2, <2>1, <2>2, <2>4, <2>5
<1>7. f[n] = s \o e
  BY <1>0, <1>1, SubSeqFull
<1>8. FlattenSeq(a \o b) = f[Len(b)]
  <2>. HIDE DEF f, b
  <2>1. b \in Seq(Seq(X)) /\ f \in [0..Len(b) -> Seq(X)] /\ f[0] = FlattenSeq(a)
    BY <1>0, <1>2, <1>4, <1>5
  <2>2. \A i \in 1..Len(b) : f[i] = f[i - 1] \o b[i]
    BY <1>2, <1>6
  <2>. QED BY <2>1, <2>2, FlatFollows
<1>. HIDE DEF f
<1>. QED BY <1>0, <1>2, <1>7, <1>8

LEMMA TurnsAreFinite ==
  ASSUME NEW ms, Messages(ms) PROVE IsFiniteSet(TurnsIn(ms)) /\ Cardinality(TurnsIn(ms)) \in Nat
<1>1. Len(ms) \in Nat /\ TurnsIn(ms) \subseteq 1..Len(ms)
  BY SeqHas DEF Messages, TurnsIn
<1>2. IsFiniteSet(1..Len(ms))
  BY <1>1, FS_Interval
<1>3. IsFiniteSet(TurnsIn(ms))
  BY <1>1, <1>2, FS_Subset
<1>. QED BY <1>3, FS_CardinalityType

\* A turn of the model adds its calls, and one turn.
Spoke(ms, m, ns) ==
  /\ Messages(ns) /\ ns # <<>>
  /\ FlattenSeq(CallsOf(ns)) = FlattenSeq(CallsOf(ms)) \o m.ids
  /\ FlattenSeq(TellsOf(ns)) = FlattenSeq(TellsOf(ms))
  /\ TurnsIn(ns) = TurnsIn(ms) \cup {Len(ms) + 1}
  /\ Cardinality(TurnsIn(ns)) = Cardinality(TurnsIn(ms)) + 1
  /\ Len(ms) \in Nat /\ \A i \in TurnsIn(ms) : i <= Len(ms) /\ ns[i] = ms[i]
  /\ ns[Len(ms) + 1] = m
LEMMA ModelSpeaks ==
  ASSUME NEW ms, Messages(ms), ms # <<>>, NEW m, m.role = "assistant", m.ids \in Seq(Ids),
         NEW ns, ns = Append(ms, m)
  PROVE  Spoke(ms, m, ns)
<1>1. Len(ms) \in Nat /\ DOMAIN ms = 1..Len(ms) /\ ms \in Seq(Elements(ms))
  BY SeqHas DEF Messages
<1>1a. PICK one : one = <<m>>
  OBVIOUS
<1>2. IsSeq(one) /\ Len(one) = 1 /\ DOMAIN one = {1} /\ one[1] = m
  <2>1. one \in Seq({m}) /\ Len(one) = 1 /\ one[1] = m
    BY <1>1a
  <2>2. DOMAIN one = 1..1
    BY <2>1
  <2>. QED BY <2>1, <2>2 DEF IsSeq
<1>3. Said(m) = m.ids /\ Heard(m) = <<>>
  BY DEF Said, Heard
<1>4. Messages(one)
  <2>1. \A i \in DOMAIN one : one[i] = m
    BY <1>2
  <2>2. <<>> \in Seq(Ids)
    OBVIOUS
  <2>. QED BY <1>2, <1>3, <2>1, <2>2 DEF Messages
<1>5. ns = ms \o one
  <2>1. PICK T : T = Elements(ms) \cup {m}
    OBVIOUS
  <2>2. ms \in Seq(T) /\ m \in T
    BY <1>1, <2>1
  <2>. QED BY <1>1a, <2>2, AppendIsConcat
<1>6. CallsOf(one) = <<m.ids>> /\ TellsOf(one) = <<(<<>>)>>
  <2>1. CallsOf(one) = [i \in {1} |-> m.ids] /\ TellsOf(one) = [i \in {1} |-> <<>>]
    BY <1>2, <1>3 DEF CallsOf, TellsOf
  <2>. QED BY <2>1
<1>7. /\ Messages(ns) /\ Len(ns) = Len(ms) + 1
      /\ \A i \in 1..(Len(ms) + 1) : ns[i] = IF i <= Len(ms) THEN ms[i] ELSE one[i - Len(ms)]
      /\ CallsOf(ns) = CallsOf(ms) \o <<m.ids>>
      /\ TellsOf(ns) = TellsOf(ms) \o <<(<<>>)>>
  <2>1. PICK all : all = ms \o one
    OBVIOUS
  <2>2. /\ Messages(all) /\ Len(all) = Len(ms) + Len(one)
        /\ \A i \in 1..(Len(ms) + Len(one)) : all[i] = IF i <= Len(ms) THEN ms[i] ELSE one[i - Len(ms)]
        /\ CallsOf(all) = CallsOf(ms) \o CallsOf(one)
        /\ TellsOf(all) = TellsOf(ms) \o TellsOf(one)
    BY <1>4, <2>1, PartsFollow
  <2>. QED BY <1>2, <1>5, <1>6, <2>1, <2>2
<1>8. ns # <<>> /\ DOMAIN ns = 1..(Len(ms) + 1)
  <2>1. DOMAIN ns = 1..(Len(ms) + 1)
    BY <1>7, SeqHas DEF Messages
  <2>2. PICK n, m1 : n = Len(ns) /\ m1 = Len(ms)
    OBVIOUS
  <2>3. n = m1 + 1 /\ m1 \in Nat
    BY <1>1, <1>7, <2>2
  <2>4. n # 0
    BY ONLY <2>3
  <2>5. Len(<<>>) = 0
    OBVIOUS
  <2>6. ns # <<>>
    BY ONLY <2>2, <2>4, <2>5
  <2>. QED BY <2>1, <2>6
<1>9. FlattenSeq(CallsOf(ns)) = FlattenSeq(CallsOf(ms)) \o m.ids
  <2>1. PICK a, p : a = CallsOf(ms) /\ p = m.ids
    OBVIOUS
  <2>2. a \in Seq(Seq(Ids)) /\ a # <<>> /\ p \in Seq(Ids)
    BY <2>1, PartsAreSeqs
  <2>3. FlattenSeq(a \o <<p>>) = FlattenSeq(a) \o p
    BY ONLY <2>2, FlatOne
  <2>. QED BY ONLY <1>7, <2>1, <2>3
<1>10. FlattenSeq(TellsOf(ns)) = FlattenSeq(TellsOf(ms))
  <2>1. PICK b : b = <<(<<>>)>>
    OBVIOUS
  <2>2. b \in Seq(Seq(Ids)) /\ \A i \in 1..Len(b) : b[i] = <<>>
    BY <2>1
  <2>3. PICK a : a = TellsOf(ms)
    OBVIOUS
  <2>4. a \in Seq(Seq(Ids)) /\ a # <<>>
    BY <2>3, PartsAreSeqs
  <2>5. FlattenSeq(a \o b) = FlattenSeq(a)
    BY <2>2, <2>4, FlatSilence
  <2>. QED BY <1>7, <2>1, <2>3, <2>5
<1>11. ns[Len(ms) + 1] = m /\ \A i \in 1..Len(ms) : ns[i] = ms[i]
  BY <1>1, <1>2, <1>7
<1>12. TurnsIn(ns) = TurnsIn(ms) \cup {Len(ms) + 1} /\ Len(ms) + 1 \notin TurnsIn(ms)
  BY <1>1, <1>8, <1>11 DEF TurnsIn
<1>13. Cardinality(TurnsIn(ns)) = Cardinality(TurnsIn(ms)) + 1
  BY <1>12, TurnsAreFinite, FS_AddElement
<1>14. \A i \in TurnsIn(ms) : i <= Len(ms) /\ ns[i] = ms[i]
  BY <1>1, <1>11 DEF TurnsIn
<1>. QED BY <1>1, <1>7, <1>8, <1>9, <1>10, <1>11, <1>12, <1>13, <1>14 DEF Spoke

\* Whichever way a vendor wants them, results add what they are results of, and no turn.
LEMMA ResultsAreTold ==
  ASSUME NEW ms, Messages(ms), ms # <<>>, NEW rs, IsSeq(rs), IdsOf(rs) \in Seq(Ids),
         NEW ns, ns = ms \o ToolResultMessage(rs)
  PROVE  /\ Messages(ns) /\ ns # <<>>
         /\ FlattenSeq(CallsOf(ns)) = FlattenSeq(CallsOf(ms))
         /\ FlattenSeq(TellsOf(ns)) = FlattenSeq(TellsOf(ms)) \o IdsOf(rs)
         /\ TurnsIn(ns) = TurnsIn(ms)
         /\ TurnsStand(ms, ns)
<1>1. /\ Len(ms) \in Nat /\ DOMAIN ms = 1..Len(ms) /\ ms \in Seq(Elements(ms))
      /\ Len(rs) \in Nat /\ DOMAIN rs = 1..Len(rs)
  BY SeqHas DEF Messages
<1>2. PICK news, n : news = ToolResultMessage(rs) /\ n = Len(news)
  OBVIOUS
<1>3. /\ IsSeq(news) /\ n \in Nat /\ DOMAIN news = 1..n
      /\ \A i \in 1..n : news[i].role # "assistant"
      /\ TellsOf(news) = IF vendor = "zai" THEN [i \in 1..Len(IdsOf(rs)) |-> <<IdsOf(rs)[i]>>] ELSE <<IdsOf(rs)>>
  <2>1. CASE vendor = "zai"
    <3>1. news = [i \in 1..Len(rs) |-> [role |-> "tool", results |-> <<rs[i]>>]]
      BY <1>1, <1>2, <2>1 DEF ToolResultMessage
    <3>2. PICK T : T = {[role |-> "tool", results |-> <<rs[i]>>] : i \in 1..Len(rs)}
      OBVIOUS
    <3>3. IsSeq(news) /\ n \in Nat /\ DOMAIN news = 1..n /\ n = Len(rs)
      <4>1. \A i \in 1..Len(rs) : [role |-> "tool", results |-> <<rs[i]>>] \in T
        BY <3>2
      <4>2. news \in [1..Len(rs) -> T]
        BY <3>1, <4>1
      <4>3. PICK k : k = Len(rs)
        OBVIOUS
      <4>4. k \in Nat /\ news \in [1..k -> T]
        BY <1>1, <4>2, <4>3
      <4>5. news \in Seq(T) /\ Len(news) = k /\ DOMAIN news = 1..k
        BY ONLY <4>4
      <4>. QED BY <1>2, <4>3, <4>4, <4>5 DEF IsSeq
    <3>4. \A i \in 1..n : news[i].role = "tool" /\ news[i].results = <<rs[i]>>
      BY <3>1, <3>3
    <3>5. DOMAIN IdsOf(rs) = 1..n /\ Len(IdsOf(rs)) = n /\ \A i \in 1..n : IdsOf(rs)[i] = rs[i].id
      BY <1>1, <3>3 DEF IdsOf
    <3>6. ASSUME NEW i \in 1..n PROVE Heard(news[i]) = <<IdsOf(rs)[i]>>
      <4>1. Heard(news[i]) = IdsOf(<<rs[i]>>)
        BY <3>4 DEF Heard
      <4>2. IdsOf(<<rs[i]>>) = <<rs[i].id>>
        BY DEF IdsOf
      <4>. QED BY <3>5, <4>1, <4>2
    <3>7. TellsOf(news) = [i \in 1..n |-> <<IdsOf(rs)[i]>>]
      BY <3>3, <3>6 DEF TellsOf
    <3>. QED BY <2>1, <3>3, <3>4, <3>5, <3>7
  <2>2. CASE vendor # "zai"
    <3>1. PICK m : m = [role |-> "user", results |-> rs]
      OBVIOUS
    <3>2. news = <<m>>
      BY <1>2, <2>2, <3>1 DEF ToolResultMessage
    <3>3. news \in Seq({m}) /\ n = 1 /\ DOMAIN news = 1..1 /\ news[1] = m
      BY <1>2, <3>2
    <3>4. m.role = "user" /\ Heard(m) = IdsOf(rs)
      BY <3>1 DEF Heard
    <3>5. TellsOf(news) = <<IdsOf(rs)>>
      <4>1. TellsOf(news) = [i \in 1..1 |-> IdsOf(rs)]
        BY <3>3, <3>4 DEF TellsOf
      <4>. QED BY <4>1
    <3>. QED BY <2>2, <3>3, <3>4, <3>5 DEF IsSeq
  <2>. QED BY <2>1, <2>2
<1>4. \A i \in 1..n : Said(news[i]) = <<>>
  BY <1>3 DEF Said
<1>5. TellsOf(news) \in Seq(Seq(Ids))
  BY <1>3
<1>6. Messages(news)
  <2>1. \A i \in 1..n : Heard(news[i]) = TellsOf(news)[i]
    BY <1>3 DEF TellsOf
  <2>2. Len(TellsOf(news)) = n
    BY <1>3, <1>5 DEF TellsOf
  <2>3. \A i \in 1..n : TellsOf(news)[i] \in Seq(Ids)
    BY <1>3, <1>5, <2>2
  <2>4. <<>> \in Seq(Ids)
    OBVIOUS
  <2>5. \A i \in DOMAIN news : Said(news[i]) \in Seq(Ids) /\ Heard(news[i]) \in Seq(Ids)
    BY <1>3, <1>4, <2>1, <2>3, <2>4
  <2>. QED BY <1>3, <2>5 DEF Messages
<1>7. /\ Messages(ns) /\ Len(ns) = Len(ms) + n
      /\ \A i \in 1..(Len(ms) + n) : ns[i] = IF i <= Len(ms) THEN ms[i] ELSE news[i - Len(ms)]
      /\ CallsOf(ns) = CallsOf(ms) \o CallsOf(news)
      /\ TellsOf(ns) = TellsOf(ms) \o TellsOf(news)
  BY <1>2, <1>6, PartsFollow
<1>8. DOMAIN ns = 1..(Len(ms) + n) /\ Len(ms) # 0 /\ ns # <<>>
  <2>1. DOMAIN ns = 1..(Len(ms) + n)
    BY <1>7, SeqHas DEF Messages
  <2>2. Len(ms) # 0
    BY <1>1
  <2>. QED BY <1>1, <1>3, <1>7, <2>1, <2>2
<1>9. FlattenSeq(CallsOf(ns)) = FlattenSeq(CallsOf(ms))
  <2>1. CallsOf(news) \in Seq(Seq(Ids)) /\ \A i \in 1..Len(CallsOf(news)) : CallsOf(news)[i] = <<>>
    <3>1. CallsOf(news) \in Seq(Seq(Ids)) /\ Len(CallsOf(news)) = n
      BY <1>2, <1>6, PartsAreSeqs
    <3>. QED BY <1>3, <1>4, <3>1 DEF CallsOf
  <2>. QED BY <1>7, <2>1, PartsAreSeqs, FlatSilence
<1>10. FlattenSeq(TellsOf(ns)) = FlattenSeq(TellsOf(ms)) \o IdsOf(rs)
  <2>1. PICK a, e : a = TellsOf(ms) /\ e = IdsOf(rs)
    OBVIOUS
  <2>2. a \in Seq(Seq(Ids)) /\ a # <<>> /\ e \in Seq(Ids)
    BY <2>1, PartsAreSeqs
  <2>3. FlattenSeq(a \o [i \in 1..Len(e) |-> <<e[i]>>]) = FlattenSeq(a) \o e
    BY <2>2, FlatSingles
  <2>4. FlattenSeq(a \o <<e>>) = FlattenSeq(a) \o e
    BY <2>2, FlatOne
  <2>. QED BY <1>3, <1>7, <2>1, <2>3, <2>4
<1>11. \A i \in 1..Len(ms) : ns[i] = ms[i]
  BY <1>1, <1>3, <1>7
<1>12. \A i \in 1..(Len(ms) + n) : ~(i <= Len(ms)) => ns[i].role # "assistant"
  <2>. SUFFICES ASSUME NEW i \in 1..(Len(ms) + n), ~(i <= Len(ms)) PROVE ns[i].role # "assistant"
    OBVIOUS
  <2>1. i - Len(ms) \in 1..n /\ ns[i] = news[i - Len(ms)]
    BY <1>1, <1>3, <1>7
  <2>. QED BY <1>3, <2>1
<1>13. TurnsIn(ns) = TurnsIn(ms)
  BY <1>1, <1>3, <1>8, <1>11, <1>12 DEF TurnsIn
<1>14. TurnsStand(ms, ns)
  BY <1>1, <1>11 DEF TurnsIn, TurnsStand
<1>. QED BY <1>7, <1>8, <1>9, <1>10, <1>13, <1>14

\* A call that has its result moves from the calls to make to the results to tell.
MovedOn(todo, rs, rs1) ==
  /\ IsSeq(rs1) /\ IdsOf(rs1) \in Seq(Ids) /\ Tail(todo) \in Seq(Calls)
  /\ IdsOf(rs1) \o IdsOf(Tail(todo)) = IdsOf(rs) \o IdsOf(todo)
  /\ Len(todo) = 1 => IdsOf(rs1) = IdsOf(rs) \o IdsOf(todo)
  /\ Len(todo) # 1 => Tail(todo) # <<>>
LEMMA OneCallLess ==
  ASSUME NEW todo \in Seq(Calls), todo # <<>>, NEW rs, IsSeq(rs), IdsOf(rs) \in Seq(Ids),
         NEW x, x.id = Head(todo).id, NEW rs1, rs1 = Append(rs, x)
  PROVE  MovedOn(todo, rs, rs1)
<1>1. PICK c, rest, id : c = Head(todo) /\ rest = Tail(todo) /\ id = x.id
  OBVIOUS
<1>2. /\ c \in Calls /\ rest \in Seq(Calls) /\ Len(rest) = Len(todo) - 1 /\ todo[1] = c
      /\ \A i \in 1..Len(rest) : rest[i] = todo[i + 1]
  BY <1>1, HeadTailProperties
<1>3. id \in Ids
  BY <1>1, <1>2 DEF Ids
<1>4. Len(todo) \in Nat /\ Len(todo) # 0 /\ Len(rest) \in Nat
  BY <1>2
<1>5. IdsOf(rest) \in Seq(Ids) /\ Len(IdsOf(rest)) = Len(rest) /\ \A i \in 1..Len(rest) : IdsOf(rest)[i] = todo[i + 1].id
  <2>1. DOMAIN rest = 1..Len(rest) /\ \A i \in 1..Len(rest) : rest[i] \in Calls
    BY <1>2
  <2>2. \A i \in 1..Len(rest) : rest[i].id \in Ids
    BY <2>1 DEF Ids
  <2>. QED BY <1>2, <1>4, <2>1, <2>2 DEF IdsOf
<1>6. IdsOf(todo) \in Seq(Ids) /\ Len(IdsOf(todo)) = Len(todo) /\ \A i \in 1..Len(todo) : IdsOf(todo)[i] = todo[i].id
  <2>1. DOMAIN todo = 1..Len(todo) /\ \A i \in 1..Len(todo) : todo[i] \in Calls
    OBVIOUS
  <2>2. \A i \in 1..Len(todo) : todo[i].id \in Ids
    BY <2>1 DEF Ids
  <2>. QED BY <1>4, <2>1, <2>2 DEF IdsOf
<1>7. Len(rs) \in Nat /\ DOMAIN rs = 1..Len(rs) /\ rs \in Seq(Elements(rs))
  BY SeqHas
<1>8. PICK T : T = Elements(rs) \cup {x}
  OBVIOUS
<1>9. /\ rs1 \in Seq(T) /\ Len(rs1) = Len(rs) + 1 /\ rs1[Len(rs) + 1] = x
      /\ \A i \in 1..Len(rs) : rs1[i] = rs[i]
  <2>1. rs \in Seq(T) /\ x \in T
    BY <1>7, <1>8
  <2>. QED BY <2>1, AppendProperties
<1>10. DOMAIN rs1 = 1..(Len(rs) + 1)
  BY <1>7, <1>9
<1>11. \A i \in 1..Len(rs) : rs[i].id \in Ids
  <2>1. Len(IdsOf(rs)) = Len(rs)
    BY <1>7 DEF IdsOf
  <2>2. \A i \in 1..Len(rs) : IdsOf(rs)[i] \in Ids
    BY <1>7, <2>1
  <2>. QED BY <1>7, <2>2 DEF IdsOf
<1>12. \A i \in 1..(Len(rs) + 1) : rs1[i].id = (IF i <= Len(rs) THEN rs[i].id ELSE id) /\ rs1[i].id \in Ids
  <2>1. \A i \in 1..(Len(rs) + 1) : i \in 1..Len(rs) \/ i = Len(rs) + 1
    BY <1>7
  <2>. QED BY <1>1, <1>3, <1>7, <1>9, <1>11, <2>1
<1>13. /\ IdsOf(rs1) \in Seq(Ids) /\ Len(IdsOf(rs1)) = Len(rs) + 1
       /\ \A i \in 1..(Len(rs) + 1) : IdsOf(rs1)[i] = IF i <= Len(rs) THEN rs[i].id ELSE id
  BY <1>7, <1>10, <1>12 DEF IdsOf
<1>14. Len(IdsOf(rs)) = Len(rs) /\ \A i \in 1..Len(rs) : IdsOf(rs)[i] = rs[i].id
  BY <1>7 DEF IdsOf
<1>15. PICK a, b, d, e : a = IdsOf(rs1) /\ b = IdsOf(rest) /\ d = IdsOf(rs) /\ e = IdsOf(todo)
  OBVIOUS
<1>16. PICK m, n : m = Len(rs) /\ n = Len(rest)
  OBVIOUS
<1>17. /\ a \in Seq(Ids) /\ b \in Seq(Ids) /\ d \in Seq(Ids) /\ e \in Seq(Ids) /\ m \in Nat /\ n \in Nat
       /\ Len(a) = m + 1 /\ Len(b) = n /\ Len(d) = m /\ Len(e) = n + 1
       /\ \A i \in 1..m : a[i] = d[i]
       /\ a[m + 1] = id /\ e[1] = id
       /\ \A i \in 1..n : b[i] = e[i + 1]
  <2>1. m \in Nat /\ n \in Nat /\ Len(todo) = n + 1
    BY <1>2, <1>4, <1>7, <1>16
  <2>2. a \in Seq(Ids) /\ b \in Seq(Ids) /\ d \in Seq(Ids) /\ e \in Seq(Ids)
    BY <1>5, <1>6, <1>13, <1>15
  <2>3. Len(a) = m + 1 /\ Len(b) = n /\ Len(d) = m /\ Len(e) = n + 1
    BY <1>5, <1>6, <1>13, <1>14, <1>15, <1>16, <2>1
  <2>4. \A i \in 1..m : a[i] = d[i]
    <3>1. SUFFICES ASSUME NEW i \in 1..m PROVE a[i] = d[i]
      OBVIOUS
    <3>2. i \in 1..(m + 1) /\ i <= m /\ i \in 1..m
      BY <2>1
    <3>3. a[i] = rs[i].id
      BY <1>13, <1>15, <1>16, <3>2
    <3>4. d[i] = rs[i].id
      BY <1>14, <1>15, <1>16, <3>2
    <3>. QED BY <3>3, <3>4
  <2>5. a[m + 1] = id
    BY <1>13, <1>15, <1>16, <2>1
  <2>6. e[1] = id
    <3>1. e[1] = todo[1].id
      BY <1>6, <1>15, <2>1
    <3>. QED BY <1>1, <1>2, <3>1
  <2>7. \A i \in 1..n : b[i] = e[i + 1]
    <3>1. \A i \in 1..n : i + 1 \in 1..Len(todo)
      BY <2>1
    <3>. QED BY <1>5, <1>6, <1>15, <1>16, <3>1
  <2>. QED BY <2>1, <2>2, <2>3, <2>4, <2>5, <2>6, <2>7
<1>18. a \o b = d \o e
  <2>1. PICK u, v : u = a \o b /\ v = d \o e
    OBVIOUS
  <2>2. /\ u \in Seq(Ids) /\ Len(u) = m + 1 + n
        /\ \A i \in 1..(m + 1 + n) : u[i] = IF i <= m + 1 THEN a[i] ELSE b[i - (m + 1)]
    <3>1. /\ u \in Seq(Ids) /\ Len(u) = Len(a) + Len(b)
          /\ \A i \in 1..(Len(a) + Len(b)) : u[i] = IF i <= Len(a) THEN a[i] ELSE b[i - Len(a)]
      BY <1>17, <2>1, ConcatProperties
    <3>. QED BY <1>17, <3>1
  <2>3. /\ v \in Seq(Ids) /\ Len(v) = m + 1 + n
        /\ \A i \in 1..(m + 1 + n) : v[i] = IF i <= m THEN d[i] ELSE e[i - m]
    <3>1. /\ v \in Seq(Ids) /\ Len(v) = Len(d) + Len(e)
          /\ \A i \in 1..(Len(d) + Len(e)) : v[i] = IF i <= Len(d) THEN d[i] ELSE e[i - Len(d)]
      BY <1>17, <2>1, ConcatProperties
    <3>2. Len(d) + Len(e) = m + 1 + n
      BY <1>17
    <3>. QED BY <1>17, <3>1, <3>2
  <2>4. ASSUME NEW i \in 1..(m + 1 + n) PROVE u[i] = v[i]
    <3>1. CASE i <= m
      BY <1>17, <2>2, <2>3, <3>1
    <3>2. CASE i = m + 1
      <4>1. ~(i <= m) /\ i <= m + 1 /\ i - m = 1
        BY <1>17, <3>2
      <4>. QED BY <1>17, <2>2, <2>3, <3>2, <4>1
    <3>3. CASE i > m + 1
      <4>1. ~(i <= m) /\ ~(i <= m + 1) /\ i - (m + 1) \in 1..n /\ (i - (m + 1)) + 1 = i - m
        BY <1>17, <3>3
      <4>. QED BY <1>17, <2>2, <2>3, <4>1
    <3>. QED BY <1>17, <3>1, <3>2, <3>3
  <2>5. u = v
    BY <2>2, <2>3, <2>4, SeqEqual
  <2>. QED BY <2>1, <2>5
<1>19. ASSUME Len(todo) = 1 PROVE a = d \o e
  <2>1. n = 0 /\ b = <<>>
    BY <1>2, <1>16, <1>17, <1>19
  <2>2. a \o <<>> = a
    BY <1>17, ConcatEmptySeq
  <2>. QED BY <1>18, <2>1, <2>2
<1>20. Len(todo) # 1 => rest # <<>>
  BY <1>2, <1>4
<1>21. IsSeq(rs1)
  BY <1>9 DEF IsSeq
<1>. QED BY <1>1, <1>2, <1>13, <1>15, <1>18, <1>19, <1>20, <1>21 DEF MovedOn

\* The conversation of one question: between two turns all is told; while tools run, what is told,
\* what will be and what is still to run make what was called; each turn but the last asked for
\* something; and the steps count the turns.
TalkShape ==
  /\ talk = [at |-> talk.at, step |-> talk.step, messages |-> talk.messages,
             todo |-> talk.todo, results |-> talk.results, answer |-> talk.answer]
  /\ talk.at \in {"none", "model", "tools", "over"} /\ talk.step \in 0..MaxSteps
  /\ talk.at # "over" => talk.step < MaxSteps
  /\ talk.at = "none" <=> talk.messages = <<>>
  /\ talk.at = "none" => talk.step = 0
  /\ talk.at = "tools" <=> talk.todo # <<>>
  /\ talk.at = "over" <=> talk.answer # "none"
  /\ talk.todo \in Seq(Calls)
  /\ IsSeq(talk.results) /\ IdsOf(talk.results) \in Seq(Ids)
Spoken(stage, ms, step, results, todo) ==
  LET told == FlattenSeq(TellsOf(ms))
      called == FlattenSeq(CallsOf(ms))
      turns == Cardinality(TurnsIn(ms))
  IN  /\ stage = "model" => told = called /\ turns = step
      /\ stage = "tools" => told \o (IdsOf(results) \o IdsOf(todo)) = called /\ turns = step + 1
AllAsked(ms) == \A i \in TurnsIn(ms) : ms[i].ids # <<>>
Concluded(answer, ms) ==
  /\ answer # "text" => AllAsked(ms)
  /\ answer = "text" => \E last \in TurnsIn(ms) : ms[last].ids = <<>> /\ \A i \in TurnsIn(ms) : i <= last
  /\ answer = "stopped" => /\ FlattenSeq(TellsOf(ms)) = FlattenSeq(CallsOf(ms))
                           /\ Cardinality(TurnsIn(ms)) = MaxSteps
TalkInv ==
  /\ TalkShape /\ Messages(talk.messages)
  /\ Spoken(talk.at, talk.messages, talk.step, talk.results, talk.todo)
  /\ Concluded(talk.answer, talk.messages)

LEMMA TalkStarts == ASSUME HostInit PROVE TalkInv
<1>1. talk = [at |-> "none", step |-> 0, messages |-> <<>>, todo |-> <<>>, results |-> <<>>, answer |-> "none"]
  BY DEF HostInit
<1>2. /\ talk.at = "none" /\ talk.step = 0 /\ talk.messages = <<>> /\ talk.todo = <<>>
      /\ talk.results = <<>> /\ talk.answer = "none"
  BY <1>1
<1>3. MaxSteps \in Nat \ {0}
  BY HostAssumption
<1>4. IsSeq(<<>>) /\ IdsOf(<<>>) \in Seq(Ids) /\ <<>> \in Seq(Calls) /\ DOMAIN <<>> = {}
  <2>1. <<>> \in Seq({})
    OBVIOUS
  <2>2. DOMAIN <<>> = {}
    OBVIOUS
  <2>3. IdsOf(<<>>) = <<>>
    BY DEF IdsOf
  <2>4. <<>> \in Seq(Ids) /\ <<>> \in Seq(Calls)
    OBVIOUS
  <2>5. IsSeq(<<>>)
    BY <2>1 DEF IsSeq
  <2>. QED BY <2>2, <2>3, <2>4, <2>5
<1>5. TalkShape
  BY <1>1, <1>2, <1>3, <1>4 DEF TalkShape
<1>6. Messages(<<>>) /\ TurnsIn(<<>>) = {}
  BY <1>4 DEF Messages, TurnsIn
<1>. QED BY <1>2, <1>5, <1>6 DEF TalkInv, Spoken, Concluded, AllAsked

LEMMA QuestionKeeps == ASSUME TalkInv, Question PROVE TalkInv'
<1>. DEFINE ms == <<[role |-> "user", results |-> <<>>]>>
<1>1. talk' = [talk EXCEPT !.at = "model", !.messages = ms] /\ talk.at = "none"
  BY DEF Question
<1>2. PICK m : m = [role |-> "user", results |-> <<>>]
  OBVIOUS
<1>3. ms \in Seq({m}) /\ DOMAIN ms = {1} /\ ms[1] = m /\ ms # <<>> /\ Len(ms) = 1
  <2>1. ms = <<m>>
    BY <1>2
  <2>. HIDE DEF ms
  <2>2. ms \in Seq({m}) /\ Len(ms) = 1 /\ ms[1] = m /\ ms # <<>> /\ DOMAIN ms = 1..1
    BY <2>1
  <2>. QED BY <2>2
<1>4. Said(m) = <<>> /\ Heard(m) = <<>> /\ m.role # "assistant"
  <2>1. m.role = "user" /\ m.results = <<>>
    BY <1>2
  <2>2. IdsOf(<<>>) = <<>>
    BY DEF IdsOf
  <2>. QED BY <2>1, <2>2 DEF Said, Heard
<1>5. Messages(ms) /\ TurnsIn(ms) = {}
  <2>1. <<>> \in Seq(Ids)
    OBVIOUS
  <2>. HIDE DEF ms
  <2>. QED BY <1>3, <1>4, <2>1 DEF Messages, TurnsIn, IsSeq
<1>6. CallsOf(ms) = TellsOf(ms)
  <2>. HIDE DEF ms
  <2>. QED BY <1>3, <1>4 DEF CallsOf, TellsOf
<1>. HIDE DEF ms
<1>7. /\ talk'.at = "model" /\ talk'.messages = ms /\ talk'.step = talk.step /\ talk'.todo = talk.todo
      /\ talk'.results = talk.results /\ talk'.answer = talk.answer
      /\ talk' = [at |-> talk'.at, step |-> talk'.step, messages |-> talk'.messages,
                  todo |-> talk'.todo, results |-> talk'.results, answer |-> talk'.answer]
  <2>1. PICK t : t = talk
    OBVIOUS
  <2>2. t = [at |-> t.at, step |-> t.step, messages |-> t.messages, todo |-> t.todo, results |-> t.results, answer |-> t.answer]
    BY <2>1 DEF TalkInv, TalkShape
  <2>. QED BY <1>1, <2>1, <2>2
<1>8. talk.todo = <<>> /\ talk.answer = "none" /\ talk.step = 0 /\ talk.step < MaxSteps
  BY <1>1 DEF TalkInv, TalkShape
<1>9. TalkShape'
  BY <1>3, <1>7, <1>8 DEF TalkInv, TalkShape
<1>10. Cardinality({}) = 0
  BY FS_EmptySet
<1>11. Spoken("model", ms, 0, talk.results, <<>>) /\ Concluded("none", ms)
  BY <1>5, <1>6, <1>10 DEF Spoken, Concluded, AllAsked
<1>. QED BY <1>5, <1>7, <1>8, <1>9, <1>11 DEF TalkInv

LEMMA TurnKeeps == ASSUME TalkInv, NEW r \in Turns, Turn(r) PROVE TalkInv'
<1>1. talk.at = "model" /\ talk' = AfterTurn(r)
  BY DEF Turn
<1>2. PICK t : t = talk
  OBVIOUS
<1>3. PICK ms, step, rs : ms = talk.messages /\ step = talk.step /\ rs = talk.results
  OBVIOUS
<1>3a. t = [at |-> "model", step |-> step, messages |-> ms, todo |-> <<>>, results |-> rs, answer |-> "none"]
  BY <1>1, <1>2, <1>3 DEF TalkInv, TalkShape
<1>4. /\ step \in 0..MaxSteps /\ step < MaxSteps /\ ms # <<>>
      /\ IsSeq(rs) /\ IdsOf(rs) \in Seq(Ids)
  BY <1>1, <1>2, <1>3 DEF TalkInv, TalkShape
<1>4a. ms # <<>>
  BY <1>4
<1>5. /\ Messages(ms) /\ AllAsked(ms) /\ FlattenSeq(TellsOf(ms)) = FlattenSeq(CallsOf(ms))
      /\ Cardinality(TurnsIn(ms)) = step
  BY <1>1, <1>2, <1>3, <1>3a DEF TalkInv, Spoken, Concluded
<1>5a. Messages(ms)
  BY <1>5
<1>6. r.calls \in Seq(Calls) /\ IdsOf(r.calls) \in Seq(Ids) /\ (r.calls # <<>> => IdsOf(r.calls) # <<>>)
  <2>1. PICK cs : cs = r.calls
    OBVIOUS
  <2>2. cs \in Seq(Elements(cs)) /\ Elements(cs) \subseteq Calls
    BY <2>1, HostAssumption DEF Calls
  <2>3. cs \in Seq(Calls)
    BY <2>2
  <2>4. Len(cs) \in Nat /\ DOMAIN cs = 1..Len(cs) /\ \A i \in 1..Len(cs) : cs[i].id \in Ids
    BY <2>3 DEF Ids
  <2>5. IdsOf(cs) \in Seq(Ids) /\ Len(IdsOf(cs)) = Len(cs)
    BY <2>4 DEF IdsOf
  <2>6. cs # <<>> => Len(cs) # 0
    BY <2>3
  <2>. QED BY <2>1, <2>3, <2>5, <2>6
<1>7. ASSUME NEW answer \in {"failed", "refused"}, talk' = Over(answer) PROVE TalkInv'
  <2>1. talk' = [at |-> "over", step |-> step, messages |-> ms, todo |-> <<>>, results |-> rs, answer |-> answer]
    <3>1. talk' = [t EXCEPT !.at = "over", !.answer = answer]
      BY <1>2, <1>7 DEF Over
    <3>. QED BY ONLY <1>3a, <3>1
  <2>2. /\ talk'.at = "over" /\ talk'.messages = ms /\ talk'.step = step /\ talk'.todo = <<>>
        /\ talk'.results = rs /\ talk'.answer = answer
    BY <2>1
  <2>3. <<>> \in Seq(Calls)
    OBVIOUS
  <2>4. TalkShape'
    BY <1>4, <2>1, <2>2, <2>3 DEF TalkShape
  <2>5. Spoken("over", ms, step, rs, <<>>) /\ Concluded(answer, ms)
    BY <1>5 DEF Spoken, Concluded
  <2>. QED BY <1>5, <2>2, <2>4, <2>5 DEF TalkInv
<1>8. ASSUME r.calls = <<>>,
             talk' = [Over("text") EXCEPT !.messages = Append(@, Assistant(<<>>))]
      PROVE  TalkInv'
  <2>1. PICK m, ns : m = Assistant(<<>>) /\ ns = Append(ms, m)
    OBVIOUS
  <2>2. m.role = "assistant" /\ m.ids = <<>> /\ m.ids \in Seq(Ids)
    BY <2>1 DEF Assistant
  <2>3. /\ Messages(ns) /\ ns # <<>> /\ TurnsIn(ns) = TurnsIn(ms) \cup {Len(ms) + 1} /\ Len(ms) \in Nat
        /\ \A i \in TurnsIn(ms) : i <= Len(ms)
        /\ ns[Len(ms) + 1] = m
    <3>1. m.role = "assistant" /\ m.ids \in Seq(Ids) /\ ns = Append(ms, m)
      BY <2>1, <2>2
    <3>2. Spoke(ms, m, ns)
      BY ONLY <1>4a, <1>5a, <3>1, ModelSpeaks
    <3>. QED BY <3>2 DEF Spoke
  <2>4. talk' = [at |-> "over", step |-> step, messages |-> ns, todo |-> <<>>, results |-> rs, answer |-> "text"]
    <3>1. PICK o : o = Over("text")
      OBVIOUS
    <3>2. o = [t EXCEPT !.at = "over", !.answer = "text"]
      BY <1>2, <3>1 DEF Over
    <3>3. o = [at |-> "over", step |-> step, messages |-> ms, todo |-> <<>>, results |-> rs, answer |-> "text"]
      BY ONLY <1>3a, <3>2
    <3>4. talk' = [o EXCEPT !.messages = Append(@, m)]
      BY <1>8, <2>1, <3>1
    <3>. QED BY ONLY <2>1, <3>3, <3>4
  <2>5. /\ talk'.at = "over" /\ talk'.messages = ns /\ talk'.step = step /\ talk'.todo = <<>>
        /\ talk'.results = rs /\ talk'.answer = "text"
    BY <2>4
  <2>6. <<>> \in Seq(Calls)
    OBVIOUS
  <2>7. TalkShape'
    BY <1>4, <2>3, <2>4, <2>5, <2>6 DEF TalkShape
  <2>8. \A i \in TurnsIn(ms) : i \in Int
    BY SeqHas, <1>5 DEF Messages, TurnsIn
  <2>9. \A i \in TurnsIn(ns) : i <= Len(ms) + 1
    BY <2>3, <2>8
  <2>10. Len(ms) + 1 \in TurnsIn(ns)
    BY <2>3
  <2>11. Spoken("over", ns, step, rs, <<>>) /\ Concluded("text", ns)
    BY <2>2, <2>3, <2>9, <2>10 DEF Spoken, Concluded
  <2>. QED BY <2>3, <2>5, <2>7, <2>11 DEF TalkInv
<1>9. ASSUME r.calls # <<>>,
             talk' = [talk EXCEPT !.at = "tools", !.todo = r.calls, !.results = <<>>,
                                  !.messages = Append(@, Assistant(r.calls))]
      PROVE  TalkInv'
  <2>1. PICK cs, m, ns : cs = r.calls /\ m = Assistant(cs) /\ ns = Append(ms, m)
    OBVIOUS
  <2>2. m.role = "assistant" /\ m.ids = IdsOf(cs) /\ m.ids \in Seq(Ids) /\ m.ids # <<>> /\ cs \in Seq(Calls)
    BY <1>6, <1>9, <2>1 DEF Assistant, IdsOf
  <2>3. /\ Messages(ns) /\ ns # <<>>
        /\ FlattenSeq(CallsOf(ns)) = FlattenSeq(CallsOf(ms)) \o m.ids
        /\ FlattenSeq(TellsOf(ns)) = FlattenSeq(TellsOf(ms))
        /\ TurnsIn(ns) = TurnsIn(ms) \cup {Len(ms) + 1}
        /\ Cardinality(TurnsIn(ns)) = Cardinality(TurnsIn(ms)) + 1
        /\ \A i \in TurnsIn(ms) : ns[i] = ms[i]
        /\ ns[Len(ms) + 1] = m
    <3>1. m.role = "assistant" /\ m.ids \in Seq(Ids) /\ ns = Append(ms, m)
      BY <2>1, <2>2
    <3>2. Spoke(ms, m, ns)
      BY ONLY <1>4a, <1>5a, <3>1, ModelSpeaks
    <3>. QED BY <3>2 DEF Spoke
  <2>4. talk' = [at |-> "tools", step |-> step, messages |-> ns, todo |-> cs, results |-> <<>>, answer |-> "none"]
    <3>1. talk' = [t EXCEPT !.at = "tools", !.todo = cs, !.results = <<>>, !.messages = Append(@, m)]
      BY <1>2, <1>9, <2>1
    <3>. QED BY ONLY <1>3a, <2>1, <3>1
  <2>5. /\ talk'.at = "tools" /\ talk'.messages = ns /\ talk'.step = step /\ talk'.todo = cs
        /\ talk'.results = <<>> /\ talk'.answer = "none"
    BY <2>4
  <2>6. IsSeq(<<>>) /\ IdsOf(<<>>) = <<>> /\ <<>> \in Seq(Ids)
    <3>1. <<>> \in Seq({})
      OBVIOUS
    <3>. QED BY <3>1 DEF IsSeq, IdsOf
  <2>7. TalkShape'
    BY <1>4, <1>9, <2>1, <2>2, <2>3, <2>4, <2>5, <2>6 DEF TalkShape
  <2>8. AllAsked(ns)
    BY <1>5, <2>2, <2>3 DEF AllAsked
  <2>9. IdsOf(<<>>) \o IdsOf(cs) = IdsOf(cs)
    BY <1>6, <2>1, <2>6, ConcatEmptySeq
  <2>10. Spoken("tools", ns, step, <<>>, cs)
    BY <1>5, <2>2, <2>3, <2>9 DEF Spoken
  <2>11. Concluded("none", ns)
    BY <2>8 DEF Concluded
  <2>. QED BY <2>3, <2>5, <2>7, <2>10, <2>11 DEF TalkInv
<1>10. \/ talk' = Over("failed") \/ talk' = Over("refused")
       \/ r.calls = <<>> /\ talk' = [Over("text") EXCEPT !.messages = Append(@, Assistant(<<>>))]
       \/ /\ r.calls # <<>>
          /\ talk' = [talk EXCEPT !.at = "tools", !.todo = r.calls, !.results = <<>>,
                                  !.messages = Append(@, Assistant(r.calls))]
  BY <1>1 DEF AfterTurn
<1>. QED BY <1>7, <1>8, <1>9, <1>10

LEMMA RunToolKeeps == ASSUME TalkInv, NEW o, RunTool(o) PROVE TalkInv'
<1>1. PICK t : t = talk
  OBVIOUS
<1>2. PICK ms, step, rs, todo : ms = talk.messages /\ step = talk.step /\ rs = talk.results /\ todo = talk.todo
  OBVIOUS
<1>3. PICK x, rs1 : x = ResultOf(Head(todo), o) /\ rs1 = Append(rs, x)
  OBVIOUS
<1>4. talk.at = "tools" /\ talk' = IF Len(todo) = 1 THEN AfterTools(rs1)
                                   ELSE [talk EXCEPT !.todo = Tail(@), !.results = rs1]
  BY <1>2, <1>3 DEF RunTool
<1>4a. t = [at |-> "tools", step |-> step, messages |-> ms, todo |-> todo, results |-> rs, answer |-> "none"]
  BY <1>1, <1>2, <1>4 DEF TalkInv, TalkShape
<1>5. /\ step \in 0..MaxSteps /\ step < MaxSteps /\ ms # <<>> /\ todo # <<>> /\ todo \in Seq(Calls)
      /\ IsSeq(rs) /\ IdsOf(rs) \in Seq(Ids)
  BY <1>1, <1>2, <1>4 DEF TalkInv, TalkShape
<1>6. /\ Messages(ms) /\ AllAsked(ms)
      /\ FlattenSeq(TellsOf(ms)) \o (IdsOf(rs) \o IdsOf(todo)) = FlattenSeq(CallsOf(ms))
      /\ Cardinality(TurnsIn(ms)) = step + 1
  BY <1>1, <1>2, <1>4, <1>4a DEF TalkInv, Spoken, Concluded
<1>7. x.id = Head(todo).id
  BY <1>3 DEF ResultOf
<1>8. /\ IsSeq(rs1) /\ IdsOf(rs1) \in Seq(Ids) /\ Tail(todo) \in Seq(Calls)
      /\ IdsOf(rs1) \o IdsOf(Tail(todo)) = IdsOf(rs) \o IdsOf(todo)
      /\ Len(todo) = 1 => IdsOf(rs1) = IdsOf(rs) \o IdsOf(todo)
      /\ Len(todo) # 1 => Tail(todo) # <<>>
  <2>1. todo # <<>> /\ todo \in Seq(Calls) /\ IsSeq(rs) /\ IdsOf(rs) \in Seq(Ids)
    BY <1>5
  <2>2. rs1 = Append(rs, x)
    BY <1>3
  <2>3. MovedOn(todo, rs, rs1)
    BY ONLY <1>7, <2>1, <2>2, OneCallLess
  <2>. QED BY <2>3 DEF MovedOn
<1>9. CASE Len(todo) # 1
  <2>1. PICK rest : rest = Tail(todo)
    OBVIOUS
  <2>2. talk' = [at |-> "tools", step |-> step, messages |-> ms, todo |-> rest, results |-> rs1, answer |-> "none"]
    <3>1. talk' = [t EXCEPT !.todo = rest, !.results = rs1]
      <4>1. Tail(talk.todo) = rest
        BY <1>2, <2>1
      <4>. QED BY <1>1, <1>4, <1>9, <4>1
    <3>. QED BY ONLY <1>4a, <3>1
  <2>3. /\ talk'.at = "tools" /\ talk'.messages = ms /\ talk'.step = step /\ talk'.todo = rest
        /\ talk'.results = rs1 /\ talk'.answer = "none"
    BY <2>2
  <2>4. TalkShape'
    BY <1>5, <1>8, <1>9, <2>1, <2>2, <2>3 DEF TalkShape
  <2>5. Spoken("tools", ms, step, rs1, rest) /\ Concluded("none", ms)
    BY <1>6, <1>8, <2>1 DEF Spoken, Concluded
  <2>. QED BY <1>6, <2>3, <2>4, <2>5 DEF TalkInv
<1>10. CASE Len(todo) = 1
  <2>1. PICK ns, stage, answer : /\ ns = ms \o ToolResultMessage(rs1)
                              /\ stage = (IF step + 1 = MaxSteps THEN "over" ELSE "model")
                              /\ answer = (IF step + 1 = MaxSteps THEN "stopped" ELSE "none")
    OBVIOUS
  <2>2. talk' = [at |-> stage, step |-> step + 1, messages |-> ns, todo |-> <<>>, results |-> <<>>, answer |-> answer]
    <3>1. talk' = [t EXCEPT !.todo = <<>>, !.results = <<>>, !.step = @ + 1,
                            !.messages = @ \o ToolResultMessage(rs1), !.at = stage, !.answer = answer]
      BY <1>1, <1>2, <1>4, <1>10, <2>1 DEF AfterTools
    <3>. QED BY ONLY <1>4a, <2>1, <3>1
  <2>3. /\ talk'.at = stage /\ talk'.messages = ns /\ talk'.step = step + 1 /\ talk'.todo = <<>>
        /\ talk'.results = <<>> /\ talk'.answer = answer
    BY <2>2
  <2>4. /\ Messages(ns) /\ ns # <<>>
        /\ FlattenSeq(CallsOf(ns)) = FlattenSeq(CallsOf(ms))
        /\ FlattenSeq(TellsOf(ns)) = FlattenSeq(TellsOf(ms)) \o IdsOf(rs1)
        /\ TurnsIn(ns) = TurnsIn(ms)
        /\ TurnsStand(ms, ns)
    <3>1. Messages(ms) /\ ms # <<>> /\ IsSeq(rs1) /\ IdsOf(rs1) \in Seq(Ids)
      BY <1>5, <1>6, <1>8
    <3>2. ns = ms \o ToolResultMessage(rs1)
      BY <2>1
    <3>3. Messages(ns) /\ ns # <<>>
      BY ONLY <3>1, <3>2, ResultsAreTold, Zenon
    <3>4. TurnsIn(ns) = TurnsIn(ms)
      BY ONLY <3>1, <3>2, ResultsAreTold, Zenon
    <3>5. TurnsStand(ms, ns)
      BY ONLY <3>1, <3>2, ResultsAreTold, Zenon
    <3>6. FlattenSeq(CallsOf(ns)) = FlattenSeq(CallsOf(ms))
      BY ONLY <3>1, <3>2, ResultsAreTold, Zenon
    <3>7. FlattenSeq(TellsOf(ns)) = FlattenSeq(TellsOf(ms)) \o IdsOf(rs1)
      BY ONLY <3>1, <3>2, ResultsAreTold, Zenon
    <3>. QED BY ONLY <3>3, <3>4, <3>5, <3>6, <3>7
  <2>5. IsSeq(<<>>) /\ IdsOf(<<>>) = <<>> /\ <<>> \in Seq(Ids) /\ <<>> \in Seq(Calls)
    <3>1. <<>> \in Seq({})
      OBVIOUS
    <3>. QED BY <3>1 DEF IsSeq, IdsOf
  <2>6. step + 1 \in 0..MaxSteps /\ (step + 1 # MaxSteps => step + 1 < MaxSteps)
    BY <1>5, HostAssumption
  <2>7. TalkShape'
    BY <2>1, <2>2, <2>3, <2>4, <2>5, <2>6 DEF TalkShape
  <2>8. FlattenSeq(TellsOf(ns)) = FlattenSeq(CallsOf(ns)) /\ Cardinality(TurnsIn(ns)) = step + 1
    BY <1>6, <1>8, <1>10, <2>4
  <2>9. AllAsked(ns)
    BY <1>6, <2>4 DEF AllAsked, TurnsStand
  <2>10. Spoken(stage, ns, step + 1, <<>>, <<>>)
    BY <2>1, <2>8 DEF Spoken
  <2>11. Concluded(answer, ns)
    BY <2>1, <2>8, <2>9 DEF Concluded
  <2>. QED BY <2>3, <2>4, <2>7, <2>10, <2>11 DEF TalkInv
<1>. QED BY <1>9, <1>10

-----------------------------------------------------------------------------
(* The tools the model is offered.                                         *)

\* What is kept of a server's tools are the names it owns, each once.
KeptWell(s, kept) ==
  /\ IsSeq(kept) /\ kept \in Seq(Elements(offer[s])) /\ IsInjective(kept)
  /\ \A i \in DOMAIN kept : host.owner[kept[i]] = s

LEMMA KeptIs ==
  ASSUME offer \in Offers, NEW s \in Servers PROVE KeptWell(s, Kept(s))
<1>. DEFINE tools == offer[s]
            N == Len(tools)
            X == Elements(tools)
            op(kept, n) == IF host.owner[n] = s THEN Append(kept, n) ELSE kept
            Fold(f) == f = [t \in SUBSET DOMAIN tools |->
                              IF t = {} THEN <<>>
                              ELSE IF host.owner[tools[Max(t)]] = s
                                   THEN Append(f[t \ {Max(t)}], tools[Max(t)])
                              ELSE f[t \ {Max(t)}]]
<1>1. Kept(s) = (CHOOSE f : Fold(f))[DOMAIN tools]
  BY DEF Kept, FoldLeft, MapThenFoldSet
<1>2. tools \in Seq(X) /\ IsInjective(tools)
  BY HostAssumption
<1>3. N \in Nat /\ DOMAIN tools = 1..N /\ \A i \in 1..N : tools[i] \in X
  <2>. HIDE DEF X
  <2>. QED BY <1>2
<1>. HIDE DEF X
<1>4. \E f : Fold(f)
  <2>. DEFINE step == [i \in 1..N |-> [kept \in Seq(X) |-> op(kept, tools[i])]]
  <2>1. step \in [1..N -> [Seq(X) -> Seq(X)]]
    <3>1. ASSUME NEW i \in 1..N, NEW kept \in Seq(X) PROVE op(kept, tools[i]) \in Seq(X)
      BY <1>3, AppendProperties
    <3>. HIDE DEF op, tools, N
    <3>. QED BY <3>1
  <2>2. <<>> \in Seq(X)
    OBVIOUS
  <2>3. PICK f : IsFold(f, N, Seq(X), <<>>, step)
    <3>. HIDE DEF N, step
    <3>. QED BY <1>3, <2>1, <2>2, FoldExists
  <2>4. ASSUME NEW t \in SUBSET (1..N), t # {}
        PROVE  step[Max(t)][f[t \ {Max(t)}]] = op(f[t \ {Max(t)}], tools[Max(t)])
    <3>1. Max(t) \in 1..N
      BY <1>3, <2>4, LargestIndex
    <3>2. f[t \ {Max(t)}] \in Seq(X)
      BY <2>3 DEF IsFold
    <3>. HIDE DEF op, tools, N
    <3>. QED BY <3>1, <3>2
  <2>5. Fold(f)
    <3>. HIDE DEF step, tools, N
    <3>. QED BY <1>3, <2>3, <2>4 DEF IsFold
  <2>. QED BY <2>5
<1>5. PICK f : f = CHOOSE g : Fold(g)
  OBVIOUS
<1>6. Fold(f)
  <2>. HIDE DEF Fold
  <2>. QED BY <1>4, <1>5
<1>7. f[{}] = <<>>
  BY <1>3, <1>6
<1>. DEFINE Well(kept, n) ==
              /\ kept \in Seq(X)
              /\ \A i \in 1..Len(kept) : host.owner[kept[i]] = s /\ \E j \in 1..n : kept[i] = tools[j]
              /\ \A i, j \in 1..Len(kept) : kept[i] = kept[j] => i = j
<1>8. ASSUME NEW n \in 1..N, Well(f[1..(n - 1)], n - 1) PROVE Well(f[1..n], n)
  <2>1. PICK old, new, x : old = f[1..(n - 1)] /\ new = f[1..n] /\ x = tools[n]
    OBVIOUS
  <2>2. new = IF host.owner[x] = s THEN Append(old, x) ELSE old
    <3>1. /\ 1..n \in SUBSET (1..N) /\ 1..n # {}
          /\ Max(1..n) = n /\ (1..n) \ {Max(1..n)} = 1..(n - 1)
      BY <1>3, FoldSteps
    <3>2. 1..n \in SUBSET DOMAIN tools
      BY <1>3, <3>1
    <3>3. f[1..n] = IF host.owner[tools[n]] = s THEN Append(f[1..(n - 1)], tools[n]) ELSE f[1..(n - 1)]
      <4>. HIDE DEF N, tools
      <4>. QED BY <1>6, <3>1, <3>2
    <3>. QED BY <2>1, <3>3
  <2>3. Well(old, n - 1)
    BY <1>8, <2>1
  <2>4. n \in Nat /\ n # 0 /\ x \in X /\ Len(old) \in Nat
    BY <1>3, <2>1, <2>3
  <2>5. CASE host.owner[x] # s
    <3>1. new = old
      BY <2>2, <2>5
    <3>2. \A j \in 1..(n - 1) : j \in 1..n
      BY <2>4
    <3>. QED BY <2>1, <2>3, <3>1, <3>2
  <2>6. CASE host.owner[x] = s
    <3>1. PICK m : m = Len(old)
      OBVIOUS
    <3>2. new \in Seq(X) /\ Len(new) = m + 1 /\ new[m + 1] = x /\ m \in Nat /\ \A i \in 1..m : new[i] = old[i]
      BY <2>2, <2>3, <2>4, <2>6, <3>1, AppendProperties
    <3>3. ASSUME NEW i \in 1..m
          PROVE  host.owner[new[i]] = s /\ (\E j \in 1..n : new[i] = tools[j]) /\ new[i] # x
      <4>1. PICK j \in 1..(n - 1) : old[i] = tools[j]
        BY <2>3, <3>1
      <4>2. j \in 1..n /\ j # n /\ j \in 1..N
        BY <1>3, <4>1
      <4>3. tools[j] # x
        BY <1>2, <1>3, <2>1, <4>2 DEF IsInjective
      <4>. HIDE DEF tools
      <4>. QED BY <2>3, <3>1, <3>2, <4>1, <4>2, <4>3
    <3>4. ASSUME NEW i \in 1..(m + 1)
          PROVE  host.owner[new[i]] = s /\ \E j \in 1..n : new[i] = tools[j]
      <4>1. CASE i = m + 1
        <5>1. n \in 1..n
          BY <2>4
        <5>. QED BY <2>1, <2>6, <3>2, <4>1, <5>1
      <4>2. CASE i # m + 1
        <5>1. i \in 1..m
          BY <3>2, <4>2
        <5>. QED BY <3>3, <5>1
      <4>. QED BY <4>1, <4>2
    <3>5. ASSUME NEW i \in 1..(m + 1), NEW j \in 1..(m + 1), new[i] = new[j] PROVE i = j
      <4>1. CASE i = m + 1 /\ j = m + 1
        BY <4>1
      <4>2. CASE i \in 1..m /\ j = m + 1
        BY <3>2, <3>3, <3>5, <4>2
      <4>3. CASE i = m + 1 /\ j \in 1..m
        BY <3>2, <3>3, <3>5, <4>3
      <4>4. CASE i \in 1..m /\ j \in 1..m
        BY <2>3, <3>1, <3>2, <3>5, <4>4
      <4>5. (i = m + 1 \/ i \in 1..m) /\ (j = m + 1 \/ j \in 1..m)
        BY <3>2
      <4>. QED BY <4>1, <4>2, <4>3, <4>4, <4>5
    <3>. QED BY <2>1, <3>2, <3>4, <3>5
  <2>. QED BY <2>5, <2>6
<1>. DEFINE P == {n \in 0..N : Well(f[1..n], n)}
<1>9. 0 \in P
  <2>1. 0 \in 0..N /\ 1..0 = {}
    BY <1>3
  <2>2. f[1..0] = <<>>
    BY <1>7, <2>1
  <2>3. Well(<<>>, 0)
    OBVIOUS
  <2>. HIDE DEF Well
  <2>. QED BY <2>1, <2>2, <2>3
<1>10. \A n \in 1..N : n - 1 \in P => n \in P
  <2>. HIDE DEF Well, N
  <2>. QED BY <1>3, <1>8
<1>11. Well(f[1..N], N)
  <2>. HIDE DEF P
  <2>1. \A n \in 0..N : n \in P
    <3>. HIDE DEF N
    <3>. QED BY <1>3, <1>9, <1>10, UpTo
  <2>2. N \in P
    BY <1>3, <2>1
  <2>. QED BY <2>2 DEF P
<1>12. PICK kept : kept = Kept(s)
  OBVIOUS
<1>13. Well(kept, N)
  <2>1. kept = f[1..N]
    <3>. HIDE DEF Fold
    <3>. QED BY <1>1, <1>3, <1>5, <1>12
  <2>. HIDE DEF Well
  <2>. QED BY <1>11, <2>1
<1>14. IsSeq(kept) /\ DOMAIN kept = 1..Len(kept)
  BY <1>13 DEF IsSeq
<1>15. kept \in Seq(Elements(offer[s]))
  BY <1>13 DEF X
<1>. QED BY <1>12, <1>13, <1>14, <1>15 DEF KeptWell, IsInjective

\* The names of all servers, one after the other, are still each there once.
LEMMA AllToolsOnce ==
  ASSUME offer \in Offers PROVE IsInjective(AllTools)
<1>. DEFINE parts == [i \in DOMAIN Specs |-> Kept(Specs[i])]
            X == UNION {Elements(offer[s]) : s \in Servers}
<1>1. PICK N : N = Len(Specs)
  OBVIOUS
<1>2. N \in Nat /\ N # 0 /\ DOMAIN Specs = 1..N /\ \A i \in 1..N : Specs[i] \in Servers
  <2>1. Specs \in Seq(Servers) /\ Specs # <<>>
    BY HostAssumption
  <2>. QED BY <1>1, <2>1
<1>3. \A i \in 1..N : KeptWell(Specs[i], parts[i])
  BY <1>2, KeptIs
<1>4. ASSUME NEW i \in 1..N PROVE parts[i] \in Seq(X)
  <2>1. PICK s, p : s = Specs[i] /\ p = parts[i]
    OBVIOUS
  <2>2. p \in Seq(Elements(offer[s])) /\ s \in Servers
    BY <1>2, <1>3, <2>1 DEF KeptWell
  <2>3. Elements(offer[s]) \subseteq X
    BY <2>2
  <2>. HIDE DEF X, parts
  <2>4. p \in Seq(X)
    BY <2>2, <2>3
  <2>. QED BY <2>1, <2>4
<1>. HIDE DEF X
<1>5. parts \in Seq(Seq(X)) /\ Len(parts) = N /\ parts # <<>>
  BY <1>2, <1>4
<1>. HIDE DEF parts
<1>6. PICK g : Joins(g, parts, X)
  BY <1>5, JoinsExists
<1>7. AllTools = g[N]
  BY <1>5, <1>6, JoinedIsFlat DEF AllTools, parts
<1>. DEFINE Once(q, n) ==
              /\ q \in Seq(X)
              /\ \A i \in 1..Len(q) : \E k \in 1..n : host.owner[q[i]] = Specs[k]
              /\ \A i, j \in 1..Len(q) : q[i] = q[j] => i = j
            P == {n \in 0..N : n = 0 \/ Once(g[n], n)}
<1>8. ASSUME NEW n \in 1..N
      PROVE  /\ parts[n] \in Seq(X)
             /\ \A i \in 1..Len(parts[n]) : host.owner[parts[n][i]] = Specs[n]
             /\ \A i, j \in 1..Len(parts[n]) : parts[n][i] = parts[n][j] => i = j
  <2>1. PICK p : p = parts[n]
    OBVIOUS
  <2>2. KeptWell(Specs[n], p) /\ p \in Seq(X)
    BY <1>3, <1>4, <2>1
  <2>3. DOMAIN p = 1..Len(p)
    BY <2>2
  <2>. QED BY <2>1, <2>2, <2>3 DEF KeptWell, IsInjective
<1>9. ASSUME NEW n \in 1..N, n - 1 \in P PROVE n \in P
  <2>1. PICK old, new, p : old = g[n - 1] /\ new = g[n] /\ p = parts[n]
    OBVIOUS
  <2>2. new = IF n = 1 THEN p ELSE old \o p
    BY <1>5, <1>6, <2>1 DEF Joins
  <2>3. /\ p \in Seq(X)
        /\ \A i \in 1..Len(p) : host.owner[p[i]] = Specs[n]
        /\ \A i, j \in 1..Len(p) : p[i] = p[j] => i = j
    BY <1>8, <2>1
  <2>4. n \in Nat /\ n \in 1..n /\ n \in 0..N
    BY <1>2
  <2>5. CASE n = 1
    <3>1. new = p
      BY <2>2, <2>5
    <3>2. Once(new, n)
      BY <2>3, <2>4, <3>1
    <3>. QED BY <2>1, <2>4, <3>2
  <2>6. CASE n # 1
    <3>1. Once(old, n - 1) /\ new = old \o p
      <4>1. n - 1 # 0 /\ (n - 1 = 0 \/ Once(g[n - 1], n - 1))
        <5>. HIDE DEF Once
        <5>. QED BY <1>9, <2>4, <2>6
      <4>. HIDE DEF Once
      <4>. QED BY <2>1, <2>2, <2>6, <4>1
    <3>2. PICK a, b : a = Len(old) /\ b = Len(p)
      OBVIOUS
    <3>3. /\ new \in Seq(X) /\ Len(new) = a + b /\ a \in Nat /\ b \in Nat
          /\ \A i \in 1..(a + b) : new[i] = IF i <= a THEN old[i] ELSE p[i - a]
      BY <2>3, <3>1, <3>2, ConcatProperties
    <3>4. ASSUME NEW i \in 1..a PROVE new[i] = old[i] /\ \E k \in 1..(n - 1) : host.owner[new[i]] = Specs[k]
      <4>1. i \in 1..(a + b) /\ i <= a
        BY <3>3
      <4>. QED BY <3>1, <3>2, <3>3, <4>1
    <3>5. ASSUME NEW i \in 1..(a + b), ~(i <= a)
          PROVE  i - a \in 1..b /\ new[i] = p[i - a] /\ host.owner[new[i]] = Specs[n]
      <4>1. i - a \in 1..b
        BY <3>3, <3>5
      <4>. QED BY <2>3, <3>2, <3>3, <3>5, <4>1
    <3>6. \A k \in 1..(n - 1) : Specs[k] # Specs[n] /\ k \in 1..n
      <4>1. \A k \in 1..(n - 1) : k \in 1..N /\ k # n /\ k \in 1..n
        BY <1>2
      <4>2. \A j, k \in 1..N : Specs[j] = Specs[k] => j = k
        BY <1>2, HostAssumption DEF IsInjective
      <4>. QED BY <4>1, <4>2
    <3>7. \A i \in 1..(a + b) : \E k \in 1..n : host.owner[new[i]] = Specs[k]
      <4>. SUFFICES ASSUME NEW i \in 1..(a + b) PROVE \E k \in 1..n : host.owner[new[i]] = Specs[k]
        OBVIOUS
      <4>1. CASE i <= a
        <5>1. i \in 1..a
          BY <3>3, <4>1
        <5>. QED BY <3>4, <3>6, <5>1
      <4>2. CASE ~(i <= a)
        BY <2>4, <3>5, <4>2
      <4>. QED BY <4>1, <4>2
    <3>8. ASSUME NEW i \in 1..(a + b), NEW j \in 1..(a + b), new[i] = new[j] PROVE i = j
      <4>1. CASE i <= a /\ j <= a
        <5>1. i \in 1..a /\ j \in 1..a
          BY <3>3, <4>1
        <5>2. old[i] = old[j]
          BY <3>4, <3>8, <5>1
        <5>. QED BY <3>1, <3>2, <5>1, <5>2
      <4>2. CASE ~(i <= a) /\ ~(j <= a)
        <5>1. i - a \in 1..b /\ j - a \in 1..b /\ p[i - a] = p[j - a]
          BY <3>5, <3>8, <4>2
        <5>2. i - a = j - a
          BY <2>3, <3>2, <5>1
        <5>. QED BY <3>3, <5>2
      <4>3. CASE i <= a /\ ~(j <= a)
        <5>1. i \in 1..a
          BY <3>3, <4>3
        <5>. QED BY <3>4, <3>5, <3>6, <3>8, <4>3, <5>1
      <4>4. CASE ~(i <= a) /\ j <= a
        <5>1. j \in 1..a
          BY <3>3, <4>4
        <5>. QED BY <3>4, <3>5, <3>6, <3>8, <4>4, <5>1
      <4>. QED BY <4>1, <4>2, <4>3, <4>4
    <3>9. Once(new, n)
      BY <3>3, <3>7, <3>8
    <3>. HIDE DEF Once
    <3>. QED BY <2>1, <2>4, <3>9
  <2>. QED BY <2>5, <2>6
<1>10. N \in P
  <2>1. 0 \in P
    BY <1>2
  <2>. HIDE DEF P
  <2>2. \A n \in 0..N : n \in P
    BY <1>2, <1>9, <2>1, UpTo
  <2>. QED BY <1>2, <2>2
<1>11. Once(g[N], N)
  <2>. HIDE DEF Once
  <2>. QED BY <1>2, <1>10
<1>12. DOMAIN g[N] = 1..Len(g[N])
  BY <1>11
<1>. QED BY <1>7, <1>11, <1>12 DEF IsInjective

\* A name belongs to the first of the servers started that lists it.
Owns(owner, n) ==
  /\ \A i \in 1..n : Elements(offer[Specs[i]]) \subseteq DOMAIN owner
  /\ \A x \in DOMAIN owner : \E k \in 1..n :
        /\ owner[x] = Specs[k] /\ x \in Elements(offer[Specs[k]])
        /\ \A j \in 1..(k - 1) : x \notin Elements(offer[Specs[j]])
HostInv ==
  /\ host = [at |-> host.at, started |-> host.started, children |-> host.children, owner |-> host.owner]
  /\ offer \in Offers /\ host.at \in {"starting", "up", "failed", "off"}
  /\ host.started \in 0..Len(Specs) /\ host.children \subseteq Servers
  /\ host.at = "starting" => host.started < Len(Specs)
  /\ host.at = "up" => host.started = Len(Specs)
  /\ host.at \in {"starting", "up"} => host.children = {Specs[i] : i \in 1..host.started}
  /\ Owns(host.owner, host.started)

LEMMA SpecsHave ==
  /\ Len(Specs) \in Nat /\ Len(Specs) # 0 /\ DOMAIN Specs = 1..Len(Specs)
  /\ \A i \in 1..Len(Specs) : Specs[i] \in Servers
<1>1. Specs \in Seq(Servers) /\ Specs # <<>>
  BY HostAssumption
<1>. QED BY <1>1

LEMMA HostStarts == ASSUME HostInit PROVE HostInv
<1>1. host = [at |-> "starting", started |-> 0, children |-> {}, owner |-> <<>>] /\ offer \in Offers
  BY DEF HostInit
<1>2. host.at = "starting" /\ host.started = 0 /\ host.children = {} /\ host.owner = <<>>
  BY <1>1
<1>3. Len(Specs) \in Nat /\ 0 < Len(Specs) /\ 0 \in 0..Len(Specs) /\ 1..0 = {}
  BY SpecsHave
<1>4. {Specs[i] : i \in 1..0} = {}
  BY <1>3
<1>5. DOMAIN <<>> = {}
  OBVIOUS
<1>6. Owns(<<>>, 0)
  BY <1>3, <1>5 DEF Owns
<1>. QED BY <1>1, <1>2, <1>3, <1>4, <1>6 DEF HostInv

LEMMA StartKeeps == ASSUME HostInv, Start PROVE HostInv'
<1>1. PICK h, n, s : h = host /\ n = host.started /\ s = Specs[host.started + 1]
  OBVIOUS
<1>2. host.at = "starting" /\ offer' = offer
  BY DEF Start
<1>3. /\ h = [at |-> "starting", started |-> n, children |-> h.children, owner |-> h.owner]
      /\ h.children = {Specs[i] : i \in 1..n} /\ h.children \subseteq Servers
      /\ Owns(h.owner, n)
  BY <1>1, <1>2 DEF HostInv
<1>4. n \in 0..Len(Specs) /\ n < Len(Specs) /\ offer \in Offers
  BY <1>1, <1>2 DEF HostInv
<1>5. Len(Specs) \in Nat /\ n \in Nat /\ n + 1 \in 1..Len(Specs) /\ n + 1 \in 0..Len(Specs) /\ s \in Servers
  <2>1. Len(Specs) \in Nat /\ n \in Nat /\ n + 1 \in 1..Len(Specs) /\ n + 1 \in 0..Len(Specs)
    BY <1>4, SpecsHave
  <2>. QED BY <1>1, <2>1, SpecsHave
<1>6. CASE host' = [host EXCEPT !.at = "failed"]
  <2>1. host' = [at |-> "failed", started |-> n, children |-> h.children, owner |-> h.owner]
    <3>1. host' = [h EXCEPT !.at = "failed"]
      BY <1>1, <1>6
    <3>2. h = [at |-> "starting", started |-> n, children |-> h.children, owner |-> h.owner]
      BY <1>3
    <3>. QED BY ONLY <3>1, <3>2
  <2>2. host'.at = "failed" /\ host'.started = n /\ host'.children = h.children /\ host'.owner = h.owner
    BY <2>1
  <2>3. Owns(h.owner, n)'
    BY <1>2, <1>3 DEF Owns
  <2>. QED BY <1>2, <1>3, <1>4, <2>1, <2>2, <2>3 DEF HostInv, Owns
<1>7. CASE host' = [at |-> IF host.started + 1 = Len(Specs) THEN "up" ELSE "starting",
                    started |-> host.started + 1, children |-> host.children \cup {s}, owner |-> Merged(s)]
  <2>1. PICK stage, kids, o : /\ stage = (IF n + 1 = Len(Specs) THEN "up" ELSE "starting")
                           /\ kids = h.children \cup {s} /\ o = Merged(s)
    OBVIOUS
  <2>2. host' = [at |-> stage, started |-> n + 1, children |-> kids, owner |-> o]
    BY <1>1, <1>7, <2>1
  <2>3. host'.at = stage /\ host'.started = n + 1 /\ host'.children = kids /\ host'.owner = o
    BY <2>2
  <2>4. kids = {Specs[i] : i \in 1..(n + 1)} /\ kids \subseteq Servers
    <3>1. \A i : i \in 1..(n + 1) <=> i \in 1..n \/ i = n + 1
      BY <1>5
    <3>. QED BY <1>1, <1>3, <1>5, <2>1, <3>1
  <2>5. PICK E, D : E = Elements(offer[s]) /\ D = DOMAIN h.owner
    OBVIOUS
  <2>6. DOMAIN o = D \cup E /\ (\A x \in D : o[x] = h.owner[x]) /\ \A x \in E \ D : o[x] = s
    <3>1. o = [x \in D \cup E |-> IF x \in D THEN h.owner[x] ELSE s]
      BY <1>1, <2>1, <2>5 DEF Merged
    <3>. QED BY ONLY <3>1
  <2>7. \A i \in 1..(n + 1) : Elements(offer[Specs[i]]) \subseteq DOMAIN o
    <3>. SUFFICES ASSUME NEW i \in 1..(n + 1) PROVE Elements(offer[Specs[i]]) \subseteq DOMAIN o
      OBVIOUS
    <3>1. CASE i \in 1..n
      BY <1>3, <2>5, <2>6, <3>1 DEF Owns
    <3>2. CASE i = n + 1
      BY <1>1, <2>5, <2>6, <3>2
    <3>. QED BY <1>5, <3>1, <3>2
  <2>8. ASSUME NEW x \in DOMAIN o
        PROVE  \E k \in 1..(n + 1) : /\ o[x] = Specs[k] /\ x \in Elements(offer[Specs[k]])
                                     /\ \A j \in 1..(k - 1) : x \notin Elements(offer[Specs[j]])
    <3>1. CASE x \in D
      <4>1. PICK k \in 1..n : /\ h.owner[x] = Specs[k] /\ x \in Elements(offer[Specs[k]])
                              /\ \A j \in 1..(k - 1) : x \notin Elements(offer[Specs[j]])
        BY <1>3, <2>5, <3>1 DEF Owns
      <4>2. k \in 1..(n + 1)
        BY <1>5
      <4>. QED BY <2>6, <3>1, <4>1, <4>2
    <3>2. CASE x \notin D
      <4>1. o[x] = Specs[n + 1] /\ x \in Elements(offer[Specs[n + 1]])
        BY <1>1, <2>5, <2>6, <2>8, <3>2
      <4>2. \A j \in 1..n : x \notin Elements(offer[Specs[j]])
        BY <1>3, <2>5, <3>2 DEF Owns
      <4>3. n + 1 \in 1..(n + 1) /\ (n + 1) - 1 = n
        BY <1>5
      <4>. QED BY <4>1, <4>2, <4>3
    <3>. QED BY <3>1, <3>2
  <2>9. Owns(o, n + 1)'
    BY <1>2, <2>7, <2>8 DEF Owns
  <2>10. stage = "starting" => n + 1 < Len(Specs)
    BY <1>5, <2>1
  <2>11. stage = "up" => n + 1 = Len(Specs)
    BY <2>1
  <2>12. stage \in {"starting", "up"}
    BY <2>1
  <2>. QED BY <1>2, <1>4, <1>5, <2>2, <2>3, <2>4, <2>9, <2>10, <2>11, <2>12 DEF HostInv, Owns
<1>. QED BY <1>1, <1>6, <1>7 DEF Start

LEMMA StopKeeps == ASSUME HostInv, Stop PROVE HostInv'
<1>1. PICK h : h = host
  OBVIOUS
<1>2. offer' = offer /\ host' = [h EXCEPT !.at = "off", !.children = {}]
  BY <1>1 DEF Stop
<1>3. h = [at |-> h.at, started |-> h.started, children |-> h.children, owner |-> h.owner]
  BY <1>1 DEF HostInv
<1>4. host' = [at |-> "off", started |-> h.started, children |-> {}, owner |-> h.owner]
  BY ONLY <1>2, <1>3
<1>5. host'.at = "off" /\ host'.started = h.started /\ host'.children = {} /\ host'.owner = h.owner
  BY <1>4
<1>6. offer \in Offers /\ h.started \in 0..Len(Specs) /\ Owns(h.owner, h.started)
  BY <1>1 DEF HostInv
<1>7. Owns(h.owner, h.started)'
  BY <1>2, <1>6 DEF Owns
<1>8. Owns(host.owner, host.started)'
  BY <1>2, <1>5, <1>7 DEF Owns
<1>9. host' = [at |-> host'.at, started |-> host'.started, children |-> host'.children, owner |-> host'.owner]
  BY <1>4, <1>5
<1>. QED BY <1>2, <1>5, <1>6, <1>8, <1>9 DEF HostInv

LEMMA OneOwner == ASSUME HostInv PROVE OneOwnerForEachTool
<1>. SUFFICES ASSUME host.at = "up"
              PROVE  /\ IsInjective(AllTools)
                     /\ \A s \in Servers : \A i \in DOMAIN offer[s] : offer[s][i] \in DOMAIN host.owner
                     /\ \A n \in DOMAIN host.owner :
                           LET first == SelectInSeq(Specs, LAMBDA s : \E i \in DOMAIN offer[s] : offer[s][i] = n)
                           IN  host.owner[n] = Specs[first] /\ host.owner[n] \in host.children
  BY DEF OneOwnerForEachTool
<1>1. PICK N : N = Len(Specs)
  OBVIOUS
<1>2. Owns(host.owner, N) /\ host.children = {Specs[i] : i \in 1..N} /\ offer \in Offers
  BY <1>1 DEF HostInv
<1>3. N \in Nat /\ DOMAIN Specs = 1..N
  BY <1>1, SpecsHave
<1>4. ASSUME NEW s \in Servers, NEW i \in DOMAIN offer[s] PROVE offer[s][i] \in DOMAIN host.owner
  <2>1. PICK k \in 1..N : s = Specs[k]
    BY <1>3 DEF Servers
  <2>. QED BY <1>2, <2>1 DEF Owns, Elements
<1>5. ASSUME NEW n \in DOMAIN host.owner
      PROVE  /\ host.owner[n] = Specs[SelectInSeq(Specs, LAMBDA s : \E i \in DOMAIN offer[s] : offer[s][i] = n)]
             /\ host.owner[n] \in host.children
  <2>1. PICK k \in 1..N : /\ host.owner[n] = Specs[k] /\ n \in Elements(offer[Specs[k]])
                          /\ \A j \in 1..(k - 1) : n \notin Elements(offer[Specs[j]])
    BY <1>2 DEF Owns
  <2>. DEFINE I == {i \in 1..Len(Specs) : \E j \in DOMAIN offer[Specs[i]] : offer[Specs[i]][j] = n}
  <2>2. SelectInSeq(Specs, LAMBDA s : \E i \in DOMAIN offer[s] : offer[s][i] = n)
          = IF I # {} THEN CHOOSE x \in I : \A y \in I : x <= y ELSE 0
    BY DEF SelectInSeq, Min
  <2>3. \A i : i \in I <=> i \in 1..N /\ n \in Elements(offer[Specs[i]])
    BY <1>1 DEF Elements
  <2>. HIDE DEF I
  <2>4. k \in I
    BY <2>1, <2>3
  <2>5. \A y \in I : k <= y
    <3>. SUFFICES ASSUME NEW y \in I, ~(k <= y) PROVE FALSE
      OBVIOUS
    <3>1. y \in 1..N /\ n \in Elements(offer[Specs[y]])
      BY <2>3
    <3>2. y \in 1..(k - 1)
      BY <1>3, <3>1
    <3>. QED BY <2>1, <3>1, <3>2
  <2>6. PICK first : first = CHOOSE x \in I : \A y \in I : x <= y
    OBVIOUS
  <2>7. first \in I /\ \A y \in I : first <= y
    BY <2>4, <2>5, <2>6
  <2>8. first = k
    <3>1. first \in 1..N /\ first <= k /\ k <= first
      BY <2>3, <2>4, <2>5, <2>7
    <3>. QED BY <1>3, <3>1
  <2>9. I # {}
    BY <2>4
  <2>. QED BY <1>2, <2>1, <2>2, <2>6, <2>8, <2>9
<1>. QED BY <1>2, <1>4, <1>5, AllToolsOnce

-----------------------------------------------------------------------------
(* The loop.                                                               *)

LoopInv == TalkInv /\ HostInv /\ DraftIsTheModels

LEMMA SampleKeeps == ASSUME NEW asked \in BOOLEAN, NEW r \in Turns, Sample(asked, r) PROVE DraftIsTheModels'
<1>1. CompletionOf(r) \in {"fault", "tool_calls", "length", "refusal", "end_turn"}
  BY DEF CompletionOf, ZaiComplete, ClaudeComplete, StopReason, ClaudeStop
<1>2. PICK stop : stop = CompletionOf(r)
  OBVIOUS
<1>3. \/ draft' = [text |-> "", label |-> "unavailable", stop |-> "error"]
      \/ draft' = [text |-> "", label |-> "refused", stop |-> "refusal"]
      \/ stop \notin {"fault", "refusal"} /\ draft' = [text |-> r.text, label |-> "model", stop |-> stop]
  BY <1>2 DEF Sample, SamplingCompletion
<1>4. CASE draft' = [text |-> "", label |-> "unavailable", stop |-> "error"]
  <2>1. draft'.text = "" /\ draft'.label = "unavailable" /\ draft'.stop = "error"
    BY <1>4
  <2>. QED BY <2>1 DEF DraftIsTheModels
<1>5. CASE draft' = [text |-> "", label |-> "refused", stop |-> "refusal"]
  <2>1. draft'.text = "" /\ draft'.label = "refused" /\ draft'.stop = "refusal"
    BY <1>5
  <2>. QED BY <2>1 DEF DraftIsTheModels
<1>6. CASE stop \notin {"fault", "refusal"} /\ draft' = [text |-> r.text, label |-> "model", stop |-> stop]
  <2>1. draft'.label = "model" /\ draft'.stop = stop
    BY <1>6
  <2>2. stop \notin {"error", "refusal"}
    BY <1>1, <1>2, <1>6
  <2>. QED BY <2>1, <2>2 DEF DraftIsTheModels
<1>. QED BY <1>3, <1>4, <1>5, <1>6

LEMMA LoopFollows == ASSUME LoopInv PROVE LoopHolds
<1>1. HostTypeOK
  BY DEF LoopInv, TalkInv, TalkShape, HostInv, HostTypeOK
<1>2. PICK ms : ms = talk.messages
  OBVIOUS
<1>3. Told = FlattenSeq(TellsOf(ms)) /\ Called = FlattenSeq(CallsOf(ms))
  BY <1>2 DEF Told, Called, TellsOf, CallsOf, Heard, Said, IdsOf
<1>4. EveryCallIsAnswered
  BY <1>2, <1>3 DEF LoopInv, TalkInv, Spoken, EveryCallIsAnswered
<1>5. AnswerIsALastTurn
  <2>1. {i \in DOMAIN talk.messages : talk.messages[i].role = "assistant"} = TurnsIn(ms)
    BY <1>2 DEF TurnsIn
  <2>2. Concluded(talk.answer, ms) /\ Spoken(talk.at, ms, talk.step, talk.results, talk.todo)
    BY <1>2 DEF LoopInv, TalkInv
  <2>3. talk.at = "model" => Cardinality(TurnsIn(ms)) < MaxSteps
    BY <2>2 DEF LoopInv, TalkInv, TalkShape, Spoken
  <2>4. talk.answer = "text" <=> \E last \in TurnsIn(ms) : ms[last].ids = <<>> /\ \A i \in TurnsIn(ms) : i <= last
    BY <2>2 DEF Concluded, AllAsked
  <2>5. talk.answer = "stopped" => Cardinality(TurnsIn(ms)) = MaxSteps /\ Told = Called
    BY <1>3, <2>2 DEF Concluded
  <2>. QED BY <1>2, <2>1, <2>3, <2>4, <2>5 DEF AnswerIsALastTurn
<1>. QED BY <1>1, <1>4, <1>5, OneOwner DEF LoopInv, LoopHolds

\* The tool loop is a conversation a vendor accepts: the model is never asked again before it was
\* told every result, once and in order; it is offered each name once, by the first server that
\* lists it; the loop ends on a turn that asks for nothing or on its bound, and says which; and a
\* server is never lent an apology for a text.
THEOREM LoopsHold == HostSpec => []LoopHolds
<1>1. HostInit => LoopInv
  <2>. SUFFICES ASSUME HostInit PROVE LoopInv
    OBVIOUS
  <2>1. DraftIsTheModels
    BY DEF HostInit, NoDraft, DraftIsTheModels
  <2>. QED BY <2>1, TalkStarts, HostStarts DEF LoopInv
<1>2. LoopInv /\ [HostNext]_hostVars => LoopInv'
  <2>. SUFFICES ASSUME LoopInv, [HostNext]_hostVars PROVE LoopInv'
    OBVIOUS
  <2>. USE DEF LoopInv
  <2>1. UNCHANGED talk => TalkInv'
    BY DEF TalkInv, TalkShape, Messages, Spoken, Concluded
  <2>2. UNCHANGED <<offer, host>> => HostInv'
    BY DEF HostInv, Owns
  <2>3. UNCHANGED draft => DraftIsTheModels'
    BY DEF DraftIsTheModels
  <2>4. CASE Start
    BY <2>1, <2>3, <2>4, StartKeeps DEF Start
  <2>5. CASE Question
    BY <2>2, <2>3, <2>5, QuestionKeeps DEF Question
  <2>6. CASE Stop
    BY <2>1, <2>3, <2>6, StopKeeps DEF Stop
  <2>7. ASSUME NEW r \in Turns, Turn(r) PROVE LoopInv'
    BY <2>2, <2>3, <2>7, TurnKeeps DEF Turn
  <2>8. ASSUME NEW o \in {"good", "error", "raised"}, RunTool(o) PROVE LoopInv'
    BY <2>2, <2>3, <2>8, RunToolKeeps DEF RunTool
  <2>9. ASSUME NEW asked \in BOOLEAN, NEW r \in Turns, Sample(asked, r) PROVE LoopInv'
    BY <2>1, <2>2, <2>9, SampleKeeps DEF Sample
  <2>10. CASE UNCHANGED hostVars
    BY <2>1, <2>2, <2>3, <2>10 DEF hostVars
  <2>. QED BY <2>4, <2>5, <2>6, <2>7, <2>8, <2>9, <2>10 DEF HostNext
<1>. QED BY <1>1, <1>2, LoopFollows, PTL DEF HostSpec

-----------------------------------------------------------------------------
(* The schedules of a bond (BondSchedule): the calendar first.             *)

LEMMA DateParts ==
  ASSUME NEW x \in CalendarDates
  PROVE  /\ x = <<x[1], x[2], x[3]>> /\ x[1] \in Int /\ x[2] \in 1..12 /\ x[3] \in 1..31
         /\ x[3] <= DaysInMonth(x[1], x[2])
BY DEF CalendarDates

LEMMA DateIs ==
  ASSUME NEW y \in Int, NEW m \in 1..12, NEW d \in 1..31, d <= DaysInMonth(y, m)
  PROVE  <<y, m, d>> \in CalendarDates
BY DEF CalendarDates

LEMMA MonthLengths == ASSUME NEW y \in Int, NEW m \in 1..12 PROVE DaysInMonth(y, m) \in 28..31
BY DEF DaysInMonth

\* What comes before a month, in a year that is no leap year.
LEMMA DaysBeforeAre ==
  ASSUME NEW m \in 1..12
  PROVE  /\ DaysBefore[m] \in 0..334
         /\ m <= 6 => DaysBefore[m + 6] - DaysBefore[m] \in 181..184
<1>1. /\ DaysBefore[1] = 0 /\ DaysBefore[2] = 31 /\ DaysBefore[3] = 59 /\ DaysBefore[4] = 90
      /\ DaysBefore[5] = 120 /\ DaysBefore[6] = 151 /\ DaysBefore[7] = 181 /\ DaysBefore[8] = 212
      /\ DaysBefore[9] = 243 /\ DaysBefore[10] = 273 /\ DaysBefore[11] = 304 /\ DaysBefore[12] = 334
  BY DEF DaysBefore
<1>2. m = 1 \/ m = 2 \/ m = 3 \/ m = 4 \/ m = 5 \/ m = 6 \/ m = 7 \/ m = 8 \/ m = 9 \/ m = 10 \/ m = 11 \/ m = 12
  OBVIOUS
<1>. QED BY <1>1, <1>2

\* The days of the years before one, and its leap day when it has passed.
Years(y) == 365 * y + (y - 1) \div 4 - (y - 1) \div 100 + (y - 1) \div 400
LeapDay(y, m) == IF m > 2 /\ Leap(y) THEN 1 ELSE 0
LEMMA DayIs ==
  ASSUME NEW x \in CalendarDates
  PROVE  /\ Day(x) = Years(x[1]) + DaysBefore[x[2]] + LeapDay(x[1], x[2]) + x[3]
         /\ Years(x[1]) \in Int /\ LeapDay(x[1], x[2]) \in 0..1 /\ Day(x) \in Int
<1>1. x[1] \in Int /\ x[2] \in 1..12 /\ x[3] \in Int
  BY DateParts
<1>2. Years(x[1]) \in Int /\ LeapDay(x[1], x[2]) \in 0..1
  BY <1>1 DEF Years, LeapDay
<1>3. DaysBefore[x[2]] \in Int
  <2>1. PICK m \in 1..12 : m = x[2]
    BY <1>1
  <2>2. DaysBefore[m] \in 0..334
    BY DaysBeforeAre
  <2>3. DaysBefore[m] \in Int
    BY <2>2
  <2>. QED BY <2>1, <2>3
<1>4. Day(x) = Years(x[1]) + DaysBefore[x[2]] + LeapDay(x[1], x[2]) + x[3]
  BY DEF Day, Years, LeapDay
<1>. QED BY <1>1, <1>2, <1>3, <1>4

LEMMA YearsGrow == ASSUME NEW y \in Int PROVE Years(y) - Years(y - 1) >= 364
BY DEF Years

\* Six months before a date is a date, and it is earlier.
LEMMA SixMonthsBefore ==
  ASSUME NEW x \in CalendarDates
  PROVE  /\ SubtractMonths(x, MonthsPerCoupon) \in CalendarDates
         /\ Day(SubtractMonths(x, MonthsPerCoupon)) < Day(x)
<1>1. PICK y, m, d : y = x[1] /\ m = x[2] /\ d = x[3]
  OBVIOUS
<1>2. y \in Int /\ m \in 1..12 /\ d \in 1..31
  BY <1>1, DateParts
<1>3. PICK n, y1, m1 : n = 12 * y + m - 1 - 6 /\ y1 = n \div 12 /\ m1 = (n % 12) + 1
  OBVIOUS
<1>4. /\ y1 \in Int /\ m1 \in 1..12
      /\ m > 6 => y1 = y /\ m1 = m - 6
      /\ m <= 6 => y1 = y - 1 /\ m1 = m + 6
  BY ONLY <1>2, <1>3
<1>5. PICK d1 : d1 = (IF d < DaysInMonth(y1, m1) THEN d ELSE DaysInMonth(y1, m1))
  OBVIOUS
<1>6. d1 \in 1..31 /\ d1 <= d /\ d1 <= DaysInMonth(y1, m1)
  <2>1. DaysInMonth(y1, m1) \in 28..31
    BY <1>4, MonthLengths
  <2>. QED BY <1>2, <1>5, <2>1
<1>7. SubtractMonths(x, MonthsPerCoupon) = <<y1, m1, d1>>
  BY <1>1, <1>3, <1>5 DEF SubtractMonths, MonthsPerCoupon
<1>8. PICK x1 : x1 = <<y1, m1, d1>>
  OBVIOUS
<1>9. x1 \in CalendarDates
  BY <1>4, <1>6, <1>8, DateIs
<1>10. x1[1] = y1 /\ x1[2] = m1 /\ x1[3] = d1
  BY <1>8
<1>11. PICK u, u1, a, a1, l, l1 : /\ u = Years(y) /\ u1 = Years(y1) /\ a = DaysBefore[m] /\ a1 = DaysBefore[m1]
                                  /\ l = LeapDay(y, m) /\ l1 = LeapDay(y1, m1)
  OBVIOUS
<1>12. /\ Day(x) = u + a + l + d /\ Day(x1) = u1 + a1 + l1 + d1
       /\ u \in Int /\ u1 \in Int /\ l \in 0..1 /\ l1 \in 0..1
  BY <1>1, <1>9, <1>10, <1>11, DayIs
<1>13. a \in 0..334 /\ a1 \in 0..334
  BY <1>2, <1>4, <1>11, DaysBeforeAre
<1>14. CASE m > 6
  <2>1. m1 <= 6 /\ m = m1 + 6 /\ u1 = u
    BY <1>2, <1>4, <1>11, <1>14
  <2>2. a - a1 >= 181
    BY <1>4, <1>11, <2>1, DaysBeforeAre
  <2>3. Day(x1) < Day(x)
    BY ONLY <1>2, <1>6, <1>12, <1>13, <2>1, <2>2
  <2>. QED BY <1>7, <1>8, <1>9, <2>3
<1>15. CASE m <= 6
  <2>1. y1 = y - 1 /\ m1 = m + 6
    BY <1>4, <1>15
  <2>2. a1 - a <= 184
    BY <1>2, <1>11, <1>15, <2>1, DaysBeforeAre
  <2>3. u - u1 >= 364
    BY <1>2, <1>11, <2>1, YearsGrow
  <2>4. Day(x1) < Day(x)
    BY ONLY <1>2, <1>6, <1>12, <1>13, <2>2, <2>3
  <2>. QED BY <1>7, <1>8, <1>9, <2>4
<1>16. m > 6 \/ m <= 6
  BY <1>2
<1>. QED BY <1>14, <1>15, <1>16

-----------------------------------------------------------------------------
(* The walk. The dates of a walk are six months apart and end at the      *)
(* maturity; Met 0 is where the walk has come to, the others the flows.   *)

Met(flows, start, i) == IF i = 0 THEN start ELSE flows[i]
Walk(flows, start, last) ==
    /\ flows \in Seq(CalendarDates) /\ start \in CalendarDates /\ last \in CalendarDates
    /\ Met(flows, start, Len(flows)) = last
    /\ \A i \in 1..Len(flows) : Met(flows, start, i - 1) = SubtractMonths(flows[i], MonthsPerCoupon)

LEMMA MetIsDate ==
  ASSUME NEW f, NEW s, NEW last, Walk(f, s, last), NEW i \in 0..Len(f)
  PROVE  /\ Len(f) \in Nat /\ Met(f, s, i) \in CalendarDates /\ Day(Met(f, s, i)) \in Int
         /\ i # 0 => Met(f, s, i) = f[i] /\ f[i] \in CalendarDates
<1>1. f \in Seq(CalendarDates) /\ s \in CalendarDates
  BY DEF Walk
<1>2. Len(f) \in Nat /\ DOMAIN f = 1..Len(f) /\ f \in [1..Len(f) -> CalendarDates]
  BY <1>1
<1>3. i # 0 => i \in 1..Len(f)
  BY <1>2
<1>4. i # 0 => Met(f, s, i) = f[i] /\ f[i] \in CalendarDates
  BY <1>2, <1>3 DEF Met
<1>5. Met(f, s, i) \in CalendarDates
  BY <1>1, <1>4 DEF Met
<1>. QED BY <1>2, <1>4, <1>5, DayIs

\* Each date met is earlier than the next, and so than all that follow.
LEMMA MetGrows ==
  ASSUME NEW f, NEW s, NEW last, Walk(f, s, last), NEW i \in 0..Len(f), NEW j \in 0..Len(f), i <= j
  PROVE  Day(Met(f, s, i)) <= Day(Met(f, s, j)) /\ (i < j => Day(Met(f, s, i)) < Day(Met(f, s, j)))
<1>1. Len(f) \in Nat
  BY DEF Walk
<1>2. ASSUME NEW k \in 1..Len(f) PROVE Day(Met(f, s, k - 1)) < Day(Met(f, s, k))
  <2>1. k \in 0..Len(f) /\ k # 0
    BY <1>1
  <2>2. Met(f, s, k) = f[k] /\ f[k] \in CalendarDates
    BY <2>1, MetIsDate
  <2>3. Met(f, s, k - 1) = SubtractMonths(f[k], MonthsPerCoupon)
    BY DEF Walk
  <2>. QED BY <2>2, <2>3, SixMonthsBefore
<1>. DEFINE D(k) == Day(Met(f, s, k))
            P == {d \in 0..Len(f) : i + d <= Len(f) => D(i) <= D(i + d) /\ (d > 0 => D(i) < D(i + d))}
<1>3. \A k \in 0..Len(f) : D(k) \in Int
  BY MetIsDate
<1>4. \A k \in 1..Len(f) : D(k - 1) < D(k)
  BY <1>2
<1>. HIDE DEF D
<1>5. 0 \in P
  BY <1>1, <1>3
<1>6. ASSUME NEW n \in 1..Len(f), n - 1 \in P PROVE n \in P
  <2>1. SUFFICES ASSUME i + n <= Len(f) PROVE D(i) < D(i + n)
    BY <1>1, <1>3
  <2>2. i + n \in 1..Len(f) /\ i + (n - 1) = i + n - 1 /\ i + n - 1 \in 0..Len(f)
    BY <1>1, <2>1
  <2>3. D(i + n - 1) < D(i + n)
    BY <1>4, <2>2
  <2>4. D(i) <= D(i + (n - 1))
    BY <1>6, <2>1
  <2>. QED BY <1>3, <2>2, <2>3, <2>4
<1>7. \A n \in 0..Len(f) : n \in P
  <2>. HIDE DEF P
  <2>. QED BY <1>1, <1>5, <1>6, UpTo
<1>8. j - i \in 0..Len(f) /\ i + (j - i) = j
  BY <1>1
<1>9. j - i \in P
  BY <1>7, <1>8
<1>10. D(i) <= D(j) /\ (j - i > 0 => D(i) < D(j))
  BY <1>8, <1>9
<1>. QED BY <1>10 DEF D

\* Two walks from one maturity meet the same dates, counted from the maturity.
LEMMA WalksAgree ==
  ASSUME NEW f, NEW s, NEW g, NEW t, NEW last, Walk(f, s, last), Walk(g, t, last),
         NEW j \in Nat, j <= Len(f), j <= Len(g)
  PROVE  Met(f, s, Len(f) - j) = Met(g, t, Len(g) - j)
<1>1. Len(f) \in Nat /\ Len(g) \in Nat
  BY DEF Walk
<1>. DEFINE P == {k \in 0..j : Met(f, s, Len(f) - k) = Met(g, t, Len(g) - k)}
<1>2. 0 \in P
  <2>1. Met(f, s, Len(f)) = last /\ Met(g, t, Len(g)) = last
    BY DEF Walk
  <2>2. Len(f) - 0 = Len(f) /\ Len(g) - 0 = Len(g)
    BY <1>1
  <2>. QED BY <2>1, <2>2
<1>3. ASSUME NEW n \in 1..j, n - 1 \in P PROVE n \in P
  <2>1. PICK a, b : a = Len(f) - (n - 1) /\ b = Len(g) - (n - 1)
    OBVIOUS
  <2>2. a \in 1..Len(f) /\ b \in 1..Len(g) /\ a - 1 = Len(f) - n /\ b - 1 = Len(g) - n
    BY <1>1, <2>1
  <2>3. Met(f, s, a) = Met(g, t, b)
    BY <1>3, <2>1
  <2>4. Met(f, s, a) = f[a] /\ Met(g, t, b) = g[b]
    BY <1>1, <2>2 DEF Met
  <2>5. /\ Met(f, s, a - 1) = SubtractMonths(f[a], MonthsPerCoupon)
        /\ Met(g, t, b - 1) = SubtractMonths(g[b], MonthsPerCoupon)
    BY <2>2 DEF Walk
  <2>6. Met(f, s, a - 1) = Met(g, t, b - 1)
    BY <2>3, <2>4, <2>5
  <2>7. n \in 0..j
    OBVIOUS
  <2>. QED BY <2>2, <2>6, <2>7
<1>4. \A n \in 0..j : n \in P
  <2>. HIDE DEF P
  <2>. QED BY <1>2, <1>3, UpTo
<1>. QED BY <1>4

\* A walk that goes one step further back is still a walk.
LEMMA WalkBack ==
  ASSUME NEW f, NEW s, NEW last, Walk(f, s, last)
  PROVE  Walk(<<s>> \o f, SubtractMonths(s, MonthsPerCoupon), last)
<1>1. f \in Seq(CalendarDates) /\ s \in CalendarDates /\ last \in CalendarDates /\ Len(f) \in Nat
  BY DEF Walk
<1>2. PICK g, t : g = <<s>> \o f /\ t = SubtractMonths(s, MonthsPerCoupon)
  OBVIOUS
<1>3. /\ g \in Seq(CalendarDates) /\ Len(g) = Len(f) + 1
      /\ \A i \in 1..Len(g) : g[i] = IF i = 1 THEN s ELSE f[i - 1]
  <2>1. <<s>> \in Seq(CalendarDates) /\ Len(<<s>>) = 1 /\ <<s>>[1] = s
    BY <1>1
  <2>. QED BY <1>1, <1>2, <2>1, ConcatProperties
<1>4. t \in CalendarDates
  BY <1>1, <1>2, SixMonthsBefore
<1>5. ASSUME NEW i \in 1..Len(g) PROVE g[i] = Met(f, s, i - 1)
  BY <1>1, <1>3 DEF Met
<1>6. Met(g, t, Len(g)) = last
  <2>1. Len(g) \in 1..Len(g) /\ Len(g) # 0 /\ Len(g) - 1 = Len(f)
    BY <1>1, <1>3
  <2>2. Met(g, t, Len(g)) = Met(f, s, Len(f))
    BY <1>5, <2>1 DEF Met
  <2>. QED BY <2>2 DEF Walk
<1>7. ASSUME NEW i \in 1..Len(g) PROVE Met(g, t, i - 1) = SubtractMonths(g[i], MonthsPerCoupon)
  <2>1. CASE i = 1
    BY <1>2, <1>3, <2>1 DEF Met
  <2>2. CASE i # 1
    <3>1. i - 1 \in 1..Len(f) /\ i - 1 \in 1..Len(g) /\ i - 1 # 0
      BY <1>1, <1>3, <2>2
    <3>2. Met(g, t, i - 1) = Met(f, s, i - 1 - 1)
      BY <1>5, <3>1 DEF Met
    <3>3. Met(f, s, i - 1 - 1) = SubtractMonths(f[i - 1], MonthsPerCoupon)
      BY <3>1 DEF Walk
    <3>4. g[i] = f[i - 1]
      BY <1>3, <2>2
    <3>. QED BY <3>2, <3>3, <3>4
  <2>. QED BY <2>1, <2>2
<1>8. Walk(g, t, last)
  BY <1>1, <1>3, <1>4, <1>6, <1>7 DEF Walk
<1>. QED BY <1>2, <1>8

-----------------------------------------------------------------------------
(* The invariant.                                                          *)

\* What a schedule says of the date it was built at.
Built(sch, when, last) ==
    /\ sch.matured \in BOOLEAN /\ sch.matured <=> ~Earlier(when, last)
    /\ sch.matured => sch.flows = <<>>
    /\ ~sch.matured =>
          /\ Walk(sch.flows, sch.start, last) /\ Len(sch.flows) >= 1
          /\ Day(sch.start) <= Day(when) /\ Day(when) < Day(sch.flows[1])
          /\ sch.elapsed = Day(when) - Day(sch.start)
          /\ sch.span = Day(sch.flows[1]) - Day(sch.start)
At(k) == IF k = 1 THEN valuation ELSE forward
BondInv ==
    /\ maturity \in CalendarDates /\ valuation \in CalendarDates /\ forward \in CalendarDates /\ Earlier(valuation, forward)
    /\ (\E S : schedule \in Seq(S)) /\ Len(schedule) <= 2
    /\ Walk(ahead, reached, maturity)
    /\ Len(ahead) >= 1 => Day(Due) < Day(ahead[1])
    /\ \A k \in 1..Len(schedule) : Built(schedule[k], At(k), maturity)

LEMMA BondStarts == BondInit => BondInv
<1>. SUFFICES ASSUME BondInit PROVE BondInv
  OBVIOUS
<1>1. PICK last \in Maturities, from, to \in Valuations : Earlier(from, to) /\ Carry(last, from, to)
  BY DEF BondInit
<1>2. /\ maturity = last /\ valuation = from /\ forward = to /\ reached = last /\ ahead = <<>> /\ schedule = <<>>
      /\ last \in CalendarDates /\ from \in CalendarDates /\ to \in CalendarDates
  BY <1>1, BondAssumption DEF Carry
<1>3. Walk(ahead, reached, maturity)
  BY <1>2 DEF Walk, Met
<1>4. \E S : schedule \in Seq(S)
  <2>1. schedule \in Seq(CalendarDates)
    BY <1>2
  <2>. QED BY <2>1
<1>. QED BY <1>1, <1>2, <1>3, <1>4 DEF BondInv

LEMMA BondBack == ASSUME BondInv, Back PROVE BondInv'
<1>1. /\ Len(schedule) < 2 /\ Day(Due) < Day(reached)
      /\ ahead' = <<reached>> \o ahead /\ reached' = SubtractMonths(reached, MonthsPerCoupon)
      /\ maturity' = maturity /\ valuation' = valuation /\ forward' = forward /\ schedule' = schedule
  BY DEF Back, StillAhead, Earlier
<1>2. Walk(ahead', reached', maturity')
  BY <1>1, WalkBack DEF BondInv
<1>3. Due' = Due
  BY <1>1 DEF Due
<1>4. Day(Due') < Day(ahead'[1])
  <2>1. ahead \in Seq(CalendarDates) /\ reached \in CalendarDates
    BY DEF BondInv, Walk
  <2>2. ahead'[1] = reached
    BY <1>1, <2>1
  <2>. QED BY <1>1, <1>3, <2>2
<1>5. \A k \in 1..Len(schedule') : Built(schedule'[k], At(k)', maturity')
  BY <1>1 DEF BondInv, At
<1>. QED BY <1>1, <1>2, <1>3, <1>4, <1>5 DEF BondInv, Earlier

LEMMA BondSettle == ASSUME BondInv, Settle PROVE BondInv'
<1>1. PICK sch : sch = IF ~Earlier(Due, maturity) THEN [matured |-> TRUE, flows |-> <<>>]
                ELSE [matured |-> FALSE, flows |-> ahead, start |-> reached,
                      elapsed |-> Day(Due) - Day(reached), span |-> Day(ahead[1]) - Day(reached)]
  OBVIOUS
<1>2. /\ Len(schedule) < 2 /\ ~(Day(Due) < Day(reached)) /\ schedule' = Append(schedule, sch)
      /\ reached' = maturity /\ ahead' = <<>>
      /\ maturity' = maturity /\ valuation' = valuation /\ forward' = forward
  BY <1>1 DEF Settle, StillAhead, Earlier
<1>3. PICK S : schedule \in Seq(S)
  BY DEF BondInv
<1>4. PICK n \in {0, 1} : Len(schedule) = n
  <2>1. Len(schedule) \in Nat
    BY <1>3
  <2>2. PICK l : l = Len(schedule)
    OBVIOUS
  <2>3. l \in Nat /\ l < 2
    BY <1>2, <2>1, <2>2
  <2>4. l \in {0, 1}
    BY ONLY <2>3
  <2>. QED BY <2>2, <2>4
<1>5. /\ Len(schedule') = n + 1 /\ schedule'[n + 1] = sch
      /\ \A k \in 1..n : schedule'[k] = schedule[k]
  BY <1>2, <1>3, <1>4, AppendProperties
<1>6. schedule' \in Seq(S \cup {sch})
  <2>1. schedule \in Seq(S \cup {sch})
    BY <1>3
  <2>. QED BY <1>2, <2>1
<1>7. Walk(ahead', reached', maturity') /\ Len(ahead') = 0
  BY <1>2 DEF BondInv, Walk, Met
<1>8. Due \in CalendarDates /\ reached \in CalendarDates /\ maturity \in CalendarDates /\ Due = At(n + 1)
  <2>1. schedule = <<>> <=> n = 0
    BY <1>3, <1>4
  <2>. QED BY <2>1 DEF BondInv, Due, At, Walk
<1>9. Day(Due) \in Int /\ Day(reached) \in Int
  BY <1>8, DayIs
<1>10. Built(sch, Due, maturity)
  <2>1. CASE ~Earlier(Due, maturity)
    <3>1. sch = [matured |-> TRUE, flows |-> <<>>]
      BY <1>1, <2>1
    <3>2. sch.matured = TRUE /\ sch.flows = <<>>
      BY <3>1
    <3>. QED BY <2>1, <3>2 DEF Built
  <2>2. CASE Earlier(Due, maturity)
    <3>1. sch = [matured |-> FALSE, flows |-> ahead, start |-> reached,
                 elapsed |-> Day(Due) - Day(reached), span |-> Day(ahead[1]) - Day(reached)]
      BY <1>1, <2>2
    <3>2. /\ sch.matured = FALSE /\ sch.flows = ahead /\ sch.start = reached
          /\ sch.elapsed = Day(Due) - Day(reached) /\ sch.span = Day(ahead[1]) - Day(reached)
      BY <3>1
    <3>3. Walk(ahead, reached, maturity)
      BY DEF BondInv
    <3>4. Len(ahead) \in Nat /\ Met(ahead, reached, Len(ahead)) = maturity
      BY <3>3 DEF Walk
    <3>5. Len(ahead) # 0
      <4>1. SUFFICES ASSUME Len(ahead) = 0 PROVE FALSE
        OBVIOUS
      <4>2. maturity = reached
        BY <3>4, <4>1 DEF Met
      <4>. QED BY <1>2, <2>2, <4>2 DEF Earlier
    <3>6. Len(ahead) >= 1 /\ Day(Due) < Day(ahead[1]) /\ Day(reached) <= Day(Due)
      BY <1>2, <1>9, <3>4, <3>5 DEF BondInv
    <3>. QED BY <2>2, <3>2, <3>3, <3>6 DEF Built
  <2>. QED BY <2>1, <2>2
<1>11. ASSUME NEW k \in 1..(n + 1) PROVE Built(schedule'[k], At(k)', maturity')
  <2>1. At(k)' = At(k)
    BY <1>2 DEF At
  <2>2. CASE k = n + 1
    BY <1>2, <1>5, <1>8, <1>10, <2>1, <2>2
  <2>3. CASE k # n + 1
    <3>1. k \in 1..n
      BY <2>3
    <3>2. Built(schedule[k], At(k), maturity)
      BY <1>4, <3>1 DEF BondInv
    <3>. QED BY <1>2, <1>5, <2>1, <3>1, <3>2
  <2>. QED BY <2>2, <2>3
<1>12. /\ maturity' \in CalendarDates /\ valuation' \in CalendarDates /\ forward' \in CalendarDates /\ Earlier(valuation', forward')
       /\ Len(schedule') <= 2 /\ \E T : schedule' \in Seq(T)
  BY <1>2, <1>5, <1>6 DEF BondInv
<1>13. \A k \in 1..Len(schedule') : Built(schedule'[k], At(k)', maturity')
  BY <1>5, <1>11
<1>14. Len(ahead') >= 1 => Day(Due') < Day(ahead'[1])
  BY <1>7
<1>. QED BY <1>7, <1>12, <1>13, <1>14 DEF BondInv, Earlier

LEMMA BondStays == BondInv /\ UNCHANGED bondVars => BondInv'
BY DEF BondInv, bondVars, Due, At

-----------------------------------------------------------------------------
(* What follows from it.                                                   *)

LEMMA FlowsAhead == BondInv => FlowsAreAhead
<1>. SUFFICES ASSUME BondInv, NEW k \in DOMAIN schedule, ~schedule[k].matured, NEW sch, NEW when,
                     sch = schedule[k], when = At(k)
              PROVE  /\ 0 <= sch.elapsed /\ sch.elapsed < sch.span
                     /\ sch.flows[Len(sch.flows)] = maturity
                     /\ \A i \in DOMAIN sch.flows : /\ Earlier(when, sch.flows[i])
                                                    /\ i > 1 => Earlier(sch.flows[i - 1], sch.flows[i])
  BY DEF FlowsAreAhead, At
<1>1. k \in 1..Len(schedule)
  BY DEF BondInv
<1>2. PICK f, t : f = sch.flows /\ t = sch.start
  OBVIOUS
<1>3. Built(sch, when, maturity)
  BY <1>1 DEF BondInv
<1>4. /\ Walk(f, t, maturity) /\ Len(f) >= 1 /\ Day(t) <= Day(when) /\ Day(when) < Day(f[1])
      /\ sch.elapsed = Day(when) - Day(t) /\ sch.span = Day(f[1]) - Day(t)
  BY <1>2, <1>3 DEF Built
<1>5. Len(f) \in Nat /\ f \in Seq(CalendarDates) /\ t \in CalendarDates
  BY <1>4 DEF Walk
<1>6. when \in CalendarDates
  BY DEF BondInv, At
<1>7. \A i \in 1..Len(f) : f[i] \in CalendarDates /\ Met(f, t, i) = f[i]
  BY <1>5 DEF Met
<1>8. \A i \in 1..Len(f) : Day(f[i]) \in Int
  BY <1>7, DayIs
<1>9. Day(when) \in Int /\ Day(t) \in Int /\ Day(f[1]) \in Int
  BY <1>4, <1>5, <1>6, <1>8, DayIs
<1>10. 0 <= sch.elapsed /\ sch.elapsed < sch.span
  BY ONLY <1>4, <1>9
<1>11. f[Len(f)] = maturity
  BY <1>4, <1>5 DEF Walk, Met
<1>12. ASSUME NEW i \in 1..Len(f) PROVE Day(when) < Day(f[i]) /\ (i > 1 => Day(f[i - 1]) < Day(f[i]))
  <2>1. 1 \in 0..Len(f) /\ i \in 0..Len(f) /\ 1 <= i /\ 1 \in 1..Len(f)
    BY <1>4, <1>5
  <2>2. Day(f[1]) <= Day(f[i])
    BY <1>4, <1>7, <2>1, MetGrows
  <2>3. ASSUME i > 1 PROVE Day(f[i - 1]) < Day(f[i])
    <3>1. i - 1 \in 1..Len(f) /\ i - 1 \in 0..Len(f) /\ i - 1 <= i /\ i - 1 < i
      BY <1>5, <2>3
    <3>. QED BY <1>4, <1>7, <2>1, <3>1, MetGrows
  <2>. QED BY <1>4, <1>8, <1>9, <2>1, <2>2, <2>3
<1>13. DOMAIN f = 1..Len(f)
  BY <1>5
<1>. QED BY <1>2, <1>10, <1>11, <1>12, <1>13 DEF Earlier

\* Two dates in two walks from one maturity: the later walk stops where the earlier
\* one came by, and what it has in front of it is the rest of what that had.
Within(flows, start, last, when) ==
    /\ Walk(flows, start, last) /\ Len(flows) >= 1
    /\ when \in CalendarDates /\ Day(start) <= Day(when) /\ Day(when) < Day(flows[1])
TheRest(f, s, g, t, when) ==
    /\ Len(g) <= Len(f) /\ t = Met(f, s, Len(f) - Len(g))
    /\ \A i \in 1..Len(g) : g[i] = f[Len(f) - Len(g) + i]
    /\ \A i \in 1..Len(f) : i <= Len(f) - Len(g) <=> Day(f[i]) <= Day(when)
LEMMA LaterWalkIsTheRest ==
  ASSUME NEW f, NEW s, NEW g, NEW t, NEW last, NEW u, NEW v,
         Within(f, s, last, u), Within(g, t, last, v), Day(u) < Day(v)
  PROVE  TheRest(f, s, g, t, v)
<1>0. /\ Walk(f, s, last) /\ Len(f) >= 1 /\ u \in CalendarDates /\ Day(s) <= Day(u) /\ Day(u) < Day(f[1])
      /\ Walk(g, t, last) /\ Len(g) >= 1 /\ v \in CalendarDates /\ Day(t) <= Day(v) /\ Day(v) < Day(g[1])
  BY DEF Within
<1>1. PICK n, m : n = Len(f) /\ m = Len(g)
  OBVIOUS
<1>2. n \in Nat /\ m \in Nat /\ n >= 1 /\ m >= 1
  BY <1>0, <1>1 DEF Walk
<1>3. Day(u) \in Int /\ Day(v) \in Int
  BY <1>0, DayIs
<1>4. /\ \A i \in 0..n : Day(Met(f, s, i)) \in Int /\ (i # 0 => Met(f, s, i) = f[i])
      /\ \A i \in 0..m : Day(Met(g, t, i)) \in Int /\ (i # 0 => Met(g, t, i) = g[i])
  BY <1>0, <1>1, MetIsDate
<1>5. \A j \in Nat : j <= n /\ j <= m => Met(f, s, n - j) = Met(g, t, m - j)
  BY <1>0, <1>1, WalksAgree
<1>6. Met(f, s, 0) = s /\ Met(g, t, 0) = t
  BY DEF Met
<1>7. \A i \in 1..m : Day(v) < Day(g[i])
  <2>1. SUFFICES ASSUME NEW i \in 1..m PROVE Day(v) < Day(g[i])
    OBVIOUS
  <2>2. 1 \in 0..m /\ i \in 0..m /\ 1 <= i /\ i # 0
    BY <1>2
  <2>3. Day(Met(g, t, 1)) <= Day(Met(g, t, i))
    BY <1>0, <1>1, <2>2, MetGrows
  <2>4. Day(g[1]) <= Day(g[i]) /\ Day(g[1]) \in Int /\ Day(g[i]) \in Int
    BY <1>4, <2>2, <2>3
  <2>. QED BY <1>0, <1>3, <2>4
<1>8. m <= n
  <2>1. SUFFICES ASSUME n < m PROVE FALSE
    BY <1>2
  <2>2. n - n = 0 /\ m - n \in 1..m /\ m - n # 0 /\ m - n \in 0..m /\ n <= m
    BY <1>2, <2>1
  <2>3. s = g[m - n]
    BY <1>2, <1>4, <1>5, <1>6, <2>2
  <2>4. Day(v) < Day(s) /\ Day(s) \in Int
    BY <1>2, <1>4, <1>6, <1>7, <2>2, <2>3
  <2>. QED BY <1>0, <1>3, <2>4
<1>9. n - m \in 0..n /\ m - m = 0
  BY <1>2, <1>8
<1>10. t = Met(f, s, n - m)
  BY <1>2, <1>5, <1>6, <1>8, <1>9
<1>11. ASSUME NEW i \in 1..m PROVE g[i] = f[n - m + i]
  <2>1. PICK j : j = m - i
    OBVIOUS
  <2>2. j \in Nat /\ j <= n /\ j <= m /\ m - j = i /\ n - j = n - m + i /\ n - j \in 0..n /\ n - j # 0 /\ i \in 0..m /\ i # 0
    BY <1>2, <1>8, <2>1
  <2>3. Met(f, s, n - j) = Met(g, t, i)
    BY <1>5, <2>2
  <2>4. Met(f, s, n - j) = f[n - j] /\ Met(g, t, i) = g[i]
    BY <1>4, <2>2
  <2>. QED BY <2>2, <2>3, <2>4
<1>12. ASSUME NEW i \in 1..n PROVE i <= n - m <=> Day(f[i]) <= Day(v)
  <2>1. i \in 0..n /\ i # 0
    OBVIOUS
  <2>2. Met(f, s, i) = f[i] /\ Day(f[i]) \in Int
    BY <1>4, <2>1
  <2>3. CASE i <= n - m
    <3>1. Day(f[i]) <= Day(t)
      BY <1>0, <1>1, <1>9, <1>10, <2>1, <2>2, <2>3, MetGrows
    <3>2. Day(t) \in Int
      BY <1>4, <1>9, <1>10
    <3>. QED BY <1>0, <1>3, <2>2, <2>3, <3>1, <3>2
  <2>4. CASE ~(i <= n - m)
    <3>1. PICK k : k = i - (n - m)
      OBVIOUS
    <3>2. k \in 1..m /\ n - m + k = i
      BY <1>2, <1>8, <2>4, <3>1
    <3>3. Day(v) < Day(f[i])
      BY <1>7, <1>11, <3>2
    <3>. QED BY <1>3, <2>2, <2>4, <3>3
  <2>. QED BY <2>3, <2>4
<1>. QED BY <1>1, <1>8, <1>10, <1>11, <1>12 DEF TheRest

\* The schedules of one carry calculation, when both are built.
LEMMA BothAre ==
  ASSUME BondInv, BothBuilt
  PROVE  /\ Built(schedule[1], valuation, maturity) /\ Built(schedule[2], forward, maturity)
         /\ Day(valuation) < Day(forward) /\ (schedule[1].matured => schedule[2].matured)
         /\ Day(valuation) \in Int /\ Day(forward) \in Int /\ Day(maturity) \in Int
<1>1. valuation \in CalendarDates /\ forward \in CalendarDates /\ maturity \in CalendarDates /\ Day(valuation) < Day(forward)
  BY DEF BondInv, Earlier
<1>2. Day(valuation) \in Int /\ Day(forward) \in Int /\ Day(maturity) \in Int
  BY <1>1, DayIs
<1>3. Built(schedule[1], valuation, maturity) /\ Built(schedule[2], forward, maturity)
  BY DEF BondInv, BothBuilt, At
<1>4. schedule[1].matured => schedule[2].matured
  BY <1>1, <1>2, <1>3 DEF Built, Earlier
<1>. QED BY <1>1, <1>2, <1>3, <1>4

LEMMA CouponsOnce == BondInv => EachCouponOnce
<1>. SUFFICES ASSUME BondInv, BothBuilt, NEW f, f = schedule[1].flows, NEW g, g = schedule[2].flows
              PROVE  /\ \A i \in DOMAIN f : i <= Len(f) - Len(g) <=> ~Earlier(forward, f[i])
                     /\ SubSeq(f, Len(f) - Len(g) + 1, Len(f)) = g
  BY DEF EachCouponOnce, Paid
<1>1. /\ Built(schedule[1], valuation, maturity) /\ Built(schedule[2], forward, maturity)
      /\ Day(valuation) < Day(forward) /\ (schedule[1].matured => schedule[2].matured)
      /\ Day(valuation) \in Int /\ Day(forward) \in Int /\ Day(maturity) \in Int
  BY BothAre
<1>2. CASE schedule[1].matured
  <2>1. f = <<>> /\ g = <<>>
    BY <1>1, <1>2 DEF Built
  <2>2. Len(f) = 0 /\ Len(g) = 0 /\ DOMAIN f = {} /\ SubSeq(f, 1, 0) = <<>>
    BY <2>1
  <2>. QED BY <2>1, <2>2
<1>3. CASE ~schedule[1].matured
  <2>1. PICK s : s = schedule[1].start
    OBVIOUS
  <2>2. Walk(f, s, maturity) /\ Len(f) >= 1 /\ Day(s) <= Day(valuation) /\ Day(valuation) < Day(f[1])
    BY <1>1, <1>3, <2>1 DEF Built
  <2>3. Len(f) \in Nat /\ f \in Seq(CalendarDates) /\ DOMAIN f = 1..Len(f)
    BY <2>2 DEF Walk
  <2>4. \A i \in 1..Len(f) : f[i] = Met(f, s, i) /\ Day(f[i]) \in Int
    BY <2>2, <2>3, MetIsDate DEF Met
  <2>5. CASE schedule[2].matured
    <3>1. g = <<>> /\ Day(maturity) <= Day(forward)
      BY <1>1, <2>5 DEF Built, Earlier
    <3>2. Len(g) = 0 /\ Len(f) - Len(g) = Len(f)
      BY <2>3, <3>1
    <3>3. ASSUME NEW i \in 1..Len(f) PROVE ~Earlier(forward, f[i])
      <4>1. i \in 0..Len(f) /\ Len(f) \in 0..Len(f) /\ i <= Len(f)
        BY <2>3
      <4>2. Day(f[i]) <= Day(maturity)
        BY <2>2, <2>4, <4>1, MetGrows DEF Walk
      <4>. QED BY <1>1, <2>4, <3>1, <4>2 DEF Earlier
    <3>4. SubSeq(f, Len(f) + 1, Len(f)) = <<>>
      BY <2>3, SubSeqEmpty
    <3>. QED BY <2>3, <3>1, <3>2, <3>3, <3>4
  <2>6. CASE ~schedule[2].matured
    <3>1. PICK t : t = schedule[2].start
      OBVIOUS
    <3>2. Walk(g, t, maturity) /\ Len(g) >= 1 /\ Day(t) <= Day(forward) /\ Day(forward) < Day(g[1])
      BY <1>1, <2>6, <3>1 DEF Built
    <3>3. valuation \in CalendarDates /\ forward \in CalendarDates
      BY DEF BondInv
    <3>4. /\ Len(g) <= Len(f)
          /\ \A i \in 1..Len(g) : g[i] = f[Len(f) - Len(g) + i]
          /\ \A i \in 1..Len(f) : i <= Len(f) - Len(g) <=> Day(f[i]) <= Day(forward)
      <4>1. Within(f, s, maturity, valuation) /\ Within(g, t, maturity, forward)
        BY <2>2, <3>2, <3>3 DEF Within
      <4>2. TheRest(f, s, g, t, forward)
        BY <1>1, <4>1, LaterWalkIsTheRest
      <4>. QED BY <4>2 DEF TheRest
    <3>5. \A i \in DOMAIN f : i <= Len(f) - Len(g) <=> ~Earlier(forward, f[i])
      <4>1. SUFFICES ASSUME NEW i \in 1..Len(f) PROVE i <= Len(f) - Len(g) <=> ~Earlier(forward, f[i])
        BY <2>3
      <4>2. Day(f[i]) <= Day(forward) <=> ~Earlier(forward, f[i])
        BY <1>1, <2>4 DEF Earlier
      <4>. QED BY <3>4, <4>2
    <3>6. Len(g) \in Nat /\ g \in Seq(CalendarDates) /\ DOMAIN g = 1..Len(g)
      BY <3>2 DEF Walk
    <3>7. PICK h, d : h = SubSeq(f, d + 1, Len(f)) /\ d = Len(f) - Len(g)
      OBVIOUS
    <3>8. d \in Nat /\ d + 1 <= Len(f) /\ Len(f) - (d + 1) + 1 = Len(g)
      BY <2>3, <3>2, <3>4, <3>6, <3>7
    <3>9. \A i \in (d + 1)..Len(f) : f[i] \in CalendarDates
      BY <2>3, <3>8
    <3>10. h \in Seq(CalendarDates) /\ Len(h) = Len(g) /\ \A i \in 1..Len(g) : h[i] = f[d + 1 + i - 1]
      <4>1. PICK a, b : a = d + 1 /\ b = Len(f)
        OBVIOUS
      <4>2. a \in Int /\ b \in Int /\ a <= b /\ b - a + 1 = Len(g) /\ \A i \in a..b : f[i] \in CalendarDates
        BY <2>3, <3>8, <3>9, <4>1
      <4>3. /\ SubSeq(f, a, b) \in Seq(CalendarDates) /\ Len(SubSeq(f, a, b)) = IF a <= b THEN b - a + 1 ELSE 0
            /\ \A i \in 1..(b - a + 1) : SubSeq(f, a, b)[i] = f[a + i - 1]
        BY ONLY <4>2, SubSeqProperties
      <4>. QED BY <3>7, <4>1, <4>2, <4>3
    <3>11. \A i \in 1..Len(g) : h[i] = g[i]
      <4>1. SUFFICES ASSUME NEW i \in 1..Len(g) PROVE h[i] = g[i]
        OBVIOUS
      <4>2. d + 1 + i - 1 = d + i
        BY <3>6, <3>8
      <4>3. h[i] = f[d + i]
        BY <3>10, <4>2
      <4>. QED BY <3>4, <3>7, <4>3
    <3>12. h = g
      BY <3>6, <3>10, <3>11, SeqEqual
    <3>. QED BY <3>5, <3>7, <3>12
  <2>. QED BY <2>5, <2>6
<1>. QED BY <1>2, <1>3

\* Less of the next coupon's period is left, or a period less.
LEMMA LessIsLeft ==
  ASSUME NEW p \in Nat, NEW e1 \in Nat, NEW e2 \in Nat, NEW n1 \in Nat, NEW n2 \in Nat, e1 < n1, e2 < n2,
         p = 0 => n1 = n2 /\ e1 < e2
  PROVE  (1 * n2 - e2) * n1 < ((p + 1) * n1 - e1) * n2
<1>1. CASE p = 0
  <2>1. (n1 - e2) * n1 < (n1 - e1) * n1
    BY <1>1
  <2>. QED BY <1>1, <2>1
<1>2. CASE p # 0
  <2>1. (n2 - e2) * n1 <= n2 * n1
    BY Z3
  <2>2. (n1 - e1) * n2 > 0 /\ p * (n1 * n2) >= n1 * n2
    BY <1>2, Z3
  <2>3. ((p + 1) * n1 - e1) * n2 = p * (n1 * n2) + (n1 - e1) * n2
    BY Z3
  <2>. QED BY <2>1, <2>2, <2>3, Z3
<1>. QED BY <1>1, <1>2

LEMMA OnlyPasses == BondInv => TimeOnlyPasses
<1>. SUFFICES ASSUME BondInv, BothBuilt, ~schedule[2].matured
              PROVE  TimesSpan(schedule[2], 1, schedule[1].span)
                         < TimesSpan(schedule[1], Paid + 1, schedule[2].span)
  BY DEF TimeOnlyPasses
<1>1. /\ Built(schedule[1], valuation, maturity) /\ Built(schedule[2], forward, maturity)
      /\ Day(valuation) < Day(forward) /\ (schedule[1].matured => schedule[2].matured)
      /\ Day(valuation) \in Int /\ Day(forward) \in Int /\ valuation \in CalendarDates /\ forward \in CalendarDates
  BY BothAre DEF BondInv
<1>2. PICK f, s, g, t : f = schedule[1].flows /\ s = schedule[1].start /\ g = schedule[2].flows /\ t = schedule[2].start
  OBVIOUS
<1>3. PICK e1, n1, e2, n2 : e1 = schedule[1].elapsed /\ n1 = schedule[1].span /\ e2 = schedule[2].elapsed /\ n2 = schedule[2].span
  OBVIOUS
<1>4. /\ Within(f, s, maturity, valuation) /\ Within(g, t, maturity, forward)
      /\ e1 = Day(valuation) - Day(s) /\ n1 = Day(f[1]) - Day(s)
      /\ e2 = Day(forward) - Day(t) /\ n2 = Day(g[1]) - Day(t)
  BY <1>1, <1>2, <1>3 DEF Built, Within
<1>5. TheRest(f, s, g, t, forward)
  BY <1>1, <1>4, LaterWalkIsTheRest
<1>6. /\ Len(f) \in Nat /\ Len(g) \in Nat /\ Len(g) <= Len(f) /\ Len(f) >= 1 /\ Len(g) >= 1
      /\ s \in CalendarDates /\ t \in CalendarDates /\ f[1] \in CalendarDates /\ g[1] \in CalendarDates
  BY <1>4, <1>5 DEF Within, Walk, TheRest
<1>7. Day(s) \in Int /\ Day(t) \in Int /\ Day(f[1]) \in Int /\ Day(g[1]) \in Int
  BY <1>6, DayIs
<1>8. /\ Day(s) <= Day(valuation) /\ Day(valuation) < Day(f[1])
      /\ Day(t) <= Day(forward) /\ Day(forward) < Day(g[1])
  BY <1>4 DEF Within
<1>9. e1 \in Nat /\ e2 \in Nat /\ n1 \in Nat /\ n2 \in Nat /\ e1 < n1 /\ e2 < n2
  BY ONLY <1>1, <1>4, <1>7, <1>8
<1>10. PICK p : p = Len(f) - Len(g)
  OBVIOUS
<1>11. p \in Nat
  BY <1>6, <1>10
<1>12. ASSUME p = 0 PROVE n1 = n2 /\ e1 < e2
  <2>1. Len(f) = Len(g) /\ Len(f) - Len(g) + 1 = 1 /\ 1 \in 1..Len(g)
    BY <1>6, <1>10, <1>12
  <2>2. t = Met(f, s, 0)
    BY <1>5, <1>10, <1>12 DEF TheRest
  <2>3. t = s
    BY <2>2 DEF Met
  <2>4. g[1] = f[1]
    BY <1>5, <2>1 DEF TheRest
  <2>. QED BY <1>1, <1>4, <1>7, <2>3, <2>4
<1>13. (1 * n2 - e2) * n1 < ((p + 1) * n1 - e1) * n2
  BY <1>9, <1>11, <1>12, LessIsLeft
<1>14. Paid = p
  BY <1>2, <1>10 DEF Paid
<1>. QED BY <1>3, <1>13, <1>14 DEF TimesSpan

(* Each coupon that is ahead is counted once, on its day, and comes nearer, *)
(* whatever the maturity and the two dates (pricing.py:120-200).            *)
THEOREM SchedulesHold == BondSpec => []ScheduleHolds
<1>1. BondInv /\ [BondNext]_bondVars => BondInv'
  BY BondBack, BondSettle, BondStays DEF BondNext
<1>2. BondInv => BondTypeOK
  <2>1. SUFFICES ASSUME BondInv PROVE BondTypeOK
    OBVIOUS
  <2>2. reached \in CalendarDates /\ Len(schedule) <= 2
    BY <2>1 DEF BondInv, Walk
  <2>3. reached[3] \in 1..31 /\ reached[3] <= DaysInMonth(reached[1], reached[2])
    BY <2>2, DateParts
  <2>4. 1 <= reached[3]
    BY ONLY <2>3
  <2>. QED BY <2>2, <2>3, <2>4, Zenon DEF BondTypeOK
<1>3. BondInv => ScheduleHolds
  BY <1>2, FlowsAhead, CouponsOnce, OnlyPasses DEF ScheduleHolds
<1>. QED BY <1>1, <1>3, BondStarts, PTL DEF BondSpec
=============================================================================
