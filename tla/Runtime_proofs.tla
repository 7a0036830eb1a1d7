---------------------------- MODULE Runtime_proofs ----------------------------
(***************************************************************************)
(* TLAPS proofs about what carries a turn: its ledger (LedgerRegistry),    *)
(* for any number of turns, ids and ledgers and any capacity; the          *)
(* deadlines of its calls (TurnClock), for every turn budget, floor, grace *)
(* and lag; what one call tells its caller (TaskCall), for every request   *)
(* and limits, and that contracts cross the wire unchanged; and when the   *)
(* pool comes to a halt (WorkerPool), for every number of threads, turns   *)
(* and calls.                                                              *)
(***************************************************************************)
EXTENDS LedgerRegistry, TurnClock, TaskCall, WorkerPool, SequenceTheorems, FiniteSetTheorems,
        WellFoundedInduction, TLAPS

-----------------------------------------------------------------------------
(* The registry of ledgers.  What holds of an undisturbed turn is          *)
(* inductive only together with what is known of everybody else: no other  *)
(* entry and no other turn's handler has the turn's ledger (Apart), a turn *)
(* that has not begun holds nothing and has no entry (Fresh, Begun), and   *)
(* no two entries are of one age (Aged), so that whoever is the oldest of  *)
(* too many has seen a registry full of ledgers made after its own.        *)

Own(t) == holds[t]["boundary"]

\* A turn that has not begun has no ledger, no handler and no call.
Fresh ==
  \A t \in Turns : stage[t] = "new" =>
    /\ asked[t] = {} /\ calls[t] = 0
    /\ \A h \in Holders : holds[t][h] = 0

\* An undisturbed turn's ledger is its own: no other turn works with it and it
\* is registered under no other id.
Apart(t) ==
  /\ Own(t) # 0
  /\ \A u \in Turns \ {t} : \A h \in Holders : holds[u][h] # Own(t)
  /\ \A i \in DOMAIN registry : registry[i].ledger = Own(t) => i = IdOf[t]

Found(t) ==
  /\ IdOf[t] \in DOMAIN registry
  /\ registry[IdOf[t]].ledger = Own(t) /\ registry[IdOf[t]].place = Own(t)

OwnLedger(t) == \A h \in Handlers : holds[t][h] \in {0, Own(t)}

Counted(t) == calls[t] = used[Own(t)]

Mine(t) == Apart(t) /\ Found(t) /\ OwnLedger(t) /\ Counted(t)

\* No two entries are of one age.
Aged(reg) == \A i, j \in DOMAIN reg : reg[i].place = reg[j].place => i = j

Shape == TypeOK /\ IsFiniteSet(DOMAIN registry) /\ Aged(registry)

\* An entry is under the id of a turn that was opened.
Begun == \A i \in DOMAIN registry : \E t \in Turns : IdOf[t] = i /\ stage[t] # "new"

RegInv == Shape /\ Fresh /\ Begun /\ \A t \in Turns : Undisturbed(t) => Mine(t)

-----------------------------------------------------------------------------
(* The registry as a dictionary.                                           *)

Entries(reg, n) ==
  \A i \in DOMAIN reg : reg[i] \in [ledger : 1..n, place : 1..n]

Kept(reg) ==
  /\ DOMAIN reg \subseteq Ids /\ IsFiniteSet(DOMAIN reg)
  /\ Cardinality(DOMAIN reg) <= Capacity

\* Putting a ledger under an id adds that id as the newest or where it was, changes no other
\* entry, and makes the registry at most one entry too large.
LEMMA PutFacts ==
  ASSUME NEW reg, NEW id \in Ids, NEW n \in Nat, Kept(reg), Entries(reg, n), Aged(reg)
  PROVE  LET more == Put(reg, id, n + 1) IN
         /\ DOMAIN more = DOMAIN reg \cup {id}
         /\ more[id].ledger = n + 1
         /\ id \notin DOMAIN reg => more[id].place = n + 1
         /\ Aged(more)
         /\ \A i \in DOMAIN reg : i # id => more[i] = reg[i]
         /\ Entries(more, n + 1)
         /\ DOMAIN more \subseteq Ids /\ IsFiniteSet(DOMAIN more)
         /\ Cardinality(DOMAIN more) <= Capacity + 1
<1> DEFINE more == Put(reg, id, n + 1)
<1>1. DOMAIN more = DOMAIN reg \cup {id}
  BY DEF Put
<1>2. more[id].ledger = n + 1
  BY DEF Put
<1>3. \A i \in DOMAIN reg : i # id => more[i] = reg[i]
  BY DEF Put
<1>4. Entries(more, n + 1)
  <2> SUFFICES ASSUME NEW i \in DOMAIN more
               PROVE  more[i] \in [ledger : 1..(n + 1), place : 1..(n + 1)]
    BY DEF Entries
  <2>1. CASE i # id
    BY <1>1, <1>3, <2>1 DEF Entries
  <2>2. CASE i = id /\ id \in DOMAIN reg
    <3>1. more[i] = [ledger |-> n + 1, place |-> reg[id].place]
      BY <2>2 DEF Put
    <3>2. reg[id].place \in 1..n
      BY <2>2 DEF Entries
    <3> QED BY <3>1, <3>2
  <2>3. CASE i = id /\ id \notin DOMAIN reg
    <3>1. more[i] = [ledger |-> n + 1, place |-> n + 1]
      BY <2>3 DEF Put
    <3> QED BY <3>1
  <2> QED BY <2>1, <2>2, <2>3
<1>5. IsFiniteSet(DOMAIN more) /\ Cardinality(DOMAIN more) <= Capacity + 1
  <2>0. IsFiniteSet(DOMAIN reg)
    BY DEF Kept
  <2>1. IsFiniteSet(DOMAIN reg) /\ Cardinality(DOMAIN reg) \in Nat
    BY ONLY <2>0, FS_CardinalityType
  <2>2. Cardinality(DOMAIN reg \cup {id}) <= Cardinality(DOMAIN reg) + 1
    BY <2>1, FS_AddElement
  <2>3. IsFiniteSet(DOMAIN reg \cup {id})
    BY <2>1, FS_AddElement
  <2>4. Cardinality(DOMAIN reg \cup {id}) \in Nat
    BY <2>3, FS_CardinalityType
  <2> QED BY <1>1, <2>1, <2>2, <2>3, <2>4, RegistryAssumption DEF Kept
<1>6. id \notin DOMAIN reg => more[id].place = n + 1
  BY DEF Put
<1>7. id \in DOMAIN reg => more[id].place = reg[id].place
  BY DEF Put
<1>8. Aged(more)
  <2>1. \A i \in DOMAIN reg : reg[i].place \in 1..n
    BY DEF Entries
  <2>2. \A i \in DOMAIN reg : more[i].place = reg[i].place
    BY <1>3, <1>7
  <2>3. \A i, j \in DOMAIN reg : reg[i].place = reg[j].place => i = j
    BY DEF Aged
  <2> HIDE DEF more
  <2>4. \A i, j \in DOMAIN more : more[i].place = more[j].place => i = j
    BY ONLY <1>1, <1>6, <2>1, <2>2, <2>3, n \in Nat
  <2> QED BY ONLY <2>4 DEF Aged
<1> QED BY <1>1, <1>2, <1>3, <1>4, <1>5, <1>6, <1>8 DEF Kept

\* The oldest of too many entries has seen as many ledgers made after its own as there are places.
LEMMA OldestIsOld ==
  ASSUME NEW reg, NEW n \in Nat, Entries(reg, n), Aged(reg), IsFiniteSet(DOMAIN reg),
         Cardinality(DOMAIN reg) > Capacity, NEW o \in DOMAIN reg,
         \A j \in DOMAIN reg : reg[o].place <= reg[j].place
  PROVE  reg[o].place + Capacity <= n
<1>1. PICK p : p = reg[o].place
  OBVIOUS
<1>2. p \in 1..n /\ p \in Nat /\ n \in Nat /\ p <= n
  BY <1>1 DEF Entries
<1>3. PICK f : f = [i \in DOMAIN reg |-> reg[i].place]
  OBVIOUS
<1>4. \A i \in DOMAIN reg : reg[i].place \in p..n
  <2>1. ASSUME NEW i \in DOMAIN reg PROVE reg[i].place \in p..n
    <3>1. reg[i].place \in 1..n /\ p <= reg[i].place
      BY <1>1 DEF Entries
    <3> QED BY ONLY <1>2, <3>1
  <2> QED BY <2>1
<1>5. f \in Injection(DOMAIN reg, p..n)
  <2>1. f \in [DOMAIN reg -> p..n]
    BY ONLY <1>3, <1>4
  <2>2. \A i, j \in DOMAIN reg : f[i] = f[j] => i = j
    BY <1>3 DEF Aged
  <2> QED BY ONLY <2>1, <2>2 DEF Injection, IsInjective
<1>6. IsFiniteSet(p..n) /\ Cardinality(p..n) = n - p + 1
  <2>1. p \in Int /\ n \in Int /\ ~(p > n)
    BY ONLY <1>2
  <2>2. IsFiniteSet(p..n) /\ Cardinality(p..n) = IF p > n THEN 0 ELSE n - p + 1
    BY ONLY <2>1, FS_Interval
  <2> QED BY ONLY <2>1, <2>2
<1>7. Cardinality(DOMAIN reg) <= n - p + 1
  BY ONLY <1>5, <1>6, FS_Injection, IsFiniteSet(DOMAIN reg)
<1>8. Cardinality(DOMAIN reg) \in Nat /\ Capacity \in Nat
  BY FS_CardinalityType, RegistryAssumption
<1>9. p + Capacity <= n
  BY ONLY <1>2, <1>7, <1>8, Cardinality(DOMAIN reg) > Capacity
<1> QED BY ONLY <1>1, <1>9

\* Eviction brings the registry back to its capacity, alters no entry that stays, and takes none
\* that is among the newest.
LEMMA EvictFacts ==
  ASSUME NEW reg, NEW n \in Nat, Entries(reg, n), Aged(reg), DOMAIN reg \subseteq Ids,
         IsFiniteSet(DOMAIN reg), Cardinality(DOMAIN reg) <= Capacity + 1
  PROVE  /\ Kept(Evict(reg)) /\ Entries(Evict(reg), n) /\ Aged(Evict(reg))
         /\ \A i \in DOMAIN Evict(reg) : i \in DOMAIN reg /\ Evict(reg)[i] = reg[i]
         /\ \A i \in DOMAIN reg : n < reg[i].place + Capacity => i \in DOMAIN Evict(reg)
<1> DEFINE D == DOMAIN reg
<1>0. Cardinality(D) \in Nat /\ Capacity \in Nat \ {0}
  BY FS_CardinalityType, RegistryAssumption
<1>1. CASE Cardinality(D) <= Capacity
  BY <1>0, <1>1 DEF Evict, Kept
<1>2. CASE Cardinality(D) > Capacity
  <2>1. Evict(reg) = [i \in D \ {Oldest(reg)} |-> reg[i]]
    BY <1>2 DEF Evict
  <2>2. Oldest(reg) \in D /\ \A j \in D : reg[Oldest(reg)].place <= reg[j].place
    <3>1. PICK x \in D : TRUE
      BY <1>0, <1>2, FS_EmptySet
    <3> DEFINE P == {reg[i].place : i \in D}
    <3>2. P \subseteq 1..n /\ P # {}
      BY <3>1 DEF Entries
    <3>3. PICK m \in P : \A k \in P : m <= k
      <4>1. P \subseteq Nat
        BY <3>2
      <4>2. PICK m \in P : \A k \in P : ~ (<<k, m>> \in OpToRel(<, Nat))
        <5> HIDE DEF P
        <5> QED BY <3>2, <4>1, NatLessThanWellFounded, WFMin
      <4>3. \A k \in P : ~ (k < m)
        <5> HIDE DEF P
        <5> QED BY <4>1, <4>2 DEF OpToRel
      <4> HIDE DEF P
      <4> QED BY <4>1, <4>3
    <3>4. \E i \in D : \A j \in D : reg[i].place <= reg[j].place
      BY <3>3
    <3> QED BY <3>4 DEF Oldest
  <2>3. IsFiniteSet(D \ {Oldest(reg)}) /\ Cardinality(D \ {Oldest(reg)}) = Cardinality(D) - 1
    BY <2>2, FS_RemoveElement
  <2>4. DOMAIN Evict(reg) = D \ {Oldest(reg)} /\ \A i \in DOMAIN Evict(reg) : Evict(reg)[i] = reg[i]
    BY <2>1
  <2>5. reg[Oldest(reg)].place + Capacity <= n
    BY <1>2, <2>2, OldestIsOld
  <2>6. \A i \in D : n < reg[i].place + Capacity => i # Oldest(reg)
    <3>1. reg[Oldest(reg)].place \in Nat
      BY <2>2 DEF Entries
    <3>2. ASSUME NEW i \in D, n < reg[i].place + Capacity, i = Oldest(reg) PROVE FALSE
      <4>1. n < reg[Oldest(reg)].place + Capacity
        BY <3>2
      <4> QED BY ONLY <1>0, <2>5, <3>1, <4>1, n \in Nat
    <3> QED BY <3>2
  <2>7. Aged(Evict(reg))
    BY <2>4 DEF Aged
  <2> QED BY <1>0, <1>2, <2>3, <2>4, <2>6, <2>7 DEF Kept, Entries
<1> QED BY <1>0, <1>1, <1>2

\* A ledger is registered: the count of ledgers grows by one, only the entry under the id changes,
\* and of the entries only those that are as old as the registry is large may go.
LEMMA RegisterFacts ==
  ASSUME Shape, NEW id \in Ids, Register(id)
  PROVE  /\ used' = Append(used, 0) /\ used' \in Seq(0..HandoffLimit)
         /\ Len(used') = Len(used) + 1
         /\ Kept(registry') /\ Entries(registry', Len(used')) /\ Aged(registry')
         /\ DOMAIN registry' \subseteq DOMAIN registry \cup {id}
         /\ id \in DOMAIN registry' => registry'[id].ledger = Len(used) + 1
         /\ \A i \in DOMAIN registry' : i # id => registry'[i] = registry[i]
         /\ \A i \in DOMAIN registry :
                i # id /\ Len(used') < registry[i].place + Capacity => i \in DOMAIN registry'
         /\ id \notin DOMAIN registry => id \in DOMAIN registry' /\ registry'[id].place = Len(used) + 1
<1> DEFINE more == Put(registry, id, Len(used) + 1)
<1>1. used' = Append(used, 0) /\ registry' = Evict(more)
  BY DEF Register
<1>2. used' \in Seq(0..HandoffLimit) /\ Len(used') = Len(used) + 1 /\ Len(used) \in Nat
  BY <1>1, RegistryAssumption DEF Shape, TypeOK
<1>3. Kept(registry) /\ Entries(registry, Len(used)) /\ Aged(registry)
  BY DEF Shape, TypeOK, Kept, Entries
<1>4. /\ DOMAIN more = DOMAIN registry \cup {id}
      /\ more[id].ledger = Len(used) + 1
      /\ id \notin DOMAIN registry => more[id].place = Len(used) + 1
      /\ Aged(more)
      /\ \A i \in DOMAIN registry : i # id => more[i] = registry[i]
      /\ Entries(more, Len(used) + 1)
      /\ DOMAIN more \subseteq Ids /\ IsFiniteSet(DOMAIN more)
      /\ Cardinality(DOMAIN more) <= Capacity + 1
  BY <1>2, <1>3, PutFacts
<1> HIDE DEF more
<1>5. /\ Kept(Evict(more)) /\ Entries(Evict(more), Len(used) + 1) /\ Aged(Evict(more))
      /\ \A i \in DOMAIN Evict(more) : i \in DOMAIN more /\ Evict(more)[i] = more[i]
      /\ \A i \in DOMAIN more : Len(used) + 1 < more[i].place + Capacity => i \in DOMAIN Evict(more)
  BY <1>2, <1>4, EvictFacts
<1>6. id \notin DOMAIN registry => id \in DOMAIN registry' /\ registry'[id].place = Len(used) + 1
  <2>1. Len(used) + 1 < Len(used) + 1 + Capacity
    BY ONLY <1>2, RegistryAssumption
  <2> QED BY ONLY <1>1, <1>4, <1>5, <2>1
<1>7. \A i \in DOMAIN registry :
         i # id /\ Len(used') < registry[i].place + Capacity => i \in DOMAIN registry'
  BY ONLY <1>1, <1>2, <1>4, <1>5
<1>8. /\ DOMAIN registry' \subseteq DOMAIN registry \cup {id}
      /\ id \in DOMAIN registry' => registry'[id].ledger = Len(used) + 1
      /\ \A i \in DOMAIN registry' : i # id => registry'[i] = registry[i]
  BY ONLY <1>1, <1>4, <1>5
<1>9. Kept(registry') /\ Entries(registry', Len(used')) /\ Aged(registry')
  BY ONLY <1>1, <1>2, <1>5
<1> QED BY <1>1, <1>2, <1>6, <1>7, <1>8, <1>9

-----------------------------------------------------------------------------
(* The inductive invariant.                                                *)

\* A step lets nothing become undisturbed but a turn it opens.
Lasting ==
  /\ \A t \in Turns : stage[t] # "new" => stage'[t] # "new"
  /\ \A t \in Turns : stage'[t] = "open" => stage[t] \in {"new", "open"}
  /\ \A t \in Turns : stage[t] # "new" => holds'[t]["boundary"] = holds[t]["boundary"]
  /\ Len(used) \in Nat /\ Len(used') \in Nat /\ Len(used) <= Len(used')

LEMMA StaysUndisturbed ==
  ASSUME Shape, Lasting, NEW t \in Turns, Undisturbed(t)', stage[t] # "new"
  PROVE  Undisturbed(t)
<1>1. stage[t] = "open" /\ ~Namesake(t)
  BY DEF Lasting, Undisturbed, Namesake
<1>2. Len(used') < holds[t]["boundary"] + Capacity
  BY DEF Lasting, Undisturbed
<1>3. holds[t]["boundary"] \in Nat /\ Capacity \in Nat
  BY RegistryAssumption DEF Shape, TypeOK, Holders
<1>4. Len(used) < holds[t]["boundary"] + Capacity
  BY ONLY <1>2, <1>3, Lasting DEF Lasting
<1> QED BY <1>1, <1>4 DEF Undisturbed

LEMMA TypeStep ==
  ASSUME Shape, [Next]_vars
  PROVE  Shape' /\ Lasting
<1> USE RegistryAssumption DEF Holders, Handlers
<1>1. ASSUME NEW t \in Turns, Open(t) PROVE Shape' /\ Lasting
  <2>1. Register(IdOf[t]) /\ IdOf[t] \in Ids
    BY <1>1 DEF Open
  <2>2. /\ used' \in Seq(0..HandoffLimit) /\ Len(used') = Len(used) + 1
        /\ Kept(registry') /\ Entries(registry', Len(used')) /\ Aged(registry')
    BY <2>1, RegisterFacts
  <2>3. /\ stage[t] = "new" /\ stage' = [stage EXCEPT ![t] = "open"]
        /\ holds' = [holds EXCEPT ![t]["boundary"] = Len(used) + 1]
        /\ asked' = asked /\ calls' = calls
    BY <1>1 DEF Open
  <2>4. holds' \in [Turns -> [Holders -> 0..Len(used')]]
    <3>1. holds \in [Turns -> [Holders -> 0..Len(used)]] /\ Len(used) \in Nat
      BY DEF Shape, TypeOK
    <3> QED BY ONLY <2>2, <2>3, <3>1 DEF Holders
  <2>5. stage' \in [Turns -> {"new", "open", "closed"}] /\ Lasting
    <3>1. stage \in [Turns -> {"new", "open", "closed"}] /\ Len(used) \in Nat
      BY DEF Shape, TypeOK
    <3>2. \A u \in Turns : stage[u] # "new" => holds'[u]["boundary"] = holds[u]["boundary"]
      <4>1. holds \in [Turns -> [Holders -> 0..Len(used)]]
        BY DEF Shape, TypeOK
      <4>2. \A u \in Turns : u # t => holds'[u] = holds[u]
        BY ONLY <2>3, <4>1
      <4> QED BY ONLY <2>3, <4>2
    <3> QED BY ONLY <3>1, <3>2, <2>2, <2>3 DEF Lasting
  <2> QED BY <2>2, <2>3, <2>4, <2>5 DEF Shape, TypeOK, Kept, Entries
<1>2. ASSUME NEW t \in Turns, Close(t) PROVE Shape' /\ Lasting
  <2>1. /\ stage[t] = "open" /\ stage' = [stage EXCEPT ![t] = "closed"]
        /\ registry' = [i \in DOMAIN registry \ {IdOf[t]} |-> registry[i]]
        /\ UNCHANGED <<used, asked, holds, calls>>
    BY <1>2 DEF Close
  <2>2. /\ IsFiniteSet(DOMAIN registry') /\ DOMAIN registry' \subseteq DOMAIN registry
        /\ Cardinality(DOMAIN registry') <= Cardinality(DOMAIN registry)
    BY <2>1, FS_Subset DEF Shape
  <2>3. Cardinality(DOMAIN registry') <= Capacity
    BY <2>2, FS_CardinalityType DEF Shape, TypeOK
  <2>4. stage' \in [Turns -> {"new", "open", "closed"}] /\ Lasting
    BY <2>1 DEF Shape, TypeOK, Lasting
  <2>5. Aged(registry')
    BY <2>1 DEF Shape, Aged
  <2> QED BY <2>1, <2>2, <2>3, <2>4, <2>5 DEF Shape, TypeOK
<1>3. ASSUME NEW t \in Turns, NEW h \in Holders, Ask(t, h) PROVE Shape' /\ Lasting
  <2>1. /\ holds[t][h] # 0 /\ used[holds[t][h]] < HandoffLimit
        /\ used' = [used EXCEPT ![holds[t][h]] = @ + 1]
        /\ calls' = [calls EXCEPT ![t] = @ + 1]
        /\ asked' = [asked EXCEPT ![t] = @ \cup Callee[h]]
        /\ UNCHANGED <<registry, stage, holds>>
    BY <1>3 DEF Ask
  <2>2. holds[t][h] \in 1..Len(used) /\ used[holds[t][h]] \in 0..HandoffLimit
    BY <2>1 DEF Shape, TypeOK
  <2>3. used' \in Seq(0..HandoffLimit) /\ Len(used') = Len(used)
    <3> DEFINE n == holds[t][h]
    <3>1. used[n] + 1 \in 0..HandoffLimit
      BY <2>1, <2>2
    <3>2. used' = [used EXCEPT ![n] = used[n] + 1] /\ n \in 1..Len(used)
      BY <2>1, <2>2
    <3>3. used \in Seq(0..HandoffLimit)
      BY DEF Shape, TypeOK
    <3> HIDE DEF n
    <3> QED BY <3>1, <3>2, <3>3
  <2>4. calls' \in [Turns -> Nat]
    BY <2>1 DEF Shape, TypeOK
  <2>5. asked' \in [Turns -> SUBSET Handlers]
    BY <2>1 DEF Shape, TypeOK, Callee
  <2>6. Lasting
    <3>1. Len(used) \in Nat
      BY DEF Shape, TypeOK
    <3> QED BY ONLY <2>1, <2>3, <3>1 DEF Lasting
  <2> QED BY <2>1, <2>3, <2>4, <2>5, <2>6 DEF Shape, TypeOK
<1>4. ASSUME NEW t \in Turns, NEW h \in Handlers, Find(t, h) PROVE Shape' /\ Lasting
  <2>1. /\ asked' = [asked EXCEPT ![t] = @ \ {h}]
        /\ UNCHANGED <<stage, calls>>
    BY <1>4 DEF Find
  <2>2. asked' \in [Turns -> SUBSET Handlers]
    BY <2>1 DEF Shape, TypeOK
  <2>3. CASE /\ IdOf[t] \in DOMAIN registry
             /\ holds' = [holds EXCEPT ![t][h] = registry[IdOf[t]].ledger]
             /\ UNCHANGED <<registry, used>>
    <3>1. registry[IdOf[t]].ledger \in 1..Len(used)
      BY <2>3 DEF Shape, TypeOK
    <3>2. holds' \in [Turns -> [Holders -> 0..Len(used)]]
      BY <2>3, <3>1 DEF Shape, TypeOK
    <3>3. Lasting
      <4>1. Len(used) \in Nat /\ holds \in [Turns -> [Holders -> 0..Len(used)]] /\ h # "boundary"
        BY DEF Shape, TypeOK
      <4>2. \A u \in Turns : holds'[u]["boundary"] = holds[u]["boundary"]
        BY ONLY <2>3, <4>1 DEF Holders, Handlers
      <4> QED BY ONLY <2>1, <2>3, <4>1, <4>2 DEF Lasting
    <3> QED BY <2>1, <2>2, <2>3, <3>2, <3>3 DEF Shape, TypeOK
  <2>4. CASE /\ Register(IdOf[t])
             /\ holds' = [holds EXCEPT ![t][h] = Len(used) + 1]
    <3>1. /\ used' \in Seq(0..HandoffLimit) /\ Len(used') = Len(used) + 1
          /\ Kept(registry') /\ Entries(registry', Len(used')) /\ Aged(registry')
      BY <2>4, RegisterFacts
    <3>2. holds' \in [Turns -> [Holders -> 0..Len(used')]]
      BY <2>4, <3>1 DEF Shape, TypeOK
    <3>3. Lasting
      <4>1. Len(used) \in Nat /\ holds \in [Turns -> [Holders -> 0..Len(used)]] /\ h # "boundary"
        BY DEF Shape, TypeOK
      <4>2. \A u \in Turns : holds'[u]["boundary"] = holds[u]["boundary"]
        BY ONLY <2>4, <4>1 DEF Holders, Handlers
      <4> QED BY ONLY <2>1, <3>1, <4>1, <4>2 DEF Lasting
    <3> QED BY <2>1, <2>2, <3>1, <3>2, <3>3 DEF Shape, TypeOK, Kept, Entries
  <2> QED BY <1>4, <2>3, <2>4 DEF Find
<1>5. CASE UNCHANGED vars
  BY <1>5 DEF vars, Shape, TypeOK, Lasting
<1> QED BY <1>1, <1>2, <1>3, <1>4, <1>5 DEF Next

LEMMA FreshStep ==
  ASSUME Shape, Fresh, [Next]_vars
  PROVE  Fresh'
<1> USE DEF Holders, Handlers
<1> SUFFICES ASSUME NEW u \in Turns, stage'[u] = "new"
             PROVE  /\ asked'[u] = {} /\ calls'[u] = 0
                    /\ \A h \in Holders : holds'[u][h] = 0
  BY DEF Fresh
<1>0. stage[u] = "new"
  BY TypeStep DEF Lasting
<1>1. /\ asked[u] = {} /\ calls[u] = 0
      /\ \A h \in Holders : holds[u][h] = 0
  BY <1>0 DEF Fresh
<1>2. ASSUME NEW t \in Turns, Open(t)
      PROVE  asked'[u] = asked[u] /\ calls'[u] = calls[u] /\ holds'[u] = holds[u]
  BY <1>2 DEF Open, Shape, TypeOK
<1>3. ASSUME NEW t \in Turns, Close(t)
      PROVE  asked'[u] = asked[u] /\ calls'[u] = calls[u] /\ holds'[u] = holds[u]
  BY <1>3 DEF Close
<1>4. ASSUME NEW t \in Turns, NEW h \in Holders, Ask(t, h)
      PROVE  asked'[u] = asked[u] /\ calls'[u] = calls[u] /\ holds'[u] = holds[u]
  BY <1>1, <1>4 DEF Ask, Shape, TypeOK
<1>5. ASSUME NEW t \in Turns, NEW h \in Handlers, Find(t, h)
      PROVE  asked'[u] = asked[u] /\ calls'[u] = calls[u] /\ holds'[u] = holds[u]
  BY <1>1, <1>5 DEF Find, Shape, TypeOK
<1>6. CASE UNCHANGED vars
  BY <1>1, <1>6 DEF vars
<1> QED BY <1>1, <1>2, <1>3, <1>4, <1>5, <1>6 DEF Next

LEMMA BegunStep ==
  ASSUME Shape, Fresh, Begun, [Next]_vars
  PROVE  Begun'
<1>0. \A t \in Turns : stage[t] # "new" => stage'[t] # "new"
  BY TypeStep DEF Lasting
<1>1. ASSUME DOMAIN registry' \subseteq DOMAIN registry PROVE Begun'
  BY ONLY <1>0, <1>1, Begun DEF Begun
<1>2. ASSUME NEW t \in Turns, stage'[t] # "new", Register(IdOf[t]) PROVE Begun'
  <2>1. DOMAIN registry' \subseteq DOMAIN registry \cup {IdOf[t]}
    BY <1>2, RegisterFacts, RegistryAssumption
  <2> QED BY ONLY <1>0, <1>2, <2>1, Begun DEF Begun
<1>3. ASSUME NEW t \in Turns, Open(t) PROVE Begun'
  <2>1. stage'[t] # "new"
    BY <1>3 DEF Open, Shape, TypeOK
  <2> QED BY <1>2, <1>3, <2>1 DEF Open
<1>4. ASSUME NEW t \in Turns, Close(t) PROVE Begun'
  BY <1>1, <1>4 DEF Close
<1>5. ASSUME NEW t \in Turns, NEW h \in Holders, Ask(t, h) PROVE Begun'
  BY <1>1, <1>5 DEF Ask
<1>6. ASSUME NEW t \in Turns, NEW h \in Handlers, Find(t, h) PROVE Begun'
  <2>1. stage[t] # "new"
    BY <1>6 DEF Find, Fresh
  <2>2. registry' = registry \/ Register(IdOf[t])
    BY <1>6 DEF Find
  <2> QED BY <1>0, <1>1, <1>2, <2>1, <2>2
<1>7. CASE UNCHANGED vars
  BY <1>1, <1>7 DEF vars
<1> QED BY <1>3, <1>4, <1>5, <1>6, <1>7 DEF Next

\* A ledger made under another id takes nothing from a turn that has not seen too many of them.
LEMMA OthersKeepTheirs ==
  ASSUME Shape, NEW id \in Ids, Register(id), NEW u \in Turns, Len(used') < Own(u) + Capacity,
         id # IdOf[u], Mine(u)
  PROVE  /\ Own(u) \in 1..Len(used)
         /\ IdOf[u] \in DOMAIN registry' /\ registry'[IdOf[u]].ledger = Own(u)
         /\ registry'[IdOf[u]].place = Own(u)
         /\ \A i \in DOMAIN registry' : registry'[i].ledger = Own(u) => i = IdOf[u]
         /\ used'[Own(u)] = used[Own(u)]
<1>1. Own(u) \in 1..Len(used)
  BY DEF Mine, Apart, Own, Shape, TypeOK, Holders
<1>2. /\ DOMAIN registry' \subseteq DOMAIN registry \cup {id}
      /\ id \in DOMAIN registry' => registry'[id].ledger = Len(used) + 1
      /\ \A i \in DOMAIN registry' : i # id => registry'[i] = registry[i]
      /\ \A i \in DOMAIN registry :
             i # id /\ Len(used') < registry[i].place + Capacity => i \in DOMAIN registry'
  BY RegisterFacts
<1>3. /\ IdOf[u] \in DOMAIN registry' /\ registry'[IdOf[u]].ledger = Own(u)
      /\ registry'[IdOf[u]].place = Own(u)
  <2>1. IdOf[u] \in DOMAIN registry /\ registry[IdOf[u]].ledger = Own(u) /\ registry[IdOf[u]].place = Own(u)
    BY DEF Mine, Found
  <2>2. Len(used') < Own(u) + Capacity /\ id # IdOf[u]
    OBVIOUS
  <2>3. Len(used') < registry[IdOf[u]].place + Capacity
    BY ONLY <2>1, <2>2
  <2>4. IdOf[u] \in DOMAIN registry'
    BY ONLY <1>2, <2>1, <2>2, <2>3
  <2> QED BY ONLY <1>2, <2>1, <2>2, <2>4
<1>4. \A i \in DOMAIN registry' : registry'[i].ledger = Own(u) => i = IdOf[u]
  <2>1. Own(u) # Len(used) + 1
    BY <1>1 DEF Shape, TypeOK
  <2>2. \A i \in DOMAIN registry : registry[i].ledger = Own(u) => i = IdOf[u]
    BY DEF Mine, Apart
  <2>3. ASSUME NEW i \in DOMAIN registry', registry'[i].ledger = Own(u) PROVE i = IdOf[u]
    <3>1. i # id
      BY ONLY <1>2, <2>1, <2>3
    <3> QED BY ONLY <1>2, <2>2, <2>3, <3>1
  <2> QED BY ONLY <2>3
<1>5. used' = Append(used, 0) /\ used \in Seq(0..HandoffLimit)
  BY RegisterFacts DEF Shape, TypeOK
<1>6. used'[Own(u)] = used[Own(u)]
  BY <1>1, <1>5
<1> QED BY <1>1, <1>3, <1>4, <1>6

LEMMA MineOpen ==
  ASSUME RegInv, NEW t \in Turns, Open(t), NEW u \in Turns, Undisturbed(u)',
         Lasting
  PROVE  Mine(u)'
<1> USE RegistryAssumption DEF Holders, Handlers
<1>1. Register(IdOf[t]) /\ IdOf[t] \in Ids /\ Shape
  BY DEF Open, RegInv, Undisturbed
<1>2. /\ stage[t] = "new" /\ stage' = [stage EXCEPT ![t] = "open"]
      /\ holds' = [holds EXCEPT ![t]["boundary"] = Len(used) + 1]
      /\ UNCHANGED <<asked, calls>>
  BY DEF Open
<1>3. /\ holds \in [Turns -> [Holders -> 0..Len(used)]]
      /\ Len(used) \in Nat
      /\ \A i \in DOMAIN registry : registry[i].ledger \in 1..Len(used)
  BY <1>1 DEF Shape, TypeOK
<1>4. /\ DOMAIN registry' \subseteq DOMAIN registry \cup {IdOf[t]}
      /\ IdOf[t] \in DOMAIN registry' => registry'[IdOf[t]].ledger = Len(used) + 1
      /\ \A i \in DOMAIN registry' : i # IdOf[t] => registry'[i] = registry[i]
      /\ IdOf[t] \notin DOMAIN registry
           => IdOf[t] \in DOMAIN registry' /\ registry'[IdOf[t]].place = Len(used) + 1
      /\ used' = Append(used, 0) /\ used \in Seq(0..HandoffLimit)
  BY <1>1, RegisterFacts DEF Shape, TypeOK
<1>5. CASE u = t
  <2>1. /\ holds'[t]["boundary"] = Len(used) + 1
        /\ \A h \in Handlers : holds'[t][h] = holds[t][h]
        /\ \A v \in Turns \ {t} : holds'[v] = holds[v]
    BY <1>2, <1>3
  <2>2. calls[t] = 0 /\ \A h \in Handlers : holds[t][h] = 0
    BY <1>2 DEF RegInv, Fresh
  <2>3. Apart(t)'
    BY <1>3, <1>4, <2>1 DEF Apart, Own
  <2>4. Found(t)'
    <3>1. IdOf[t] \notin DOMAIN registry
      <4>1. ASSUME NEW v \in Turns, IdOf[v] = IdOf[t], stage[v] # "new" PROVE FALSE
        <5>1. v # t /\ stage'[v] # "new"
          BY <1>2, <4>1 DEF Lasting
        <5> QED BY <1>5, <4>1, <5>1 DEF Undisturbed, Namesake
      <4>2. Begun
        BY DEF RegInv
      <4> QED BY ONLY <4>1, <4>2 DEF Begun
    <3> QED BY <1>4, <2>1, <3>1 DEF Found, Own
  <2>5. OwnLedger(t)'
    BY <2>1, <2>2 DEF OwnLedger
  <2>6. Counted(t)'
    BY <1>2, <1>4, <2>1, <2>2 DEF Counted, Own
  <2> QED BY <1>5, <2>3, <2>4, <2>5, <2>6 DEF Mine
<1>6. CASE u # t
  <2>1. stage[u] # "new" /\ stage'[t] # "new"
    BY <1>1, <1>2, <1>6 DEF Undisturbed, Shape, TypeOK
  <2>2. Mine(u)
    BY <2>1, StaysUndisturbed DEF RegInv
  <2>3. IdOf[t] # IdOf[u]
    BY <1>6, <2>1 DEF Undisturbed, Namesake
  <2>9. Len(used') < Own(u) + Capacity
    BY <2>1 DEF Undisturbed, Lasting, Own
  <2>4. /\ Own(u) \in 1..Len(used)
        /\ IdOf[u] \in DOMAIN registry' /\ registry'[IdOf[u]].ledger = Own(u)
        /\ registry'[IdOf[u]].place = Own(u)
        /\ \A i \in DOMAIN registry' : registry'[i].ledger = Own(u) => i = IdOf[u]
        /\ used'[Own(u)] = used[Own(u)]
    BY <1>1, <2>2, <2>3, <2>9, OthersKeepTheirs
  <2>5. /\ holds'[u] = holds[u]
        /\ \A v \in Turns : \A h \in Holders :
              holds'[v][h] = holds[v][h] \/ holds'[v][h] = Len(used) + 1
    BY <1>2, <1>3, <1>6
  <2>6. Own(u)' = Own(u)
    BY <2>5 DEF Own
  <2>7. Apart(u)'
    <3>1. Own(u) # 0 /\ Own(u) # Len(used) + 1
      BY <1>3, <2>4
    <3>2. \A v \in Turns \ {u} : \A h \in Holders : holds'[v][h] # Own(u)
      <4>1. \A v \in Turns \ {u} : \A h \in Holders : holds[v][h] # Own(u)
        BY <2>2 DEF Mine, Apart
      <4> QED BY <2>5, <3>1, <4>1, Zenon
    <3> QED BY <2>4, <2>6, <3>1, <3>2, Zenon DEF Apart
  <2>8. OwnLedger(u)'
    BY <2>2, <2>5, <2>6 DEF OwnLedger, Mine
  <2> QED BY <1>2, <2>2, <2>4, <2>6, <2>7, <2>8 DEF Mine, Found, Counted
<1> QED BY <1>5, <1>6

LEMMA MineClose ==
  ASSUME RegInv, NEW t \in Turns, Close(t), NEW u \in Turns, Undisturbed(u)',
         Lasting
  PROVE  Mine(u)'
<1>1. /\ stage[t] = "open" /\ stage' = [stage EXCEPT ![t] = "closed"]
      /\ registry' = [i \in DOMAIN registry \ {IdOf[t]} |-> registry[i]]
      /\ UNCHANGED <<used, asked, holds, calls>>
  BY DEF Close
<1>2. stage \in [Turns -> {"new", "open", "closed"}]
  BY DEF RegInv, Shape, TypeOK
<1>3. u # t /\ stage[u] # "new" /\ stage'[t] # "new"
  BY <1>1, <1>2 DEF Undisturbed
<1>4. Mine(u)
  BY <1>3, StaysUndisturbed DEF RegInv
<1>5. IdOf[t] # IdOf[u]
  BY <1>3 DEF Undisturbed, Namesake
<1>6. /\ \A i \in DOMAIN registry' : i \in DOMAIN registry /\ registry'[i] = registry[i]
      /\ IdOf[u] \in DOMAIN registry => IdOf[u] \in DOMAIN registry'
  BY <1>1, <1>5
<1> QED BY <1>1, <1>4, <1>6 DEF Mine, Apart, Found, OwnLedger, Counted, Own

LEMMA MineAsk ==
  ASSUME RegInv, NEW t \in Turns, NEW h \in Holders, Ask(t, h),
         NEW u \in Turns, Undisturbed(u)', Lasting
  PROVE  Mine(u)'
<1> USE DEF Holders, Handlers
<1> DEFINE n == holds[t][h]
<1>1. /\ n # 0
      /\ used' = [used EXCEPT ![n] = used[n] + 1]
      /\ calls' = [calls EXCEPT ![t] = calls[t] + 1]
      /\ UNCHANGED <<registry, stage, holds>>
  BY DEF Ask
<1>2. /\ n \in 1..Len(used) /\ used \in Seq(0..HandoffLimit)
      /\ calls \in [Turns -> Nat]
  BY <1>1 DEF RegInv, Shape, TypeOK
<1>3. Mine(u)
  <2>1. stage[u] # "new"
    BY <1>1 DEF Undisturbed
  <2> QED BY <2>1, StaysUndisturbed DEF RegInv
<1>4. Own(u) \in 1..Len(used)
  BY <1>3 DEF Mine, Apart, Own, RegInv, Shape, TypeOK
<1>5. CASE u = t
  <2>1. n = Own(u)
    BY <1>1, <1>3, <1>5 DEF Mine, OwnLedger, Own
  <2>2. used'[n] = used[n] + 1 /\ calls'[u] = calls[u] + 1
    <3> HIDE DEF n
    <3> QED BY <1>1, <1>2, <1>5
  <2>3. Counted(u)'
    BY <1>1, <1>3, <2>1, <2>2 DEF Mine, Counted, Own
  <2> QED BY <1>1, <1>3, <2>3 DEF Mine, Apart, Found, OwnLedger, Own
<1>6. CASE u # t
  <2>1. n # Own(u)
    BY <1>3, <1>6 DEF Mine, Apart
  <2>2. used'[Own(u)] = used[Own(u)] /\ calls'[u] = calls[u]
    <3> HIDE DEF n
    <3> QED BY <1>1, <1>2, <1>4, <1>6, <2>1
  <2>3. Counted(u)'
    BY <1>1, <1>3, <2>2 DEF Mine, Counted, Own
  <2> QED BY <1>1, <1>3, <2>3 DEF Mine, Apart, Found, OwnLedger, Own
<1> QED BY <1>5, <1>6

LEMMA MineFind ==
  ASSUME RegInv, NEW t \in Turns, NEW h \in Handlers, Find(t, h),
         NEW u \in Turns, Undisturbed(u)', Lasting
  PROVE  Mine(u)'
<1> USE RegistryAssumption DEF Holders, Handlers
<1>1. h \in asked[t] /\ UNCHANGED <<stage, calls>>
  BY DEF Find
<1>2. /\ holds \in [Turns -> [Holders -> 0..Len(used)]]
      /\ Len(used) \in Nat
  BY DEF RegInv, Shape, TypeOK
<1>3. stage[t] # "new"
  BY <1>1 DEF RegInv, Fresh
<1>4. Mine(u)
  <2>1. stage[u] # "new"
    BY <1>1 DEF Undisturbed
  <2> QED BY <2>1, StaysUndisturbed DEF RegInv
<1>5. u # t => IdOf[t] # IdOf[u]
  BY <1>1, <1>3 DEF Undisturbed, Namesake
<1>6. CASE /\ IdOf[t] \in DOMAIN registry
           /\ holds' = [holds EXCEPT ![t][h] = registry[IdOf[t]].ledger]
           /\ UNCHANGED <<registry, used>>
  <2>1. /\ Own(u)' = Own(u)
        /\ \A v \in Turns : \A g \in Holders :
             holds'[v][g] = holds[v][g]
               \/ (v = t /\ holds'[v][g] = registry[IdOf[t]].ledger)
    BY <1>2, <1>6 DEF Own
  <2>2. u # t => registry[IdOf[t]].ledger # Own(u)
    BY <1>4, <1>5, <1>6 DEF Mine, Apart
  <2>3. u = t => registry[IdOf[t]].ledger = Own(u)
    BY <1>4 DEF Mine, Found
  <2>4. Apart(u)'
    <3>1. \A v \in Turns \ {u} : \A g \in Holders : holds'[v][g] # Own(u)
      BY <1>4, <2>1, <2>2 DEF Mine, Apart
    <3> QED BY <1>4, <1>6, <2>1, <3>1 DEF Mine, Apart
  <2>5. OwnLedger(u)'
    BY <1>4, <2>1, <2>3 DEF Mine, OwnLedger
  <2> QED BY <1>1, <1>4, <1>6, <2>1, <2>4, <2>5 DEF Mine, Found, Counted
<1>7. CASE /\ IdOf[t] \notin DOMAIN registry
           /\ Register(IdOf[t])
           /\ holds' = [holds EXCEPT ![t][h] = Len(used) + 1]
  <2>1. u # t
    BY <1>4, <1>7 DEF Mine, Found
  <2>7. Len(used') < Own(u) + Capacity
    BY <1>1 DEF Undisturbed, Lasting, Own
  <2>8. Shape /\ IdOf[t] \in Ids /\ Register(IdOf[t]) /\ IdOf[t] # IdOf[u]
    BY <1>5, <1>7, <2>1 DEF RegInv
  <2>2. /\ Own(u) \in 1..Len(used)
        /\ IdOf[u] \in DOMAIN registry' /\ registry'[IdOf[u]].ledger = Own(u)
        /\ registry'[IdOf[u]].place = Own(u)
        /\ \A i \in DOMAIN registry' : registry'[i].ledger = Own(u) => i = IdOf[u]
        /\ used'[Own(u)] = used[Own(u)]
    BY ONLY <1>4, <2>7, <2>8, OthersKeepTheirs, u \in Turns
  <2>3. /\ holds'[u] = holds[u]
        /\ \A v \in Turns : \A g \in Holders :
              holds'[v][g] = holds[v][g] \/ holds'[v][g] = Len(used) + 1
    BY <1>2, <1>7, <2>1
  <2>4. Own(u)' = Own(u)
    BY <2>3 DEF Own
  <2>5. Apart(u)'
    <3>1. Own(u) # 0 /\ Own(u) # Len(used) + 1
      BY <1>2, <2>2
    <3>2. \A v \in Turns \ {u} : \A g \in Holders : holds'[v][g] # Own(u)
      <4>1. \A v \in Turns \ {u} : \A g \in Holders : holds[v][g] # Own(u)
        BY <1>4 DEF Mine, Apart
      <4> QED BY <2>3, <3>1, <4>1, Zenon
    <3> QED BY <2>2, <2>4, <3>1, <3>2, Zenon DEF Apart
  <2>6. OwnLedger(u)'
    BY <1>4, <2>3, <2>4 DEF Mine, OwnLedger
  <2> QED BY <1>1, <1>4, <2>2, <2>4, <2>5, <2>6 DEF Mine, Found, Counted
<1> QED BY <1>6, <1>7 DEF Find

LEMMA Inductive == RegInv /\ [Next]_vars => RegInv'
<1> SUFFICES ASSUME RegInv, [Next]_vars PROVE RegInv'
  OBVIOUS
<1>1. Shape' /\ Lasting /\ Fresh' /\ Begun'
  BY TypeStep, FreshStep, BegunStep DEF RegInv
<1>2. ASSUME NEW u \in Turns, Undisturbed(u)' PROVE Mine(u)'
  <2>1. CASE UNCHANGED vars
    <3>1. Undisturbed(u) /\ Mine(u)
      BY <1>2, <2>1 DEF RegInv, vars, Undisturbed, Namesake
    <3> QED BY <2>1, <3>1 DEF vars, Mine, Apart, Found, OwnLedger, Counted, Own
  <2> QED BY <1>1, <1>2, <2>1, MineOpen, MineClose, MineAsk, MineFind DEF Next
<1> QED BY <1>1, <1>2 DEF RegInv

LEMMA Initially == Init => RegInv
<1> SUFFICES ASSUME Init PROVE RegInv
  OBVIOUS
<1>1. IsFiniteSet(DOMAIN registry) /\ DOMAIN registry = {}
      /\ Cardinality(DOMAIN registry) = 0
  BY FS_EmptySet DEF Init
<1>2. Shape
  <2>1. used = <<>> /\ used \in Seq(0..HandoffLimit) /\ Len(used) = 0
    BY DEF Init
  <2>2. /\ stage \in [Turns -> {"new", "open", "closed"}]
        /\ asked \in [Turns -> SUBSET Handlers]
        /\ calls \in [Turns -> Nat]
    BY DEF Init
  <2>3. holds \in [Turns -> [Holders -> 0..Len(used)]]
    BY <2>1 DEF Init
  <2> QED BY <1>1, <2>1, <2>2, <2>3, RegistryAssumption DEF Shape, TypeOK, Aged
<1>3. Begun
  BY <1>1 DEF Begun
<1> QED BY <1>2, <1>3 DEF Init, RegInv, Fresh, Undisturbed

\* Every reachable state satisfies the inductive invariant.
THEOREM RegInvariance == Spec => []RegInv
BY Initially, Inductive, PTL DEF Spec

\* The registry never exceeds its capacity, and entries and holders name only
\* ledgers that exist.
THEOREM RegistryTypes == Spec => []TypeOK
<1>1. RegInv => TypeOK
  BY DEF RegInv, Shape
<1> QED BY <1>1, RegInvariance, PTL

\* An open turn that shares its id with nobody is found under it until as many ledgers have been
\* made since its own as the registry has places.
THEOREM FindCorrect == Spec => []OpenTurnIsFound
<1>1. RegInv => OpenTurnIsFound
  BY DEF RegInv, Mine, Found, Own, OpenTurnIsFound
<1> QED BY <1>1, RegInvariance, PTL

\* All handlers of such a turn work with the ledger its boundary opened.
THEOREM SharingCorrect == Spec => []OneLedgerPerTurn
<1>1. RegInv => OneLedgerPerTurn
  BY DEF RegInv, Mine, OwnLedger, Own, OneLedgerPerTurn
<1> QED BY <1>1, RegInvariance, PTL

\* The limit of that ledger is therefore a limit on the turn.
THEOREM LimitCorrect == Spec => []TurnIsCounted
<1>1. ASSUME RegInv, NEW t \in Turns, Undisturbed(t)
      PROVE  calls[t] = used[Own(t)] /\ calls[t] <= HandoffLimit
  <2>1. Mine(t) /\ Shape
    BY <1>1 DEF RegInv
  <2>2. Own(t) \in 1..Len(used)
    BY <2>1 DEF Mine, Apart, Own, Shape, TypeOK, Holders
  <2>3. used[Own(t)] \in 0..HandoffLimit
    <3> DEFINE S == 0..HandoffLimit
    <3>1. used \in Seq(S)
      BY <2>1 DEF Shape, TypeOK
    <3> HIDE DEF S
    <3>2. used[Own(t)] \in S
      BY <2>2, <3>1
    <3> QED BY <3>2 DEF S
  <2> QED BY <2>1, <2>3, RegistryAssumption DEF Mine, Counted
<1>2. RegInv => TurnIsCounted
  BY <1>1 DEF TurnIsCounted, Own
<1> QED BY <1>2, RegInvariance, PTL

\* The registry as a whole: a turn that shares its id with nobody and is not yet followed by as many
\* ledgers as there are places has one ledger, finds it and is counted on it, however many ledgers of
\* other turns and of late handlers are evicted meanwhile.
THEOREM OneLedgerCorrect == Spec => []OneLedger
BY RegistryTypes, FindCorrect, SharingCorrect, LimitCorrect, PTL DEF OneLedger

-----------------------------------------------------------------------------
USE ClockAssumption DEF clockVars

-----------------------------------------------------------------------------
(* The deadlines: what is known of one call, by its stage.                 *)

\* A submitted call waits for a coroutine that is late by at most Lag; an open
\* one has a deadline that covers the turn, that has not passed, and that its
\* caller's bridge outlasts if the loop was on time.
CallOK(c) ==
  /\ c.made <= now
  /\ c.bridge = MaxOf(c.made + Floor, Turn) + Grace
  /\ c.stage = "submitted" => now <= c.made + Lag
  /\ c.stage = "open" =>
       /\ now <= c.limit
       /\ c.made <= c.started /\ c.started <= c.made + Lag
       /\ c.limit = MaxOf(c.started + Floor, Turn)
  /\ c.stage \in Pending /\ OnTime(c) => c.awaited
  /\ c.awaited => c.stage \in Pending

CallsOK == \A n \in DOMAIN requests : CallOK(requests[n])

\* Calls are made by handlers of requests.
ParentsOK == \A n \in DOMAIN requests : requests[n].parent \in {0} \cup DOMAIN requests

IInv == ClockTypeOK /\ CallsOK /\ ParentsOK

-----------------------------------------------------------------------------
(* Facts about the operators.                                              *)

\* The rest of the turn, seen from now on: the floor is what may exceed it.
LEMMA RemainingFacts ==
  ASSUME now \in Nat
  PROVE  /\ Remaining \in Nat
         /\ now + Remaining = MaxOf(now + Floor, Turn)
         /\ now + Remaining >= Turn
         /\ now + Remaining >= now + Floor
BY DEF Remaining, MaxOf

\* Changing one call of a well-formed list.
LEMMA ChangeStep ==
  ASSUME IInv, NEW n \in DOMAIN requests, NEW c \in Request,
         requests' = [requests EXCEPT ![n] = c], now' = now,
         busy' \subseteq DOMAIN requests,
         CallOK(c), c.parent = requests[n].parent
  PROVE  IInv'
<1>1. /\ requests' \in Seq(Request) /\ Len(requests') = Len(requests)
      /\ DOMAIN requests' = DOMAIN requests
      /\ \A k \in DOMAIN requests : requests'[k] = IF k = n THEN c ELSE requests[k]
  BY ExceptSeq DEF IInv, ClockTypeOK
<1>2. ClockTypeOK'
  BY <1>1 DEF IInv, ClockTypeOK
<1>3. ASSUME NEW k \in DOMAIN requests PROVE CallOK(requests[k])'
  <2>1. CallOK(requests[k]) /\ CallOK(c)
    BY DEF IInv, CallsOK
  <2>2. CASE k = n
    BY <1>1, <2>1, <2>2 DEF CallOK, OnTime
  <2>3. CASE k # n
    BY <1>1, <2>1, <2>3 DEF CallOK, OnTime
  <2> QED
    BY <2>2, <2>3
<1>4. CallsOK'
  BY <1>1, <1>3 DEF CallsOK
<1>5. ParentsOK'
  BY <1>1 DEF IInv, ParentsOK
<1> QED
  BY <1>2, <1>4, <1>5 DEF IInv

-----------------------------------------------------------------------------
(* The invariant holds at first, and every action keeps it.                *)

THEOREM InitIInv == ClockInit => IInv
BY DEF ClockInit, IInv, ClockTypeOK, CallsOK, ParentsOK

LEMMA SubmitIInv ==
  ASSUME IInv, NEW p \in 0..MaxCalls, Submit(p)
  PROVE  IInv'
<1> DEFINE c == [parent |-> p, made |-> now, bridge |-> now + Remaining + Grace,
                 started |-> 0, limit |-> 0, stage |-> "submitted",
                 awaited |-> TRUE]
<1>1. /\ requests' = Append(requests, c) /\ now' = now /\ busy' = busy
      /\ Len(requests) < MaxCalls
  BY DEF Submit
<1>2. now \in Nat /\ p \in Nat /\ Remaining \in Nat
      /\ now + Remaining = MaxOf(now + Floor, Turn)
  BY RemainingFacts DEF IInv, ClockTypeOK
<1>3. c \in Request /\ CallOK(c) /\ c.parent \in {0} \cup DOMAIN requests
  BY <1>2 DEF Request, CallOK, Stages, Pending, Submit, IInv, ClockTypeOK
<1> HIDE DEF c
<1>4. /\ requests' \in Seq(Request) /\ Len(requests') = Len(requests) + 1
      /\ DOMAIN requests' = 1..(Len(requests) + 1)
      /\ DOMAIN requests = 1..Len(requests) /\ Len(requests) \in Nat
      /\ \A k \in DOMAIN requests : requests'[k] = requests[k]
      /\ requests'[Len(requests) + 1] = c
  BY <1>1, <1>3, AppendProperties, LenProperties DEF IInv, ClockTypeOK
<1>5. ClockTypeOK'
  BY <1>1, <1>4 DEF IInv, ClockTypeOK
<1>6. ASSUME NEW k \in 1..(Len(requests) + 1) PROVE CallOK(requests[k])'
  <2>1. CASE k \in DOMAIN requests
    BY <1>1, <1>4, <2>1 DEF IInv, CallsOK, CallOK, OnTime
  <2>2. CASE k = Len(requests) + 1
    BY <1>1, <1>3, <1>4, <2>2 DEF CallOK, OnTime
  <2> QED
    BY <1>4, <2>1, <2>2
<1>7. ParentsOK'
  <2> SUFFICES ASSUME NEW k \in 1..(Len(requests) + 1)
               PROVE  requests'[k].parent \in {0} \cup (1..(Len(requests) + 1))
    BY <1>4 DEF ParentsOK
  <2>1. CASE k \in DOMAIN requests
    BY <1>4, <2>1 DEF IInv, ParentsOK
  <2>2. CASE k = Len(requests) + 1
    BY <1>3, <1>4, <2>2
  <2> QED
    BY <1>4, <2>1, <2>2
<1> QED
  BY <1>4, <1>5, <1>6, <1>7 DEF IInv, CallsOK

LEMMA StartIInv ==
  ASSUME IInv, NEW n \in 1..MaxCalls, Start(n)
  PROVE  IInv'
<1> DEFINE c == [requests[n] EXCEPT !.stage = "open", !.started = now,
                               !.limit = now + Remaining]
<1>1. /\ n \in DOMAIN requests /\ requests[n].stage = "submitted"
      /\ requests' = [requests EXCEPT ![n] = c] /\ now' = now
      /\ busy' = busy \cup {n}
  BY DEF Start
<1>2. now \in Nat /\ Remaining \in Nat
      /\ now + Remaining = MaxOf(now + Floor, Turn)
  BY RemainingFacts DEF IInv, ClockTypeOK
<1>3. requests[n] \in Request /\ CallOK(requests[n]) /\ busy \subseteq DOMAIN requests
  BY <1>1 DEF IInv, ClockTypeOK, CallsOK
<1>4. c \in Request /\ c.parent = requests[n].parent
  <2> DEFINE x == now + Remaining
  <2>1. x \in Nat
    BY <1>2
  <2> HIDE DEF x
  <2>2. [requests[n] EXCEPT !.stage = "open", !.started = now, !.limit = x] \in Request
    BY <1>2, <1>3, <2>1 DEF Request, Stages
  <2>3. c.parent = requests[n].parent
    BY <1>3 DEF Request
  <2> QED
    BY <2>2, <2>3 DEF x
<1>5. CallOK(c)
  <2>1. /\ c.made = requests[n].made /\ c.bridge = requests[n].bridge
        /\ c.stage = "open" /\ c.awaited = requests[n].awaited
        /\ c.started = now /\ c.limit = now + Remaining
        /\ requests[n].made \in Nat
    BY <1>3 DEF Request
  <2> HIDE DEF c
  <2>2. /\ requests[n].made <= now /\ now <= requests[n].made + Lag
        /\ requests[n].bridge = MaxOf(requests[n].made + Floor, Turn) + Grace
    BY <1>1, <1>3 DEF CallOK
  <2>3. OnTime(c) => c.awaited
    BY <1>1, <1>3, <2>1 DEF CallOK, Pending, OnTime
  <2>4. now <= c.limit /\ c.limit = MaxOf(c.started + Floor, Turn)
    <3>1. c.limit = MaxOf(c.started + Floor, Turn)
      BY <1>2, <2>1
    <3>2. now <= now + Remaining
      BY <1>2
    <3> QED
      BY <3>1, <3>2, <2>1
  <2> QED
    BY <2>1, <2>2, <2>3, <2>4 DEF CallOK, Pending
<1> HIDE DEF c
<1> QED
  BY <1>1, <1>3, <1>4, <1>5, ChangeStep

\* A call that ends is no longer pending, so nothing more is asked of it.
LEMMA EndStep ==
  ASSUME IInv, NEW n \in DOMAIN requests, NEW st \in {"answered", "expired"},
         requests' = [requests EXCEPT ![n].stage = st, ![n].awaited = FALSE],
         now' = now, busy' \subseteq DOMAIN requests
  PROVE  IInv'
<1> DEFINE c == [requests[n] EXCEPT !.stage = st, !.awaited = FALSE]
<1>1. requests' = [requests EXCEPT ![n] = c]
  OBVIOUS
<1>2. requests[n] \in Request /\ CallOK(requests[n])
  BY DEF IInv, ClockTypeOK, CallsOK
<1>3. c \in Request /\ CallOK(c) /\ c.parent = requests[n].parent
  BY <1>2 DEF Request, Stages, CallOK, Pending, OnTime
<1> HIDE DEF c
<1> QED
  BY <1>1, <1>3, ChangeStep

LEMMA ReturnIInv ==
  ASSUME IInv, NEW n \in 1..MaxCalls, Return(n)
  PROVE  IInv'
<1>1. n \in DOMAIN requests /\ busy' \subseteq DOMAIN requests /\ now' = now
  BY DEF Return, IInv, ClockTypeOK
<1>2. CASE requests[n].stage = "open"
  BY <1>1, <1>2, EndStep DEF Return
<1>3. CASE requests[n].stage # "open"
  BY <1>1, <1>3 DEF Return, IInv, ClockTypeOK, CallsOK, CallOK, ParentsOK, OnTime
<1> QED
  BY <1>2, <1>3

LEMMA ExpireIInv ==
  ASSUME IInv, NEW n \in 1..MaxCalls, Expire(n)
  PROVE  IInv'
<1>1. n \in DOMAIN requests /\ busy' \subseteq DOMAIN requests /\ now' = now
  BY DEF Expire, IInv, ClockTypeOK
<1> QED
  BY <1>1, EndStep DEF Expire

\* The bridge: with a loop on time its moment comes only when the call is over.
LEMMA CutIInv ==
  ASSUME IInv, NEW n \in 1..MaxCalls, Cut(n)
  PROVE  IInv'
<1> DEFINE c == [requests[n] EXCEPT !.awaited = FALSE]
<1>1. /\ n \in DOMAIN requests /\ requests[n].bridge <= now /\ now' = now
      /\ requests' = [requests EXCEPT ![n] = c] /\ busy' = busy
  BY DEF Cut
<1>2. requests[n] \in Request /\ CallOK(requests[n]) /\ busy \subseteq DOMAIN requests
      /\ now \in Nat
  BY <1>1 DEF IInv, ClockTypeOK, CallsOK
<1>3. ~(requests[n].stage \in Pending /\ OnTime(requests[n]))
  <2> SUFFICES ASSUME OnTime(requests[n]), requests[n].stage \in Pending PROVE FALSE
    OBVIOUS
  <2>1. /\ requests[n].made \in Nat /\ requests[n].limit \in Nat
        /\ requests[n].started \in Nat
        /\ requests[n].bridge = MaxOf(requests[n].made + Floor, Turn) + Grace
    BY <1>2 DEF Request, CallOK
  <2>2. CASE requests[n].stage = "submitted"
    BY <1>1, <1>2, <2>1, <2>2 DEF CallOK, MaxOf, OnTime
  <2>3. CASE requests[n].stage = "open"
    BY <1>1, <1>2, <2>1, <2>3 DEF CallOK, MaxOf, OnTime
  <2> QED
    BY <2>2, <2>3 DEF Pending
<1>4. c \in Request /\ CallOK(c) /\ c.parent = requests[n].parent
  BY <1>2, <1>3 DEF Request, CallOK, OnTime
<1> HIDE DEF c
<1> QED
  BY <1>1, <1>2, <1>4, ChangeStep

LEMMA TickIInv == IInv /\ Tick => IInv'
<1> SUFFICES ASSUME IInv, Tick PROVE IInv'
  OBVIOUS
<1>1. now' = now + 1 /\ requests' = requests /\ busy' = busy /\ now \in Nat
  BY DEF Tick, IInv, ClockTypeOK
<1>2. ASSUME NEW n \in DOMAIN requests PROVE CallOK(requests[n])'
  <2>1. requests[n] \in Request /\ CallOK(requests[n])
    BY DEF IInv, ClockTypeOK, CallsOK
  <2>2. /\ requests[n].stage = "open" => now < requests[n].limit
        /\ requests[n].stage = "submitted" => now < requests[n].made + Lag
    BY DEF Tick
  <2> QED
    BY <1>1, <2>1, <2>2 DEF CallOK, Request, OnTime
<1> QED
  BY <1>1, <1>2 DEF IInv, ClockTypeOK, CallsOK, ParentsOK

THEOREM NextIInv == IInv /\ [ClockNext]_clockVars => IInv'
<1> SUFFICES ASSUME IInv, [ClockNext]_clockVars PROVE IInv'
  OBVIOUS
<1>1. ASSUME UNCHANGED clockVars PROVE IInv'
  BY <1>1 DEF IInv, ClockTypeOK, CallsOK, CallOK, ParentsOK, OnTime
<1> QED
  BY <1>1, SubmitIInv, StartIInv, ReturnIInv, ExpireIInv, CutIInv, TickIInv
     DEF ClockNext

-----------------------------------------------------------------------------
(* The theorems.                                                           *)

\* The inductive invariant holds in every state of the specification.
THEOREM Invariance == ClockSpec => []IInv
BY InitIInv, NextIInv, PTL DEF ClockSpec

\* The clock, the requests and their workers are well formed.
THEOREM TypeCorrect == ClockSpec => []ClockTypeOK
<1>1. IInv => ClockTypeOK
  BY DEF IInv
<1> QED
  BY <1>1, Invariance, PTL

\* Whatever the budget, the floor and the grace, no bridge gives up on a call that
\* the loop started in time.
THEOREM BridgeCorrect == ClockSpec => []BridgeOutlastsCall
<1>1. IInv => BridgeOutlastsCall
  BY DEF IInv, CallsOK, CallOK, BridgeOutlastsCall
<1> QED
  BY <1>1, Invariance, PTL

\* However late the loop is, nobody waits longer than the budget, or the floor
\* counted from the start of the coroutine.
THEOREM BudgetCorrect == ClockSpec => []AnsweredWithinBudget
<1>1. ASSUME IInv, NEW n \in DOMAIN requests, requests[n].awaited
      PROVE  now <= MaxOf(Turn, requests[n].made + Lag + Floor)
  <2>1. requests[n] \in Request /\ CallOK(requests[n]) /\ now \in Nat
    BY <1>1 DEF IInv, ClockTypeOK, CallsOK
  <2>2. requests[n].stage \in Pending
    BY <1>1, <2>1 DEF CallOK
  <2>3. CASE requests[n].stage = "submitted"
    BY <2>1, <2>3 DEF CallOK, Request, MaxOf
  <2>4. CASE requests[n].stage = "open"
    BY <2>1, <2>4 DEF CallOK, Request, MaxOf
  <2> QED
    BY <2>2, <2>3, <2>4 DEF Pending
<1>2. IInv => AnsweredWithinBudget
  BY <1>1 DEF AnsweredWithinBudget
<1> QED
  BY <1>2, Invariance, PTL

\* A call outlasts an open parent by the floor at most: both deadlines cover
\* the turn, and only the floor can carry one past it.
OutlastStep ==
  \A n \in DOMAIN requests :
    LET p == requests[n].parent IN
    /\ requests[n].stage = "submitted" /\ requests'[n].stage = "open"
    /\ p # 0 /\ requests[p].stage = "open"
    => requests'[n].limit <= requests[p].limit + Floor

LEMMA NextOutlast == IInv /\ [ClockNext]_clockVars => OutlastStep
<1> SUFFICES ASSUME IInv, [ClockNext]_clockVars, NEW n \in DOMAIN requests,
                    NEW p, p = requests[n].parent,
                    requests[n].stage = "submitted", requests'[n].stage = "open",
                    p # 0, requests[p].stage = "open"
             PROVE  requests'[n].limit <= requests[p].limit + Floor
  BY DEF OutlastStep
<1>1. p \in DOMAIN requests /\ requests[p] \in Request /\ CallOK(requests[p])
  BY DEF IInv, ClockTypeOK, ParentsOK, CallsOK
<1>2. now \in Nat /\ now + Remaining = MaxOf(now + Floor, Turn)
  BY RemainingFacts DEF IInv, ClockTypeOK
<1>3. now <= requests[p].limit /\ Turn <= requests[p].limit /\ requests[p].limit \in Nat
  BY <1>1 DEF CallOK, Request, MaxOf
<1>4. requests'[n].limit = now + Remaining
  <2>1. CASE \E q \in 0..MaxCalls : Submit(q)
    <3>1. requests'[n] = requests[n]
      BY <2>1, AppendProperties, LenProperties DEF Submit, IInv, ClockTypeOK
    <3> QED
      BY <3>1
  <2>2. ASSUME NEW k \in 1..MaxCalls, Start(k) PROVE requests'[n].limit = now + Remaining
    <3>1. k # n => requests'[n] = requests[n]
      BY <2>2 DEF Start
    <3>2. CASE k = n
      <4>1. requests[n] \in Request
        BY DEF IInv, ClockTypeOK
      <4>2. requests'[n] = [requests[n] EXCEPT !.stage = "open", !.started = now,
                               !.limit = now + Remaining]
        BY <2>2, <3>2 DEF Start
      <4> QED
        BY <4>1, <4>2 DEF Request
    <3> QED
      BY <3>1, <3>2
  <2>3. ASSUME NEW k \in 1..MaxCalls, Return(k) \/ Expire(k) \/ Cut(k)
        PROVE  requests'[n].stage # "open"
    <3>1. requests[n] \in Request
      BY DEF IInv, ClockTypeOK
    <3>2. \/ requests'[n] = requests[n]
          \/ requests'[n] = [requests[n] EXCEPT !.stage = "answered", !.awaited = FALSE]
          \/ requests'[n] = [requests[n] EXCEPT !.stage = "expired", !.awaited = FALSE]
          \/ requests'[n] = [requests[n] EXCEPT !.awaited = FALSE]
      BY <2>3 DEF Return, Expire, Cut, IInv, ClockTypeOK
    <3> QED
      BY <3>1, <3>2 DEF Request
  <2>4. CASE Tick \/ UNCHANGED clockVars
    BY <2>4 DEF Tick
  <2> QED
    BY <2>1, <2>2, <2>3, <2>4 DEF ClockNext
<1> QED
  BY <1>2, <1>3, <1>4 DEF MaxOf

\* For every turn budget and floor, nesting loosens a deadline by the floor at
\* most, and only for a call made while its parent is still open.
THEOREM NestingCorrect == ClockSpec => OutlastsByFloorOnly
<1>1. IInv /\ [ClockNext]_clockVars => [OutlastStep]_clockVars
  BY NextOutlast
<1>2. ClockSpec => [][OutlastStep]_clockVars
  BY <1>1, Invariance, PTL DEF ClockSpec
<1> QED
  BY <1>2 DEF OutlastsByFloorOnly, OutlastStep

\* The clock of a turn as a whole, for every budget, floor, grace and lag.
THEOREM DeadlinesCorrect == ClockSpec => DeadlinesHold
BY TypeCorrect, BridgeCorrect, BudgetCorrect, NestingCorrect, PTL DEF DeadlinesHold

HIDE ClockAssumption DEF clockVars

-----------------------------------------------------------------------------
(* One call: what the task shows of the handler, at every moment.          *)

\* What a handler owes the task by how it ended.
Due(h) == CASE h \in {"failed", "raised"} -> {"agent_error"}
            [] h = "completed" -> {"data", "summary"}
            [] OTHER -> {}

\* Nothing was admitted yet; the request was refused and says why; or the handler was started,
\* for a request that nothing objects to, and what it owes is on the task or about to be.
Untouched == task = NoTask /\ handler = "idle" /\ toAdd = {}
Refused   == /\ task = [state |-> "rejected", artifacts |-> {Refusal(wire)}, message |-> "text"]
             /\ Refusal(wire) # "none" /\ handler = "idle" /\ toAdd = {}
Started   == /\ Refusal(wire) = "none" /\ handler \in {"running"} \cup Outcomes
             /\ task.state \in {"working", "completed", "failed", "canceled", "input-required"}
             /\ task.artifacts \cup toAdd = Due(handler)
\* A task that ended otherwise than by a cancellation says how the handler ended, and is whole.
Concluded == task.state \in {"completed", "failed", "input-required"} =>
             /\ handler \in Outcomes /\ task.state = FinalState(handler) /\ toAdd = {}
             /\ handler = "input-required" => task.message = "question"

CallShape == /\ wire \in WireRequests
             /\ task = [state |-> task.state, artifacts |-> task.artifacts, message |-> task.message]
CallInv == CallShape /\ (Untouched \/ Refused \/ (Started /\ Concluded)) /\ ToldTheTruth /\ ActsOnSettled

LEMMA RefusalIsAKind == \A r \in WireRequests : Refusal(r) \in Kinds \cup {"none"}
BY DEF Refusal, Kinds

LEMMA RefusalBounds ==
  ASSUME NEW r \in WireRequests, Refusal(r) = "none"
  PROVE  /\ r.envelope /\ r.permitted
         /\ r.chain \in 1..ChainLimit /\ r.reentries <= ReentryLimit
<1>1. r.chain \in Nat /\ r.reentries \in Nat
  BY CallAssumption DEF WireRequests
<1>2. r.envelope /\ r.permitted /\ ~(r.chain < 1) /\ ~(r.chain > ChainLimit) /\ ~(r.reentries > ReentryLimit)
  BY DEF Refusal
<1> QED
  BY <1>1, <1>2, CallAssumption

\* What a caller reads of a settled task is true of it.
LEMMA ReadIsTrue ==
  ASSUME CallInv, task # NoTask, task.state \in Settled
  PROVE  /\ ReadTask.state = "completed" => handler = "completed" /\ ReadTask.artifacts = {"data", "summary"}
         /\ ReadTask.state = "input-required" => handler = "input-required" /\ ReadTask.question
         /\ ReadTask.state \in {"failed", "rejected"} => ReadTask.kind # "none"
         /\ ReadTask.state \in Settled
<1>1. /\ ReadTask.state = task.state /\ ReadTask.artifacts = task.artifacts
      /\ ReadTask.question = (task.message = "question")
      /\ task.artifacts \cap Kinds # {} => ReadTask.kind \in Kinds
  BY DEF ReadTask
<1>2. "none" \notin Kinds
  BY DEF Kinds
<1>3. CASE Refused
  <2>1. task.state = "rejected" /\ task.artifacts = {Refusal(wire)} /\ Refusal(wire) \in Kinds
    BY <1>3, RefusalIsAKind DEF Refused, CallInv, CallShape
  <2> QED
    BY <2>1, <1>1, <1>2
<1>4. CASE Started /\ Concluded
  <2>1. CASE task.state = "completed"
    <3>1. handler = "completed" /\ toAdd = {}
      BY <1>4, <2>1 DEF Concluded, FinalState, Outcomes
    <3>2. task.artifacts = {"data", "summary"}
      BY <3>1, <1>4 DEF Started, Due
    <3> QED
      BY <3>1, <3>2, <2>1, <1>1 DEF Settled
  <2>2. CASE task.state = "input-required"
    <3>1. handler = "input-required" /\ task.message = "question"
      BY <1>4, <2>2 DEF Concluded, FinalState, Outcomes
    <3> QED
      BY <3>1, <2>2, <1>1 DEF Settled
  <2>3. CASE task.state = "failed"
    <3>1. handler \in {"failed", "raised"} /\ toAdd = {}
      BY <1>4, <2>3 DEF Concluded, FinalState, Outcomes
    <3>2. task.artifacts = {"agent_error"}
      BY <3>1, <1>4 DEF Started, Due
    <3> QED
      BY <3>2, <2>3, <1>1, <1>2 DEF Settled, Kinds
  <2>4. CASE task.state = "canceled"
    BY <2>4, <1>1 DEF Settled
  <2> QED
    BY <2>1, <2>2, <2>3, <2>4, <1>4 DEF Started, Settled
<1>5. ~ Untouched
  BY DEF Untouched
<1> QED
  BY <1>3, <1>4, <1>5 DEF CallInv

LEMMA CallInit_Inv == CallInit => CallInv
BY DEF CallInit, CallInv, CallShape, Untouched, NoTask, NoResult, ToldTheTruth, ActsOnSettled, Waiting

\* A step of the server: what the caller was told is still true, for a handler ends once.
LEMMA ServerKeeps ==
  ASSUME CallInv, UNCHANGED <<wire, settled>>, handler \in Outcomes => handler' = handler,
         CallShape', (Untouched \/ Refused \/ (Started /\ Concluded))'
  PROVE  CallInv'
<1>1. ToldTheTruth'
  BY DEF CallInv, ToldTheTruth, Outcomes
<1>2. ActsOnSettled'
  BY DEF CallInv, ActsOnSettled, Waiting
<1> QED
  BY <1>1, <1>2 DEF CallInv

LEMMA AdmitKeeps == CallInv /\ Admit => CallInv'
<1> SUFFICES ASSUME CallInv, Admit PROVE CallInv'
  OBVIOUS
<1>1. Refusal(wire)' = Refusal(wire) /\ wire' = wire /\ wire' \in WireRequests
  BY DEF Admit, CallInv, CallShape
<1>2. Untouched
  BY DEF Admit, CallInv, Untouched, Refused, Started, NoTask
<1>3. CASE Refusal(wire) = "none"
  <2>1. /\ task' = [state |-> "working", artifacts |-> {}, message |-> "none"]
        /\ handler' = "running" /\ toAdd' = {}
    BY <1>2, <1>3 DEF Admit, NoTask, Untouched
  <2>2. Started' /\ Concluded' /\ CallShape'
    BY <2>1, <1>1, <1>3 DEF Started, Concluded, CallShape, Due, Outcomes
  <2> QED
    BY <2>2, <1>2, ServerKeeps DEF Admit, Untouched, Outcomes
<1>4. CASE Refusal(wire) # "none"
  <2>1. Refused' /\ CallShape' /\ handler' = handler
    BY <1>4, <1>1, <1>2 DEF Admit, Refused, Untouched, CallShape
  <2> QED
    BY <2>1, ServerKeeps DEF Admit
<1> QED
  BY <1>3, <1>4

LEMMA HandleKeeps == \A o \in Outcomes : CallInv /\ Handle(o) => CallInv'
<1> SUFFICES ASSUME NEW o \in Outcomes, CallInv, Handle(o) PROVE CallInv'
  OBVIOUS
<1>1. Started /\ Concluded /\ handler = "running"
  BY DEF Handle, CallInv, Untouched, Refused
<1>2. task.artifacts = {} /\ task.state \in {"working", "canceled"}
  BY <1>1 DEF Started, Concluded, Due, Outcomes
<1>3. handler' = o /\ toAdd' = Due(o) /\ task' = task /\ wire' = wire /\ Refusal(wire)' = Refusal(wire)
  BY DEF Handle, Due, Outcomes
<1>4. Started' /\ Concluded' /\ CallShape'
  BY <1>1, <1>2, <1>3 DEF Started, Concluded, CallShape, CallInv
<1> QED
  BY <1>1, <1>4, ServerKeeps DEF Handle, Outcomes

LEMMA AddArtifactKeeps == \A a \in toAdd : CallInv /\ AddArtifact(a) => CallInv'
<1> SUFFICES ASSUME NEW a \in toAdd, CallInv, AddArtifact(a) PROVE CallInv'
  OBVIOUS
<1>1. Started /\ Concluded
  BY DEF CallInv, Untouched, Refused
<1>2. /\ task'.state = task.state /\ task'.message = task.message
      /\ task'.artifacts = task.artifacts \cup {a} /\ toAdd' = toAdd \ {a}
      /\ task' = [state |-> task'.state, artifacts |-> task'.artifacts, message |-> task'.message]
  BY DEF AddArtifact, CallInv, CallShape
<1>3. handler' = handler /\ wire' = wire /\ Refusal(wire)' = Refusal(wire) /\ Due(handler)' = Due(handler)
  BY DEF AddArtifact
<1>4. task'.artifacts \cup toAdd' = task.artifacts \cup toAdd
  BY <1>2
<1>5. task.state \in {"working", "canceled"}
  BY <1>1 DEF Started, Concluded
<1>6. Started' /\ Concluded' /\ CallShape'
  BY <1>1, <1>2, <1>3, <1>4, <1>5 DEF Started, Concluded, CallShape, CallInv
<1> QED
  BY <1>6, <1>3, ServerKeeps DEF AddArtifact

LEMMA FinishKeeps == CallInv /\ Finish => CallInv'
<1> SUFFICES ASSUME CallInv, Finish PROVE CallInv'
  OBVIOUS
<1>1. Started /\ handler \in Outcomes /\ toAdd = {}
  BY DEF CallInv, Finish, Untouched, Refused, NoTask
<1>2. /\ task'.state = FinalState(handler) /\ task'.artifacts = task.artifacts
      /\ task'.message = IF handler = "input-required" THEN "question" ELSE "text"
      /\ task' = [state |-> task'.state, artifacts |-> task'.artifacts, message |-> task'.message]
  BY DEF Finish, Conclude, CallInv, CallShape
<1>3. handler' = handler /\ wire' = wire /\ toAdd' = toAdd /\ Refusal(wire)' = Refusal(wire)
  BY DEF Finish, Conclude
<1>4. Started' /\ Concluded' /\ CallShape'
  BY <1>1, <1>2, <1>3 DEF Started, Concluded, CallShape, CallInv, FinalState, Outcomes, Due
<1> QED
  BY <1>4, <1>3, ServerKeeps DEF Finish, Conclude

LEMMA CancelKeeps == CallInv /\ CancelTask => CallInv'
<1> SUFFICES ASSUME CallInv, CancelTask PROVE CallInv'
  OBVIOUS
<1>1. Started
  BY DEF CallInv, CancelTask, Untouched, Refused, NoTask
<1>2. /\ task'.state = "canceled" /\ task'.artifacts = task.artifacts
      /\ task' = [state |-> task'.state, artifacts |-> task'.artifacts, message |-> task'.message]
  BY DEF CancelTask, CallInv, CallShape
<1>3. handler' = handler /\ wire' = wire /\ toAdd' = toAdd /\ Refusal(wire)' = Refusal(wire)
  BY DEF CancelTask
<1>4. Started' /\ Concluded' /\ CallShape'
  BY <1>1, <1>2, <1>3 DEF Started, Concluded, CallShape, CallInv, Due
<1> QED
  BY <1>4, <1>3, ServerKeeps DEF CancelTask

\* The caller hears: of the task, or of a failure of its own.
LEMMA SettleKeeps ==
  ASSUME CallInv, NEW result, NEW cancel, Settle(result, cancel),
         result.state \in Settled,
         result.state = "completed" => handler = "completed" /\ result.artifacts = {"data", "summary"},
         result.state = "input-required" => handler = "input-required" /\ result.question,
         result.state \in {"failed", "rejected"} => result.kind # "none"
  PROVE  CallInv'
<1>1. ToldTheTruth' /\ ActsOnSettled'
  BY DEF Settle, ToldTheTruth, ActsOnSettled
<1>2. CallShape' /\ (Untouched \/ Refused \/ (Started /\ Concluded))'
  BY DEF Settle, CallInv, CallShape, Untouched, Refused, Started, Concluded, Due
<1> QED
  BY <1>1, <1>2 DEF CallInv

LEMMA FailureKeeps ==
  ASSUME CallInv, NEW kind, kind # "none", NEW cancel, Settle(Failure(kind), cancel)
  PROVE  CallInv'
<1>1. Failure(kind).state = "failed" /\ Failure(kind).kind = kind
  BY DEF Failure
<1> QED
  BY <1>1, SettleKeeps DEF Settled

LEMMA ReceiveKeeps == CallInv /\ Receive => CallInv'
<1> SUFFICES ASSUME CallInv, Receive PROVE CallInv'
  OBVIOUS
<1>1. CASE task.state \in Settled
  BY <1>1, ReadIsTrue, SettleKeeps DEF Receive, IsSettled
<1>2. CASE task.state \notin Settled
  BY <1>2, FailureKeeps DEF Receive, IsSettled
<1> QED
  BY <1>1, <1>2

LEMMA CallKeeps == CallInv /\ [CallNext]_callVars => CallInv'
<1> SUFFICES ASSUME CallInv, [CallNext]_callVars PROVE CallInv'
  OBVIOUS
<1>1. ASSUME TimeOut \/ Unreached PROVE CallInv'
  BY <1>1, FailureKeeps DEF TimeOut, Unreached
<1>2. CASE UNCHANGED callVars
  BY <1>2 DEF callVars, CallInv, CallShape, Untouched, Refused, Started, Concluded, Due, ToldTheTruth,
              ActsOnSettled, Waiting
<1> QED
  BY <1>1, <1>2, AdmitKeeps, HandleKeeps, AddArtifactKeeps, FinishKeeps, CancelKeeps, ReceiveKeeps
  DEF CallNext

LEMMA CallInvTells == CallInv => CallIsTold
<1> SUFFICES ASSUME CallInv PROVE RefusedNeverRuns
  BY DEF CallIsTold, CallInv
<1>1. handler # "idle" => Refusal(wire) = "none" /\ wire \in WireRequests
  BY DEF CallInv, CallShape, Untouched, Refused, Started
<1> QED
  BY <1>1, RefusalBounds DEF RefusedNeverRuns

\* Whatever the request and the limits, and however publication, deadline and cancellation
\* interleave, a caller acts on a final state that tells what its callee did, and what is
\* refused never runs (client.py:198-300, executors.py:180-330).
THEOREM CallTells == CallInit /\ [][CallNext]_callVars => []CallIsTold
<1>1. CallInit /\ [][CallNext]_callVars => []CallInv
  BY CallInit_Inv, CallKeeps, PTL
<1> QED
  BY <1>1, CallInvTells, PTL

-----------------------------------------------------------------------------
(* The pool: calls inside calls, each on a thread of its own.              *)

Paths == {j \in Seq(PoolTurns \cup Nat) : Len(j) >= 1 /\ j[1] \in PoolTurns}
Jobs  == [at : {"queued", "running", "done", "dropped"}, awaited : BOOLEAN]

PoolShape == /\ DOMAIN jobs \subseteq Paths /\ IsFiniteSet(DOMAIN jobs)
             /\ \A j \in DOMAIN jobs : jobs[j] \in Jobs /\ Len(j) <= Depth
             /\ queue \in Seq(DOMAIN jobs)

\* A call that is waited for was made by a handler that still runs, ...
CallersRun == \A j \in DOMAIN jobs : jobs[j].awaited =>
                 /\ jobs[j].at \in {"queued", "running"}
                 /\ Len(j) > 1 => Front(j) \in OnThread
\* ... a handler waits for one call at a time, ...
OneAtATime == \A j, k \in DOMAIN jobs :
    (jobs[j].awaited /\ jobs[k].awaited /\ Len(j) > 1 /\ Len(k) > 1 /\ Front(j) = Front(k)) => j = k
\* ... and the calls of a handler are numbered as they are made: a new one has a name of its own.
Numbered == \A j \in DOMAIN jobs : Len(j) > 1 =>
                 j[Len(j)] \in Nat /\ j[Len(j)] <= Cardinality(Callees(Front(j)))

PoolInv == PoolShape /\ CallersRun /\ OneAtATime /\ Numbered

LEMMA SetJob ==
  ASSUME NEW job, NEW at, NEW awaited, Set(job, at, awaited)
  PROVE  /\ DOMAIN jobs' = DOMAIN jobs \cup {job}
         /\ \A j \in DOMAIN jobs' :
               jobs'[j] = IF j = job THEN [at |-> at, awaited |-> awaited] ELSE jobs[j]
BY DEF Set

LEMMA FrontFacts ==
  ASSUME NEW j \in Paths, Len(j) > 1
  PROVE  /\ Front(j) \in Paths /\ Len(Front(j)) = Len(j) - 1
         /\ TurnOf(Front(j)) = TurnOf(j)
         /\ \A i \in 1..Len(j) - 1 : Front(j)[i] = j[i]
<1> DEFINE S == PoolTurns \cup Nat
<1>1. j \in Seq(S) /\ Len(j) \in Nat /\ \A i \in 1..Len(j) - 1 : j[i] \in S
  BY ElementOfSeq, LenProperties DEF Paths
<1>2. /\ Front(j) \in Seq(S) /\ Len(Front(j)) = Len(j) - 1
      /\ \A i \in 1..Len(j) - 1 : Front(j)[i] = j[i]
  BY <1>1, SubSeqProperties DEF Front
<1> QED
  BY <1>1, <1>2 DEF Paths, TurnOf

LEMMA CalleeFacts ==
  ASSUME NEW j \in Paths, NEW n \in Nat
  PROVE  /\ Append(j, n) \in Paths /\ Len(Append(j, n)) = Len(j) + 1 /\ Len(j) \in Nat
         /\ Front(Append(j, n)) = j /\ Append(j, n)[Len(j) + 1] = n
<1> DEFINE S == PoolTurns \cup Nat
           p == Append(j, n)
<1>1. j \in Seq(S) /\ Len(j) \in Nat /\ Len(j) >= 1 /\ j[1] \in PoolTurns /\ n \in S
  BY LenProperties DEF Paths
<1>2. /\ p \in Seq(S) /\ Len(p) = Len(j) + 1
      /\ \A i \in 1..Len(j) : p[i] = j[i]
      /\ p[Len(j) + 1] = n
  BY <1>1, AppendProperties
<1>3. p \in Paths
  <2>1. p[1] = j[1] /\ Len(p) >= 1
    BY <1>1, <1>2
  <2> HIDE DEF p
  <2> QED
    BY <1>1, <1>2, <2>1 DEF Paths
<1>4. Front(p) \in Seq(S) /\ Len(Front(p)) = Len(j) /\ \A i \in 1..Len(j) : Front(p)[i] = j[i]
  <2> HIDE DEF p
  <2>1. Len(p) > 1 /\ Len(p) - 1 = Len(j)
    BY <1>1, <1>2
  <2>2. Front(p) \in Paths /\ Len(Front(p)) = Len(j) /\ \A i \in 1..Len(j) : Front(p)[i] = p[i]
    BY <1>3, <2>1, FrontFacts
  <2>3. Front(p) \in Seq(S)
    BY <2>2 DEF Paths
  <2> QED
    BY <1>2, <2>2, <2>3
<1>5. Front(p) = j
  <2> HIDE DEF p
  <2> QED
    BY <1>1, <1>4, SeqEqual
<1> QED
  BY <1>1, <1>2, <1>3, <1>5

LEMMA PoolInit_Inv == PoolInit => PoolInv
<1> SUFFICES ASSUME PoolInit PROVE PoolInv
  OBVIOUS
<1>1. DOMAIN jobs = {} /\ queue = <<>>
  BY DEF PoolInit
<1>2. queue \in Seq(DOMAIN jobs)
  BY <1>1, EmptySeq
<1>3. IsFiniteSet(DOMAIN jobs)
  BY <1>1, FS_EmptySet
<1> QED
  BY <1>1, <1>2, <1>3 DEF PoolInv, PoolShape, CallersRun, OneAtATime, Numbered

\* A known call changes: its place, and that it may no longer be waited for.  Whoever leaves its
\* thread waits for nobody.
LEMMA ChangeKeeps ==
  ASSUME PoolInv, NEW job \in DOMAIN jobs, NEW at \in {"queued", "running", "done", "dropped"},
         NEW awaited \in BOOLEAN, Set(job, at, awaited), queue' \in Seq(DOMAIN jobs),
         awaited => jobs[job].awaited /\ at \in {"queued", "running"},
         job \in OnThread /\ at # "running" => ~Waits(job)
  PROVE  PoolInv'
<1>1. /\ DOMAIN jobs' = DOMAIN jobs
      /\ \A j \in DOMAIN jobs : jobs'[j] = IF j = job THEN [at |-> at, awaited |-> awaited] ELSE jobs[j]
  <2>1. Set(job, at, awaited)
    OBVIOUS
  <2>2. /\ DOMAIN jobs' = DOMAIN jobs \cup {job}
        /\ \A j \in DOMAIN jobs' : jobs'[j] = IF j = job THEN [at |-> at, awaited |-> awaited] ELSE jobs[j]
    BY ONLY <2>1 DEF Set
  <2>3. DOMAIN jobs \cup {job} = DOMAIN jobs
    OBVIOUS
  <2> QED BY ONLY <2>2, <2>3
<1>2. [at |-> at, awaited |-> awaited] \in Jobs
  BY DEF Jobs
<1>3. PoolShape'
  BY <1>1, <1>2 DEF PoolInv, PoolShape
<1>4. \A q : Callees(q)' = Callees(q)
  BY <1>1 DEF Callees
<1>5. \A j \in DOMAIN jobs : jobs'[j].awaited => jobs[j].awaited /\ jobs'[j].at \in {"queued", "running"}
  BY <1>1 DEF PoolInv, CallersRun
<1>6. ASSUME NEW j \in DOMAIN jobs, jobs'[j].awaited, Len(j) > 1
      PROVE  Front(j) \in OnThread'
  <2>1. Front(j) \in OnThread /\ Front(j) \in DOMAIN jobs /\ jobs[Front(j)].at = "running"
    BY <1>5, <1>6 DEF PoolInv, CallersRun, OnThread
  <2>2. Front(j) = job => Waits(job)
    <3>1. ASSUME Front(j) = job PROVE j \in Callees(job)
      <4>1. Len(j) \in Nat /\ Len(job) = Len(j) - 1
        BY <3>1, <1>6, FrontFacts, LenProperties DEF PoolInv, PoolShape, Paths
      <4> QED
        BY <4>1, <3>1 DEF Callees
    <3> QED
      BY <3>1, <1>5, <1>6 DEF Waits
  <2> QED
    BY <2>1, <2>2, <1>1 DEF OnThread
<1>7. CallersRun'
  BY <1>1, <1>5, <1>6 DEF CallersRun
<1>8. OneAtATime'
  BY <1>1, <1>5 DEF PoolInv, OneAtATime
<1>9. Numbered'
  BY <1>1, <1>4 DEF PoolInv, Numbered
<1> QED
  BY <1>3, <1>7, <1>8, <1>9 DEF PoolInv

\* A new call, of a user or of a handler that waits for nobody.
LEMMA EnqueueKeeps ==
  ASSUME PoolInv, NEW job \in Paths, job \notin DOMAIN jobs, Enqueue(job), Len(job) <= Depth,
         Len(job) > 1 => /\ Front(job) \in OnThread /\ ~Waits(Front(job))
                         /\ job[Len(job)] = Cardinality(Callees(Front(job))) + 1
  PROVE  PoolInv'
<1> DEFINE new == [at |-> "queued", awaited |-> TRUE]
<1>1. /\ DOMAIN jobs' = DOMAIN jobs \cup {job}
      /\ \A j \in DOMAIN jobs' : jobs'[j] = IF j = job THEN new ELSE jobs[j]
      /\ queue' = Append(queue, job)
  <2>1. Set(job, "queued", TRUE) /\ queue' = Append(queue, job)
    BY DEF Enqueue
  <2>2. /\ DOMAIN jobs' = DOMAIN jobs \cup {job}
        /\ \A j \in DOMAIN jobs' : jobs'[j] = IF j = job THEN [at |-> "queued", awaited |-> TRUE] ELSE jobs[j]
    BY ONLY <2>1 DEF Set
  <2> QED BY ONLY <2>1, <2>2
<1>2. new \in Jobs /\ new.awaited /\ new.at = "queued"
  BY DEF Jobs
<1> HIDE DEF new
<1>3. IsFiniteSet(DOMAIN jobs')
  BY <1>1, FS_AddElement DEF PoolInv, PoolShape
<1>4. queue' \in Seq(DOMAIN jobs')
  <2>1. queue \in Seq(DOMAIN jobs')
    BY <1>1, SeqMonotonic DEF PoolInv, PoolShape
  <2>2. job \in DOMAIN jobs'
    BY <1>1
  <2> QED
    BY <1>1, <2>1, <2>2, AppendProperties
<1>5. PoolShape'
  BY <1>1, <1>2, <1>3, <1>4 DEF PoolInv, PoolShape
<1>6. OnThread' = OnThread
  BY <1>1, <1>2 DEF OnThread
<1>7. CallersRun'
  <2>1. ASSUME NEW j \in DOMAIN jobs', jobs'[j].awaited
        PROVE  jobs'[j].at \in {"queued", "running"} /\ (Len(j) > 1 => Front(j) \in OnThread)
    <3>1. CASE j = job
      BY <3>1, <1>1, <1>2
    <3>2. CASE j # job
      BY <3>2, <2>1, <1>1 DEF PoolInv, CallersRun
    <3> QED
      BY <3>1, <3>2
  <2> QED
    BY <2>1, <1>6 DEF CallersRun
<1>8. \A j \in DOMAIN jobs : Len(j) > 1 /\ jobs[j].awaited /\ Len(job) > 1 => Front(j) # Front(job)
  <2>1. ASSUME NEW j \in DOMAIN jobs, Len(j) > 1, jobs[j].awaited, Len(job) > 1, Front(j) = Front(job)
        PROVE  FALSE
    <3>1. Len(j) \in Nat /\ Len(Front(j)) = Len(j) - 1
      BY <2>1, FrontFacts, LenProperties DEF PoolInv, PoolShape, Paths
    <3>2. j \in Callees(Front(job))
      BY <3>1, <2>1 DEF Callees
    <3> QED
      BY <3>2, <2>1 DEF Waits
  <2> QED
    BY <2>1
<1>9. OneAtATime'
  <2> SUFFICES ASSUME NEW j \in DOMAIN jobs', NEW k \in DOMAIN jobs', jobs'[j].awaited, jobs'[k].awaited,
                      Len(j) > 1, Len(k) > 1, Front(j) = Front(k)
               PROVE  j = k
    BY DEF OneAtATime
  <2>1. CASE j = job \/ k = job
    BY <2>1, <1>1, <1>8
  <2>2. CASE j # job /\ k # job
    BY <2>2, <1>1 DEF PoolInv, OneAtATime
  <2> QED
    BY <2>1, <2>2
<1>10. ASSUME NEW j \in DOMAIN jobs, Len(j) > 1
       PROVE  /\ j[Len(j)] \in Nat
              /\ j[Len(j)] <= Cardinality(Callees(Front(j))')
  <2> DEFINE q == Front(j)
  <2>1. Callees(q)' = Callees(q) \/ Callees(q)' = Callees(q) \cup {job}
    BY <1>1 DEF Callees
  <2>2. IsFiniteSet(Callees(q)) /\ Cardinality(Callees(q)) \in Nat
    BY FS_Subset, FS_CardinalityType DEF PoolInv, PoolShape, Callees
  <2>3. j[Len(j)] \in Nat /\ j[Len(j)] <= Cardinality(Callees(q))
    BY <1>10 DEF PoolInv, Numbered
  <2>4. Cardinality(Callees(q) \cup {job}) \in Nat /\ Cardinality(Callees(q) \cup {job}) >= Cardinality(Callees(q))
    <3> DEFINE C == Callees(q)
    <3>1. IsFiniteSet(C) /\ Cardinality(C) \in Nat
      BY <2>2
    <3> HIDE DEF C
    <3>2. Cardinality(C \cup {job}) = IF job \in C THEN Cardinality(C) ELSE Cardinality(C) + 1
      BY <3>1, FS_AddElement
    <3>3. Cardinality(C \cup {job}) \in Nat /\ Cardinality(C \cup {job}) >= Cardinality(C)
      BY <3>1, <3>2
    <3> QED
      BY <3>3 DEF C
  <2> HIDE DEF q
  <2>5. Cardinality(Callees(q)') >= Cardinality(Callees(q)) /\ Cardinality(Callees(q)') \in Nat
    <3>1. CASE Callees(q)' = Callees(q)
      <4>1. Cardinality(Callees(q)) >= Cardinality(Callees(q))
        BY ONLY <2>2
      <4> QED BY ONLY <2>2, <3>1, <4>1, Zenon
    <3>2. CASE Callees(q)' = Callees(q) \cup {job}
      BY ONLY <2>4, <3>2, Zenon
    <3> QED BY <2>1, <3>1, <3>2
  <2> QED
    BY <2>2, <2>3, <2>5 DEF q
<1>11. ASSUME Len(job) > 1
       PROVE  job[Len(job)] \in Nat /\ job[Len(job)] <= Cardinality(Callees(Front(job))')
  <2> DEFINE q == Front(job)
  <2>1. Len(job) \in Nat /\ Len(q) = Len(job) - 1
    BY <1>11, FrontFacts, LenProperties DEF Paths
  <2>2. Callees(q)' = Callees(q) \cup {job} /\ job \notin Callees(q)
    BY <1>1, <2>1 DEF Callees
  <2>3. IsFiniteSet(Callees(q)) /\ Cardinality(Callees(q)) \in Nat
    BY FS_Subset, FS_CardinalityType DEF PoolInv, PoolShape, Callees
  <2>4. job[Len(job)] = Cardinality(Callees(q)) + 1
    BY <1>11
  <2> HIDE DEF q
  <2>5. Cardinality(Callees(q)') = Cardinality(Callees(q)) + 1
    BY <2>2, <2>3, FS_AddElement
  <2> QED
    BY <2>3, <2>4, <2>5 DEF q
<1>12. Numbered'
  <2> SUFFICES ASSUME NEW j \in DOMAIN jobs', Len(j) > 1
               PROVE  /\ j[Len(j)] \in Nat
                      /\ j[Len(j)] <= Cardinality(Callees(Front(j))')
    BY DEF Numbered
  <2> QED
    BY <1>1, <1>10, <1>11
<1> QED
  BY <1>5, <1>7, <1>9, <1>12 DEF PoolInv

LEMMA PoolKeeps == PoolInv /\ [PoolNext]_poolVars => PoolInv'
<1> SUFFICES ASSUME PoolInv, [PoolNext]_poolVars PROVE PoolInv'
  OBVIOUS
<1>1. ASSUME NEW t \in PoolTurns, UserAsks(t) PROVE PoolInv'
  <2> DEFINE p == <<t>>
  <2>1. p \in Seq(PoolTurns \cup Nat) /\ Len(p) = 1 /\ p[1] = t
    OBVIOUS
  <2>2. p \notin DOMAIN jobs /\ Enqueue(p)
    BY <1>1 DEF UserAsks
  <2> HIDE DEF p
  <2>3. p \in Paths /\ ~(Len(p) > 1)
    BY <2>1 DEF Paths
  <2>4. Len(p) <= Depth
    BY <2>1, PoolAssumption
  <2> QED
    BY <2>2, <2>3, <2>4, EnqueueKeeps
<1>2. ASSUME NEW job \in DOMAIN jobs, CallsAgent(job) PROVE PoolInv'
  <2> DEFINE n == Cardinality(Callees(job)) + 1
             p == Append(job, n)
  <2>1. IsFiniteSet(Callees(job)) /\ n \in Nat /\ n = Cardinality(Callees(job)) + 1
        /\ Cardinality(Callees(job)) \in Nat
    BY FS_Subset, FS_CardinalityType DEF PoolInv, PoolShape, Callees
  <2>2. job \in Paths /\ Enqueue(p) /\ job \in OnThread /\ ~Waits(job) /\ Len(job) < Depth
    BY <1>2 DEF CallsAgent, PoolInv, PoolShape
  <2> HIDE DEF n
  <2>3. p \in Paths /\ Len(p) = Len(job) + 1 /\ Front(p) = job /\ p[Len(p)] = n /\ Len(job) \in Nat
        /\ Len(job) >= 1
    BY <2>1, <2>2, CalleeFacts DEF Paths
  <2> HIDE DEF p
  <2>4. Len(p) > 1
    BY <2>3
  <2>5. p \notin DOMAIN jobs
    <3>1. p \in DOMAIN jobs => n <= Cardinality(Callees(job))
      BY <2>3, <2>4 DEF PoolInv, Numbered
    <3> QED
      BY <3>1, <2>1
  <2>6. Len(p) <= Depth
    BY <2>2, <2>3, PoolAssumption
  <2>7. p[Len(p)] = Cardinality(Callees(Front(p))) + 1
    BY <2>1, <2>3
  <2> QED
    BY <2>2, <2>3, <2>5, <2>6, <2>7, EnqueueKeeps
<1>3. ASSUME NEW job \in DOMAIN jobs, HandlerReturns(job) PROVE PoolInv'
  BY <1>3, ChangeKeeps DEF HandlerReturns, PoolInv, PoolShape
<1>4. ASSUME NEW job \in DOMAIN jobs, GiveUp(job) PROVE PoolInv'
  <2>1. queue \in Seq(DOMAIN jobs) /\ jobs[job].at \in {"queued", "running", "done", "dropped"}
    BY DEF PoolInv, PoolShape, Jobs
  <2>2. CASE Set(job, jobs[job].at, FALSE) /\ UNCHANGED queue
    BY <2>1, <2>2, ChangeKeeps DEF OnThread
  <2>3. CASE /\ jobs[job].at = "queued"
             /\ Set(job, "dropped", FALSE)
             /\ \E n \in DOMAIN queue : queue[n] = job /\ queue' = RemoveAt(queue, n)
    <3> PICK n \in DOMAIN queue : queue' = RemoveAt(queue, n)
      BY <2>3
    <3>1. Len(queue) \in Nat /\ n \in 1..Len(queue) /\ \A i \in 1..Len(queue) : queue[i] \in DOMAIN jobs
      BY <2>1, LenProperties, ElementOfSeq
    <3>2. SubSeq(queue, 1, n - 1) \in Seq(DOMAIN jobs) /\ SubSeq(queue, n + 1, Len(queue)) \in Seq(DOMAIN jobs)
      BY <3>1, SubSeqProperties
    <3>3. queue' \in Seq(DOMAIN jobs)
      BY <3>2, ConcatProperties DEF RemoveAt
    <3> QED
      BY <3>3, <2>3, ChangeKeeps DEF OnThread
  <2> QED
    BY <1>4, <2>2, <2>3 DEF GiveUp
<1>5. ASSUME TakeThread PROVE PoolInv'
  <2>1. queue \in Seq(DOMAIN jobs) /\ queue # <<>>
    BY <1>5 DEF TakeThread, PoolInv, PoolShape
  <2>2. Head(queue) \in DOMAIN jobs /\ Tail(queue) \in Seq(DOMAIN jobs)
    BY <2>1, HeadTailProperties
  <2>3. jobs[Head(queue)].awaited \in BOOLEAN
    BY <2>2 DEF PoolInv, PoolShape, Jobs
  <2> QED
    BY <2>2, <2>3, <1>5, ChangeKeeps DEF TakeThread
<1>6. CASE UNCHANGED poolVars
  BY <1>6 DEF poolVars, PoolInv, PoolShape, CallersRun, OneAtATime, Numbered, Callees, OnThread
<1> QED
  BY <1>1, <1>2, <1>3, <1>4, <1>5, <1>6 DEF PoolNext

\* Of the calls of one turn that are nested equally deep, one is on a thread: the shallowest two
\* that were not one would have one caller, or would both be the user's.
LEMMA OnePerDepth ==
  ASSUME PoolInv, \A t \in PoolTurns : ~Orphaned(t)
  PROVE  \A j, k \in OnThread : TurnOf(j) = TurnOf(k) /\ Len(j) = Len(k) => j = k
<1> DEFINE Twins(n) == \E j, k \in OnThread :
                          TurnOf(j) = TurnOf(k) /\ Len(j) = n /\ Len(k) = n /\ j # k
           Bad == {n \in Nat : Twins(n)}
<1>1. \A j \in OnThread : j \in DOMAIN jobs /\ j \in Paths /\ Len(j) \in Nat /\ Len(j) >= 1
  BY LenProperties DEF PoolInv, PoolShape, OnThread, Paths
<1>2. \A j \in OnThread : jobs[j].awaited
  BY <1>1 DEF Orphaned, JobsOf, OnThread, Paths, TurnOf
<1>3. SUFFICES ASSUME Bad # {} PROVE FALSE
  BY <1>1, <1>3
<1>4. PICK n \in Bad : \A m \in Bad : ~(<<m, n>> \in OpToRel(<, Nat))
  <2> HIDE DEF Bad
  <2>1. Bad \subseteq Nat
    BY DEF Bad
  <2> QED
    BY <1>3, <2>1, NatLessThanWellFounded, WFMin
<1>5. n \in Nat /\ \A m \in Nat : m < n => ~Twins(m)
  BY <1>4 DEF OpToRel
<1> PICK j \in OnThread, k \in OnThread : TurnOf(j) = TurnOf(k) /\ Len(j) = n /\ Len(k) = n /\ j # k
  BY <1>4
<1> HIDE DEF Bad
<1>6. CASE n = 1
  <2>1. j \in Seq(PoolTurns \cup Nat) /\ k \in Seq(PoolTurns \cup Nat) /\ j[1] = k[1]
    BY <1>1 DEF Paths, TurnOf
  <2>2. \A i \in 1..Len(j) : j[i] = k[i]
    BY <1>6, <2>1
  <2>3. j = k
    BY <2>1, <2>2, SeqEqual
  <2> QED
    BY <2>3
<1>7. CASE n > 1
  <2>1. /\ Front(j) \in OnThread /\ Front(k) \in OnThread
        /\ Len(Front(j)) = n - 1 /\ Len(Front(k)) = n - 1
        /\ TurnOf(Front(j)) = TurnOf(Front(k))
    BY <1>1, <1>2, <1>7, FrontFacts DEF PoolInv, CallersRun
  <2>2. Front(j) = Front(k)
    BY <2>1, <1>5, <1>7
  <2> QED
    BY <2>2, <1>1, <1>2, <1>7 DEF PoolInv, OneAtATime
<1> QED
  BY <1>1, <1>5, <1>6, <1>7

LEMMA StuckIsWide == PoolInv => StuckTakesManyTurns
<1> SUFFICES ASSUME PoolInv, Stuck, \A t \in PoolTurns : ~Orphaned(t)
             PROVE  (Depth - 1) * Cardinality({TurnOf(j) : j \in OnThread}) >= Threads
  BY DEF StuckTakesManyTurns
<1> DEFINE T == {TurnOf(j) : j \in OnThread}
           D == 1..Depth - 1
           f == [j \in OnThread |-> <<TurnOf(j), Len(j)>>]
           g == [j \in OnThread |-> TurnOf(j)]
<1>1. IsFiniteSet(OnThread) /\ Cardinality(OnThread) = Threads
  BY FS_Subset DEF Stuck, PoolInv, PoolShape, OnThread
<1>2. IsFiniteSet(T) /\ Cardinality(T) \in Nat
  <2>1. g \in Surjection(OnThread, T)
    BY DEF Surjection
  <2> HIDE DEF g, T
  <2> QED
    BY <1>1, <2>1, FS_Surjection, FS_CardinalityType
<1>3. IsFiniteSet(D) /\ Cardinality(D) = Depth - 1
  <2>1. Depth \in Nat /\ Depth >= 1 /\ Depth - 1 \in Int /\ 1 \in Int
    BY PoolAssumption
  <2> QED
    BY <2>1, FS_Interval
<1>4. \A j \in OnThread : Len(j) \in D
  <2> SUFFICES ASSUME NEW j \in OnThread PROVE Len(j) \in D
    OBVIOUS
  <2> PICK k \in Callees(j) : TRUE
    BY DEF Stuck, Waits
  <2>1. Len(k) = Len(j) + 1 /\ Len(k) <= Depth /\ Len(j) \in Nat /\ Len(j) >= 1
    BY LenProperties DEF Callees, PoolInv, PoolShape, OnThread, Paths
  <2> QED
    BY <2>1, PoolAssumption
<1>5. f \in Injection(OnThread, T \X D)
  <2>1. f \in [OnThread -> T \X D]
    BY <1>4
  <2>2. \A j, k \in OnThread : f[j] = f[k] => j = k
    BY OnePerDepth
  <2> QED
    BY <2>1, <2>2 DEF Injection, IsInjective
<1>6. IsFiniteSet(T \X D) /\ Cardinality(T \X D) = Cardinality(T) * Cardinality(D)
  <2> HIDE DEF T, D
  <2> QED
    BY <1>2, <1>3, FS_Product
<1>7. Cardinality(OnThread) <= Cardinality(T \X D)
  <2> HIDE DEF T, D, f
  <2> QED
    BY <1>5, <1>6, FS_Injection
<1> HIDE DEF T, D
<1>8. Depth - 1 \in Nat
  BY PoolAssumption
<1>9. \A a, b \in Nat : a * b = b * a
  OBVIOUS
<1>10. Threads <= Cardinality(T) * (Depth - 1) /\ Cardinality(T) * (Depth - 1) = (Depth - 1) * Cardinality(T)
  BY <1>1, <1>2, <1>3, <1>6, <1>7, <1>8, <1>9
<1>11. Threads \in Nat /\ (Depth - 1) * Cardinality(T) \in Nat
  BY <1>2, <1>8, PoolAssumption
<1> QED
  BY <1>10, <1>11 DEF T

\* For any number of threads, turns and calls, and however deep agents call one another: while
\* no call was given up, the pool comes to a halt only with as many turns at once as it takes to
\* fill it with waiting handlers (runtime.py:59-63).
THEOREM PoolTakesManyTurns == PoolInit /\ [][PoolNext]_poolVars => []StuckTakesManyTurns
<1>1. PoolInit /\ [][PoolNext]_poolVars => []PoolInv
  BY PoolInit_Inv, PoolKeeps, PTL
<1> QED
  BY <1>1, StuckIsWide, PTL

-----------------------------------------------------------------------------
(* Contracts on the wire.  One field at a time: what a sender may put into *)
(* it is read back as it was, a passage but for its line numbers; so is    *)
(* what a receiver puts in for a field it was not sent, and a requirement  *)
(* can travel on.                                                          *)

WireSpec == WireInit /\ [][WireNext]_wireVars

\* Whoever has a contract has one whose fields are what may be sent, whichever way it came.
WireInv ==
  /\ IsContract(contract)
  /\ received = Nothing \/ IsContract([contract EXCEPT !.data = received])
  /\ ArrivesAsSent
  /\ NoPassByAccident
  /\ ToolsArrive

AsKinds == {"text", "flag", "int", "raw", "list", "scope", "decision", "params", "passages"}

\* What the readers of the three contracts have in common.
LEMMA RequirementReader ==
  ASSUME NEW f \in DOMAIN RequirementFields
  PROVE  RequirementFields[f].as \in AsKinds /\ (RequirementFields[f].as = "passages" => f = "citations")
<1>1. DOMAIN RequirementFields = {"task", "answerable", "fields", "field_notes", "rows", "row_reason", "row_quote", "grounded",
                                       "tenors", "curve_family", "temporal", "decision", "is_hypothesis", "candidate_fields",
                                       "open_questions", "assumptions", "limitations", "calculation", "calculation_params",
                                       "unanswerable_reason", "blocked_by", "citations", "warnings"}
  BY DEF RequirementFields
<1>2. /\ RequirementFields.task.as = "text" /\ RequirementFields.answerable.as = "flag"
      /\ RequirementFields.fields.as = "list" /\ RequirementFields.field_notes.as = "list"
      /\ RequirementFields.rows.as = "int" /\ RequirementFields.row_reason.as = "text"
      /\ RequirementFields.row_quote.as = "raw" /\ RequirementFields.grounded.as = "flag"
      /\ RequirementFields.tenors.as = "list" /\ RequirementFields.curve_family.as = "text"
      /\ RequirementFields.temporal.as = "scope" /\ RequirementFields.decision.as = "decision"
      /\ RequirementFields.is_hypothesis.as = "flag" /\ RequirementFields.candidate_fields.as = "list"
      /\ RequirementFields.open_questions.as = "list" /\ RequirementFields.assumptions.as = "list"
      /\ RequirementFields.limitations.as = "list" /\ RequirementFields.calculation.as = "raw"
      /\ RequirementFields.calculation_params.as = "params"
      /\ RequirementFields.unanswerable_reason.as = "raw" /\ RequirementFields.blocked_by.as = "text"
      /\ RequirementFields.citations.as = "passages" /\ RequirementFields.warnings.as = "list"
  BY DEF RequirementFields, Words, YesNo, Integer, Verbatim, Texts, Scope, Decided, Params, Passages
<1>. QED BY <1>1, <1>2 DEF AsKinds
LEMMA ServeResponseReader ==
  ASSUME NEW f \in DOMAIN ServeResponseFields
  PROVE  ServeResponseFields[f].as \in AsKinds \ {"passages"}
<1>1. DOMAIN ServeResponseFields = {"feasible", "available_fields", "unsupported_fields", "unnecessary_fields",
                                         "unsupported_calculation", "available_tools", "max_rows_available", "temporal_constraints",
                                         "constraints", "counter_proposal", "answered_questions", "open_questions", "notes"}
  BY DEF ServeResponseFields
<1>2. /\ ServeResponseFields.feasible.as = "flag" /\ ServeResponseFields.available_fields.as = "list"
      /\ ServeResponseFields.unsupported_fields.as = "list"
      /\ ServeResponseFields.unnecessary_fields.as = "list"
      /\ ServeResponseFields.unsupported_calculation.as = "raw"
      /\ ServeResponseFields.available_tools.as = "list" /\ ServeResponseFields.max_rows_available.as = "int"
      /\ ServeResponseFields.temporal_constraints.as = "list" /\ ServeResponseFields.constraints.as = "list"
      /\ ServeResponseFields.counter_proposal.as = "text"
      /\ ServeResponseFields.answered_questions.as = "list" /\ ServeResponseFields.open_questions.as = "list"
      /\ ServeResponseFields.notes.as = "list"
  BY DEF ServeResponseFields, Words, YesNo, Integer, Verbatim, Texts, Scope, Decided, Params, Passages
<1>. QED BY <1>1, <1>2 DEF AsKinds
LEMMA IntentReader ==
  ASSUME NEW f \in DOMAIN IntentFields
  PROVE  IntentFields[f].as \in AsKinds \ {"passages"}
<1>1. DOMAIN IntentFields = {"route", "reasoning", "task", "direct_answer", "requested_fields", "requested_rows",
                                  "question", "options"}
  BY DEF IntentFields
<1>2. /\ IntentFields.route.as = "text" /\ IntentFields.reasoning.as = "text"
      /\ IntentFields.task.as = "text" /\ IntentFields.direct_answer.as = "text"
      /\ IntentFields.requested_fields.as = "list" /\ IntentFields.requested_rows.as = "int"
      /\ IntentFields.question.as = "text" /\ IntentFields.options.as = "list"
  BY DEF IntentFields, Words, YesNo, Integer, Verbatim, Texts, Scope, Decided, Params, Passages
<1>. QED BY <1>1, <1>2 DEF AsKinds
LEMMA ReadersKnow ==
  ASSUME NEW kind \in Kinds_, NEW f \in DOMAIN Reader[kind]
  PROVE  /\ Reader[kind][f].as \in AsKinds
         /\ Reader[kind][f].as = "passages" => f = "citations"
<1>1. kind \in {"requirement", "serve_response", "intent"}
  BY DEF Kinds_, Reader
<1>2. /\ Reader["requirement"] = RequirementFields
      /\ Reader["serve_response"] = ServeResponseFields /\ Reader["intent"] = IntentFields
  BY DEF Reader
<1>. QED BY <1>1, <1>2, RequirementReader, ServeResponseReader, IntentReader

\* A value by itself: JSON changes whole numbers only, and a count only in the field of a count.
LEMMA WireKeeps == ASSUME NEW a, a = None \/ IsText(a) \/ IsFloat(a) PROVE WireAtom(a) = a
<1>1. a.is # "int"
  BY DEF None, IsText, IsFloat
<1>. QED BY ONLY <1>1 DEF WireAtom
LEMMA WireFloats == ASSUME NEW a, IsInt(a) PROVE WireAtom(a) = Number(a.n, TRUE)
BY DEF IsInt, WireAtom
LEMMA CountKeeps ==
  ASSUME NEW a, NEW k, a = None \/ IsText(a) \/ IsInt(a) \/ k \notin COUNT_KEYS PROVE CountAtom(k, a) = a
<1>1. k \notin COUNT_KEYS \/ a.is # "float"
  BY DEF None, IsText, IsInt
<1>. QED BY ONLY <1>1 DEF CountAtom
LEMMA CountRestores ==
  ASSUME NEW a, NEW k \in COUNT_KEYS, IsInt(a) PROVE CountAtom(k, Number(a.n, TRUE)) = a
<1>1. Number(a.n, TRUE).is = "float" /\ Number(a.n, TRUE).whole = TRUE /\ Number(a.n, TRUE).n = a.n
  BY DEF Number
<1>2. AsInt(Number(a.n, TRUE), Number(a.n, TRUE)) = Whole(a.n)
  BY ONLY <1>1 DEF AsInt
<1>. QED BY <1>1, <1>2 DEF IsInt, CountAtom

LEMMA SinglesAreRead ==
  ASSUME NEW how, NEW v, NEW f, how.as \in {"text", "flag", "raw", "decision"}, Fits(how, v)
  PROVE  Read(how, OnTheWire(v)) = v /\ Read(how, restore_counts(f, OnTheWire(v))) = v
<1>1. v.is \in {"none", "text", "bool"}
  <2>1. CASE how.as = "text"
    BY <2>1 DEF Fits, IsText
  <2>2. CASE how.as = "flag"
    BY <2>2 DEF Fits
  <2>3. CASE how.as \in {"raw", "decision"}
    <3>1. v = None \/ IsText(v)
      BY <2>3 DEF Fits
    <3>. QED BY <3>1 DEF IsText, None
  <2>. QED BY <2>1, <2>2, <2>3
<1>2. OnTheWire(v) = v /\ restore_counts(f, v) = v
  BY <1>1 DEF OnTheWire, WireEntry, WireAtom, restore_counts, CountEntry, CountAtom
<1>3. Read(how, v) = v
  <2>1. CASE how.as = "text"
    BY <2>1 DEF Fits, Read, IsText
  <2>2. CASE how.as = "flag"
    BY <2>2 DEF Fits, Read
  <2>3. CASE how.as = "raw"
    BY <2>3 DEF Read
  <2>4. CASE how.as = "decision"
    BY <2>4 DEF Fits, Read, IsText, None
  <2>. QED BY <2>1, <2>2, <2>3, <2>4
<1>. QED BY <1>2, <1>3

LEMMA IntegersAreRead ==
  ASSUME NEW how, NEW v, NEW f, how.as = "int", Fits(how, v)
  PROVE  Read(how, OnTheWire(v)) = v /\ Read(how, restore_counts(f, OnTheWire(v))) = v
<1>1. v = None \/ IsInt(v)
  BY DEF Fits
<1>2. CASE v = None
  <2>1. None.is = "none"
    BY DEF None
  <2>2. OnTheWire(None) = None /\ restore_counts(f, None) = None
    BY <2>1 DEF OnTheWire, WireEntry, WireAtom, restore_counts, CountEntry, CountAtom
  <2>3. Read(how, None) = None
    BY <2>1 DEF Read, AsInt
  <2>. QED BY ONLY <1>2, <2>2, <2>3
<1>3. CASE IsInt(v)
  <2>1. OnTheWire(v) = Number(v.n, TRUE)
    BY <1>3 DEF IsInt, OnTheWire, WireEntry, WireAtom
  <2>2. restore_counts(f, Number(v.n, TRUE)) \in {Number(v.n, TRUE), Whole(v.n)}
    BY DEF restore_counts, CountEntry, CountAtom, AsInt, Number
  <2>3. Read(how, Number(v.n, TRUE)) = Whole(v.n) /\ Read(how, Whole(v.n)) = Whole(v.n)
    BY DEF Read, AsInt, Number, Whole
  <2>. QED BY <1>3, <2>1, <2>2, <2>3 DEF IsInt
<1>. QED BY <1>1, <1>2, <1>3

LEMMA ListsAreRead ==
  ASSUME NEW how, NEW v, NEW f, how.as = "list", Fits(how, v)
  PROVE  Read(how, OnTheWire(v)) = v /\ Read(how, restore_counts(f, OnTheWire(v))) = v
<1>1. /\ v.is = "list" /\ v = List([i \in DOMAIN v.items |-> v.items[i]])
      /\ \A i \in DOMAIN v.items :
             \/ IsText(v.items[i])
             \/ IsObject(v.items[i]) /\ \A k \in DOMAIN v.items[i].of : IsText(v.items[i].of[k])
  BY DEF Fits, IsList
<1>2. ASSUME NEW i \in DOMAIN v.items
      PROVE  WireEntry(v.items[i]) = v.items[i] /\ CountEntry("", v.items[i]) = v.items[i]
  <2>1. PICK e : e = v.items[i]
    OBVIOUS
  <2>2. CASE IsText(e)
    BY <2>1, <2>2 DEF IsText, WireEntry, WireAtom, CountEntry, CountAtom
  <2>3. CASE IsObject(e) /\ \A k \in DOMAIN e.of : IsText(e.of[k])
    <3>1. \A k \in DOMAIN e.of : WireAtom(e.of[k]) = e.of[k] /\ CountAtom(k, e.of[k]) = e.of[k]
      BY ONLY <2>3, WireKeeps, CountKeeps
    <3>2. e.is = "object" /\ e = Object([k \in DOMAIN e.of |-> e.of[k]])
      BY <2>3 DEF IsObject
    <3>3. [k \in DOMAIN e.of |-> WireAtom(e.of[k])] = [k \in DOMAIN e.of |-> e.of[k]]
      BY ONLY <3>1
    <3>4. [k \in DOMAIN e.of |-> CountAtom(k, e.of[k])] = [k \in DOMAIN e.of |-> e.of[k]]
      BY ONLY <3>1
    <3>5. WireEntry(e) = e
      BY ONLY <3>2, <3>3 DEF WireEntry
    <3>6. CountEntry("", e) = e
      BY ONLY <3>2, <3>4 DEF CountEntry
    <3>. QED BY ONLY <2>1, <3>5, <3>6
  <2>. QED BY <1>1, <2>1, <2>2, <2>3
<1>3. OnTheWire(v) = v
  <2>1. [i \in DOMAIN v.items |-> WireEntry(v.items[i])] = [i \in DOMAIN v.items |-> v.items[i]]
    BY ONLY <1>2
  <2>. QED BY ONLY <1>1, <2>1 DEF OnTheWire
<1>4. restore_counts(f, v) = v
  <2>1. [i \in DOMAIN v.items |-> CountEntry("", v.items[i])] = [i \in DOMAIN v.items |-> v.items[i]]
    BY ONLY <1>2
  <2>. QED BY ONLY <1>1, <2>1 DEF restore_counts
<1>5. Read(how, v) = v
  BY <1>1 DEF Read
<1>. QED BY <1>3, <1>4, <1>5

LEMMA ScopesAreRead ==
  ASSUME NEW how, NEW v, NEW f, how.as = "scope", Fits(how, v)
  PROVE  Read(how, OnTheWire(v)) = v /\ Read(how, restore_counts(f, OnTheWire(v))) = v
<1>. DEFINE lb == "lookback_days"
<1>1. /\ v.is = "object" /\ v = Object([k \in DOMAIN v.of |-> v.of[k]])
      /\ DOMAIN v.of = DOMAIN Scope.or.of
      /\ v.of[lb] = None \/ IsInt(v.of[lb])
      /\ \A k \in DOMAIN v.of \ {lb} : v.of[k] = None \/ (IsText(v.of[k]) /\ v.of[k].text # "")
  BY DEF Fits, IsObject
<1>2. PICK w : w = [k \in DOMAIN v.of |-> WireAtom(v.of[k])]
  OBVIOUS
<1>3. PICK r : r = [k \in DOMAIN v.of |-> CountAtom(k, w[k])]
  OBVIOUS
<1>4. OnTheWire(v) = Object(w)
  BY ONLY <1>1, <1>2 DEF OnTheWire, WireEntry
<1>5. restore_counts(f, Object(w)) = Object(r)
  <2>1. DOMAIN w = DOMAIN v.of
    BY ONLY <1>2
  <2>. QED BY ONLY <1>3, <2>1 DEF restore_counts, CountEntry, Object
<1>6. \A k \in DOMAIN v.of \ {lb} : w[k] = v.of[k] /\ r[k] = v.of[k]
  <2>1. ASSUME NEW k \in DOMAIN v.of \ {lb} PROVE w[k] = v.of[k] /\ r[k] = v.of[k]
    <3>1. v.of[k] = None \/ IsText(v.of[k])
      BY ONLY <1>1, <2>1
    <3>2. w[k] = WireAtom(v.of[k]) /\ r[k] = CountAtom(k, w[k])
      BY ONLY <1>2, <1>3, <2>1
    <3>3. WireAtom(v.of[k]) = v.of[k]
      BY ONLY <3>1, WireKeeps
    <3>4. CountAtom(k, v.of[k]) = v.of[k]
      BY ONLY <3>1, CountKeeps
    <3>. QED BY ONLY <3>2, <3>3, <3>4
  <2>. QED BY ONLY <2>1
<1>7. lb \in DOMAIN v.of
  BY <1>1 DEF Scope, Object
<1>8. \/ v.of[lb] = None /\ w[lb] = None /\ r[lb] = None
      \/ IsInt(v.of[lb]) /\ w[lb] = Number(v.of[lb].n, TRUE) /\ r[lb] = v.of[lb]
  <2>1. lb \in COUNT_KEYS
    BY DEF COUNT_KEYS
  <2>2. w[lb] = WireAtom(v.of[lb]) /\ r[lb] = CountAtom(lb, w[lb])
    BY ONLY <1>2, <1>3, <1>7
  <2>3. CASE v.of[lb] = None
    <3>1. WireAtom(v.of[lb]) = v.of[lb]
      BY ONLY <2>3, WireKeeps
    <3>2. CountAtom(lb, v.of[lb]) = v.of[lb]
      BY ONLY <2>3, CountKeeps
    <3>. QED BY ONLY <2>2, <2>3, <3>1, <3>2
  <2>4. CASE IsInt(v.of[lb])
    <3>1. WireAtom(v.of[lb]) = Number(v.of[lb].n, TRUE)
      BY ONLY <2>4, WireFloats
    <3>2. CountAtom(lb, Number(v.of[lb].n, TRUE)) = v.of[lb]
      BY ONLY <2>1, <2>4, CountRestores
    <3>. QED BY ONLY <2>2, <2>4, <3>1, <3>2
  <2>. QED BY ONLY <1>1, <2>3, <2>4
<1>9. ScopeFrom(w) = v /\ ScopeFrom(r) = v
  <2>1. ASSUME NEW k \in DOMAIN v.of, NEW x \in {w, r}
        PROVE  (IF k = lb THEN IF x[k].is \in {"int", "float"} THEN Whole(x[k].n) ELSE None
                ELSE IF x[k].is = "text" /\ x[k].text # "" THEN x[k] ELSE None) = v.of[k]
    <3>1. CASE k = lb
      BY <1>8, <3>1 DEF None, IsInt, Number, Whole
    <3>2. CASE k # lb
      <4>1. x[k] = v.of[k] /\ (v.of[k] = None \/ (v.of[k].is = "text" /\ v.of[k].text # ""))
        BY <1>1, <1>6, <3>2 DEF IsText
      <4>. QED BY ONLY <3>2, <4>1 DEF None
    <3>. QED BY <3>1, <3>2
  <2>2. ASSUME NEW x \in {w, r} PROVE ScopeFrom(x) = Object([k \in DOMAIN v.of |-> v.of[k]])
    BY ONLY <1>1, <2>1, <2>2 DEF ScopeFrom
  <2>. QED BY <1>1, <2>2
<1>10. Read(how, Object(w)) = ScopeFrom(w) /\ Read(how, Object(r)) = ScopeFrom(r)
  BY DEF Read, Object
<1>. QED BY <1>4, <1>5, <1>9, <1>10

LEMMA ParametersAreRead ==
  ASSUME NEW how, NEW v, NEW f, how.as = "params", Fits(how, v)
  PROVE  Read(how, OnTheWire(v)) = v /\ Read(how, restore_counts(f, OnTheWire(v))) = v
<1>1. /\ v.is = "object" /\ v = Object([k \in DOMAIN v.of |-> v.of[k]])
      /\ \A k \in DOMAIN v.of : \/ k \in IntegerRules /\ IsInt(v.of[k])
                                \/ k \in NumberRules /\ IsFloat(v.of[k])
                                \/ k \in EnumRules /\ IsText(v.of[k])
  BY DEF Fits, IsObject
<1>2. PICK w : w = [k \in DOMAIN v.of |-> WireAtom(v.of[k])]
  OBVIOUS
<1>3. OnTheWire(v) = Object(w)
  BY ONLY <1>1, <1>2 DEF OnTheWire, WireEntry
<1>4. IntegerRules \subseteq COUNT_KEYS /\ NumberRules \cap COUNT_KEYS = {}
  BY DEF IntegerRules, NumberRules, COUNT_KEYS
<1>5. \A k \in DOMAIN v.of : CountAtom(k, w[k]) = v.of[k] /\ CountAtom(k, v.of[k]) = v.of[k]
  <2>1. ASSUME NEW k \in DOMAIN v.of PROVE CountAtom(k, w[k]) = v.of[k] /\ CountAtom(k, v.of[k]) = v.of[k]
    <3>1. w[k] = WireAtom(v.of[k])
      BY <1>2
    <3>2. CASE k \in IntegerRules /\ IsInt(v.of[k])
      <4>1. k \in COUNT_KEYS
        BY ONLY <1>4, <3>2
      <4>2. CountAtom(k, v.of[k]) = v.of[k]
        BY ONLY <3>2, CountKeeps
      <4>3. WireAtom(v.of[k]) = Number(v.of[k].n, TRUE)
        BY ONLY <3>2, WireFloats
      <4>4. CountAtom(k, Number(v.of[k].n, TRUE)) = v.of[k]
        BY ONLY <3>2, <4>1, CountRestores
      <4>. QED BY ONLY <3>1, <4>2, <4>3, <4>4
    <3>3. CASE (k \in NumberRules /\ IsFloat(v.of[k])) \/ (k \in EnumRules /\ IsText(v.of[k]))
      <4>1. WireAtom(v.of[k]) = v.of[k]
        BY ONLY <3>3, WireKeeps
      <4>2. k \notin COUNT_KEYS \/ IsText(v.of[k])
        BY ONLY <1>4, <3>3
      <4>3. CountAtom(k, v.of[k]) = v.of[k]
        BY ONLY <4>2, CountKeeps
      <4>. QED BY ONLY <3>1, <4>1, <4>3
    <3>. QED BY ONLY <1>1, <2>1, <3>2, <3>3
  <2>. QED BY <2>1
<1>6. ASSUME NEW g PROVE restore_counts(g, Object(w)) = v /\ restore_counts(g, v) = v
  <2>1. DOMAIN w = DOMAIN v.of
    BY ONLY <1>2
  <2>2. [k \in DOMAIN v.of |-> CountAtom(k, w[k])] = [k \in DOMAIN v.of |-> v.of[k]]
    BY ONLY <1>5
  <2>3. [k \in DOMAIN v.of |-> CountAtom(k, v.of[k])] = [k \in DOMAIN v.of |-> v.of[k]]
    BY ONLY <1>5
  <2>4. restore_counts(g, Object(w)) = Object([k \in DOMAIN w |-> CountAtom(k, w[k])])
    BY DEF restore_counts, CountEntry, Object
  <2>5. restore_counts(g, v) = Object([k \in DOMAIN v.of |-> CountAtom(k, v.of[k])])
    BY ONLY <1>1 DEF restore_counts, CountEntry
  <2>. QED BY ONLY <1>1, <2>1, <2>2, <2>3, <2>4, <2>5
<1>7. \A x : x.is = "object" => Read(how, x) = restore_counts("", x)
  BY DEF Read
<1>8. Object(w).is = "object"
  BY DEF Object
<1>. QED BY ONLY <1>1, <1>3, <1>6, <1>7, <1>8

LEMMA PassagesAreRead ==
  ASSUME NEW how, NEW v, NEW f, how.as = "passages", Fits(how, v)
  PROVE  /\ Read(how, OnTheWire(v)) = OnTheWire(v)
         /\ Read(how, restore_counts(f, OnTheWire(v))) = OnTheWire(v)
         /\ SamePassages(v, OnTheWire(v)) /\ Fits(how, OnTheWire(v))
<1>1. /\ v.is = "list"
      /\ \A i \in DOMAIN v.items :
             /\ IsObject(v.items[i])
             /\ \A k \in DOMAIN v.items[i].of :
                    /\ k \in PassageKeys
                    /\ \/ v.items[i].of[k] = None \/ IsText(v.items[i].of[k])
                       \/ IsInt(v.items[i].of[k]) \/ IsFloat(v.items[i].of[k])
  BY DEF Fits, IsList
<1>2. PICK u : u = [i \in DOMAIN v.items |-> WireEntry(v.items[i])]
  OBVIOUS
<1>3. OnTheWire(v) = List(u)
  BY ONLY <1>1, <1>2 DEF OnTheWire
<1>4. PassageKeys \cap COUNT_KEYS = {}
  BY DEF PassageKeys, COUNT_KEYS
<1>5. ASSUME NEW i \in DOMAIN v.items
      PROVE  /\ IsObject(u[i]) /\ DOMAIN u[i].of = DOMAIN v.items[i].of
             /\ \A k \in DOMAIN v.items[i].of :
                    /\ \/ u[i].of[k] = None \/ IsText(u[i].of[k]) \/ IsFloat(u[i].of[k])
                    /\ \/ u[i].of[k] = v.items[i].of[k]
                       \/ v.items[i].of[k].is = "int" /\ u[i].of[k] = Number(v.items[i].of[k].n, TRUE)
             /\ CountEntry("", u[i]) = u[i]
  <2>1. PICK e : e = v.items[i]
    OBVIOUS
  <2>2. PICK w : w = [k \in DOMAIN e.of |-> WireAtom(e.of[k])]
    OBVIOUS
  <2>3. u[i] = Object(w)
    BY <1>1, <1>2, <2>1, <2>2 DEF WireEntry, IsObject
  <2>4. Object(w).of = w /\ Object(w).is = "object" /\ DOMAIN w = DOMAIN e.of
    BY ONLY <2>2 DEF Object
  <2>5. IsObject(Object(w))
    <3>1. w = [k \in DOMAIN w |-> w[k]]
      BY ONLY <2>2
    <3>. QED BY ONLY <2>4, <3>1 DEF IsObject
  <2>6. ASSUME NEW k \in DOMAIN e.of
        PROVE  /\ w[k] = None \/ IsText(w[k]) \/ IsFloat(w[k])
               /\ w[k] = e.of[k] \/ (e.of[k].is = "int" /\ w[k] = Number(e.of[k].n, TRUE))
               /\ CountAtom(k, w[k]) = w[k]
    <3>1. w[k] = WireAtom(e.of[k]) /\ k \in PassageKeys
          /\ (e.of[k] = None \/ IsText(e.of[k]) \/ IsInt(e.of[k]) \/ IsFloat(e.of[k]))
      BY <1>1, <2>1, <2>2
    <3>2. CountAtom(k, w[k]) = w[k]
      <4>1. k \notin COUNT_KEYS
        BY ONLY <1>4, <3>1
      <4>. QED BY ONLY <4>1, CountKeeps
    <3>3. CASE e.of[k] = None \/ IsText(e.of[k]) \/ IsFloat(e.of[k])
      <4>1. WireAtom(e.of[k]) = e.of[k]
        BY ONLY <3>3, WireKeeps
      <4>. QED BY ONLY <3>1, <3>2, <3>3, <4>1
    <3>4. CASE IsInt(e.of[k])
      <4>1. WireAtom(e.of[k]) = Number(e.of[k].n, TRUE)
        BY ONLY <3>4, WireFloats
      <4>2. IsFloat(Number(e.of[k].n, TRUE))
        BY DEF IsFloat, Number
      <4>3. e.of[k].is = "int"
        BY ONLY <3>4 DEF IsInt
      <4>. QED BY ONLY <3>1, <3>2, <4>1, <4>2, <4>3
    <3>. QED BY ONLY <3>1, <3>3, <3>4
  <2>7. CountEntry("", Object(w)) = Object(w)
    <3>1. [k \in DOMAIN w |-> CountAtom(k, w[k])] = w
      BY ONLY <2>2, <2>6
    <3>. QED BY ONLY <2>4, <3>1 DEF CountEntry
  <2>. QED BY ONLY <2>1, <2>3, <2>4, <2>5, <2>6, <2>7
<1>6. List(u).is = "list" /\ List(u).items = u /\ DOMAIN u = DOMAIN v.items
  BY ONLY <1>2 DEF List
<1>7. restore_counts(f, List(u)) = List(u)
  <2>1. [i \in DOMAIN u |-> CountEntry("", u[i])] = u
    BY ONLY <1>2, <1>5
  <2>. QED BY ONLY <1>6, <2>1 DEF restore_counts
<1>8. Read(how, List(u)) = List(u)
  <2>1. how.as = "passages"
    OBVIOUS
  <2>. QED BY ONLY <1>6, <2>1 DEF Read
<1>9. SamePassages(v, List(u))
  <2>1. \A i \in DOMAIN v.items :
            /\ DOMAIN u[i].of = DOMAIN v.items[i].of
            /\ \A k \in DOMAIN v.items[i].of :
                   \/ u[i].of[k] = v.items[i].of[k]
                   \/ v.items[i].of[k].is = "int" /\ u[i].of[k] = Number(v.items[i].of[k].n, TRUE)
    BY ONLY <1>5
  <2>. QED BY ONLY <1>6, <2>1, Zenon DEF SamePassages
<1>10. Fits(how, List(u))
  <2>1. IsList(List(u))
    <3>1. u = [i \in DOMAIN u |-> u[i]]
      BY ONLY <1>2
    <3>. QED BY ONLY <1>6, <3>1 DEF IsList
  <2>2. \A i \in DOMAIN u : /\ IsObject(u[i])
                            /\ \A k \in DOMAIN u[i].of :
                                   /\ k \in PassageKeys
                                   /\ u[i].of[k] = None \/ IsText(u[i].of[k]) \/ IsFloat(u[i].of[k])
    <3>1. \A i \in DOMAIN v.items : \A k \in DOMAIN v.items[i].of : k \in PassageKeys
      BY ONLY <1>1
    <3>. QED BY ONLY <1>5, <1>6, <3>1
  <2>. QED BY ONLY <1>6, <2>1, <2>2, how.as = "passages" DEF Fits
<1>. QED BY ONLY <1>3, <1>7, <1>8, <1>9, <1>10

\* Any field, as an artifact (Read of what came) and in a request (with its counts restored before).
LEMMA FieldsAreRead ==
  ASSUME NEW how, NEW v, NEW f, how.as \in AsKinds, Fits(how, v)
  PROVE  \A got \in {Read(how, OnTheWire(v)), Read(how, restore_counts(f, OnTheWire(v)))} :
            /\ Fits(how, got)
            /\ got = v \/ (how.as = "passages" /\ SamePassages(v, got))
<1>1. CASE how.as = "passages"
  BY <1>1, PassagesAreRead
<1>2. CASE how.as # "passages"
  <2>1. Read(how, OnTheWire(v)) = v /\ Read(how, restore_counts(f, OnTheWire(v))) = v
    BY <1>2, SinglesAreRead, IntegersAreRead, ListsAreRead, ScopesAreRead, ParametersAreRead DEF AsKinds
  <2>. QED BY ONLY <2>1, Fits(how, v)
<1>. QED BY <1>1, <1>2

\* What is not sent is read as what a requirement has there by default, which may be sent.
LEMMA DefaultsAreRead ==
  ASSUME NEW f \in NOT_A_CAPABILITY_QUESTION
  PROVE  /\ f \in DOMAIN Default /\ f \in DOMAIN Reader["requirement"]
         /\ Read(Reader["requirement"][f], None) = Default[f]
         /\ Fits(Reader["requirement"][f], Default[f])
<1>0. PICK how : how = Reader["requirement"][f]
  OBVIOUS
<1>1. how = RequirementFields[f]
  BY <1>0 DEF Reader
<1>2. /\ \/ f = "decision" /\ how = Decided /\ Default[f] = None
         \/ f = "blocked_by" /\ how = Words("") /\ Default[f] = Text("")
         \/ f = "row_reason" /\ how = Words("") /\ Default[f] = Text("")
         \/ f = "unanswerable_reason" /\ how = Verbatim /\ Default[f] = None
         \/ f = "warnings" /\ how = Texts /\ Default[f] = List(<<>>)
         \/ f = "citations" /\ how = Passages /\ Default[f] = List(<<>>)
      /\ f \in DOMAIN Default /\ f \in DOMAIN RequirementFields
  <2>1. /\ RequirementFields.decision = Decided /\ RequirementFields.blocked_by = Words("")
        /\ RequirementFields.row_reason = Words("") /\ RequirementFields.unanswerable_reason = Verbatim
        /\ RequirementFields.warnings = Texts /\ RequirementFields.citations = Passages
    BY DEF RequirementFields
  <2>2. /\ Default.decision = None /\ Default.blocked_by = Text("") /\ Default.row_reason = Text("")
        /\ Default.unanswerable_reason = None /\ Default.warnings = List(<<>>) /\ Default.citations = List(<<>>)
    BY DEF Default
  <2>3. {"decision", "blocked_by", "row_reason", "unanswerable_reason", "warnings", "citations"}
           \subseteq DOMAIN RequirementFields
    BY DEF RequirementFields
  <2>4. DOMAIN Default = {"decision", "blocked_by", "row_reason", "unanswerable_reason", "warnings", "citations"}
    BY DEF Default
  <2>5. f \in {"decision", "blocked_by", "unanswerable_reason", "row_reason", "warnings", "citations"}
    BY DEF NOT_A_CAPABILITY_QUESTION
  <2>. QED BY ONLY <1>1, <2>1, <2>2, <2>3, <2>4, <2>5
<1>3. ASSUME how = Decided, Default[f] = None
      PROVE  Read(how, None) = Default[f] /\ Fits(how, Default[f])
  <2>1. how.as = "decision"
    BY <1>3 DEF Decided
  <2>2. Read(how, None) = None
    BY <2>1 DEF Read, None
  <2>3. Fits(how, None)
    BY <2>1 DEF Fits
  <2>. QED BY ONLY <1>3, <2>2, <2>3
<1>4. ASSUME how = Words(""), Default[f] = Text("")
      PROVE  Read(how, None) = Default[f] /\ Fits(how, Default[f])
  <2>1. how.as = "text" /\ how.or = Text("")
    BY <1>4 DEF Words
  <2>2. Read(how, None) = Text("")
    BY <2>1 DEF Read, None
  <2>3. IsText(Text("")) /\ Text("").text = ""
    BY DEF IsText, Text
  <2>4. Fits(how, Text(""))
    BY <2>1, <2>3 DEF Fits
  <2>. QED BY ONLY <1>4, <2>2, <2>4
<1>5. ASSUME how = Verbatim, Default[f] = None
      PROVE  Read(how, None) = Default[f] /\ Fits(how, Default[f])
  <2>1. how.as = "raw"
    BY <1>5 DEF Verbatim
  <2>2. Read(how, None) = None
    BY <2>1 DEF Read
  <2>3. Fits(how, None)
    BY <2>1 DEF Fits
  <2>. QED BY ONLY <1>5, <2>2, <2>3
<1>6. IsList(List(<<>>)) /\ DOMAIN List(<<>>).items = {}
  BY DEF IsList, List
<1>7. ASSUME how = Texts, Default[f] = List(<<>>)
      PROVE  Read(how, None) = Default[f] /\ Fits(how, Default[f])
  <2>1. how.as = "list" /\ how.or = List(<<>>)
    BY <1>7 DEF Texts
  <2>2. Read(how, None) = List(<<>>)
    BY <2>1 DEF Read, None
  <2>3. Fits(how, List(<<>>))
    BY <2>1, <1>6 DEF Fits
  <2>. QED BY ONLY <1>7, <2>2, <2>3
<1>8. ASSUME how = Passages, Default[f] = List(<<>>)
      PROVE  Read(how, None) = Default[f] /\ Fits(how, Default[f])
  <2>1. how.as = "passages" /\ how.or = List(<<>>)
    BY <1>8 DEF Passages
  <2>2. Read(how, None) = List(<<>>)
    BY <2>1 DEF Read, None
  <2>3. Fits(how, List(<<>>))
    BY <2>1, <1>6 DEF Fits
  <2>. QED BY ONLY <1>8, <2>2, <2>3
<1>9. f \in DOMAIN Reader["requirement"]
  BY <1>2 DEF Reader
<1>. QED BY ONLY <1>0, <1>2, <1>3, <1>4, <1>5, <1>7, <1>8, <1>9

\* A contract arrives with every field as it was, or without those that are no question of
\* capability.
Legible(kind, got) ==
    /\ got = [f \in DOMAIN Reader[kind] |-> got[f]]
    /\ \A f \in DOMAIN Reader[kind] : Fits(Reader[kind][f], got[f])
WholeArrives(kind, sent, got) == \A f \in DOMAIN Reader[kind] : FieldArrives(f, sent, got)
RestArrives(kind, sent, got) ==
    \A f \in DOMAIN Reader[kind] : IF f \in DOMAIN Default THEN got[f] = Default[f] ELSE FieldArrives(f, sent, got)
Arrived(kind, sent, got) ==
    Legible(kind, got) /\ (WholeArrives(kind, sent, got) \/ RestArrives(kind, sent, got))

LEMMA ArtifactsArrive ==
  ASSUME NEW c, IsContract(c)
  PROVE  /\ Legible(c.of, AsArtifact(c.of, c.data)) /\ WholeArrives(c.of, c.data, AsArtifact(c.of, c.data))
         /\ Legible(c.of, InRequest(c.of, c.data)) /\ WholeArrives(c.of, c.data, InRequest(c.of, c.data))
<1>1. PICK kind, data : kind = c.of /\ data = c.data
  OBVIOUS
<1>2. kind \in Kinds_ /\ DOMAIN data = DOMAIN Reader[kind]
      /\ \A f \in DOMAIN Reader[kind] : Fits(Reader[kind][f], data[f])
  BY <1>1 DEF IsContract
<1>3. PICK a : a = [f \in DOMAIN data |-> OnTheWire(data[f])]
  OBVIOUS
<1>4. PICK q : q = [f \in DOMAIN data |-> restore_counts(f, OnTheWire(data[f]))]
  OBVIOUS
<1>5. AsArtifact(kind, data) = from_dict(kind, a) /\ InRequest(kind, data) = from_dict(kind, q)
  BY ONLY <1>3, <1>4 DEF AsArtifact, InRequest
<1>6. ASSUME NEW f \in DOMAIN Reader[kind], NEW x \in {a, q}
      PROVE  /\ Fits(Reader[kind][f], from_dict(kind, x)[f])
             /\ FieldArrives(f, data, from_dict(kind, x))
  <2>1. PICK how : how = Reader[kind][f]
    OBVIOUS
  <2>2. PICK v : v = data[f]
    OBVIOUS
  <2>3. Fits(how, v) /\ how.as \in AsKinds /\ (how.as = "passages" => f = "citations")
    BY <1>2, <2>1, <2>2, ReadersKnow
  <2>4. from_dict(kind, x)[f] = Read(how, x[f])
    <3>1. f \in DOMAIN x
      BY <1>2, <1>3, <1>4
    <3>. QED BY ONLY <2>1, <3>1, f \in DOMAIN Reader[kind] DEF from_dict
  <2>5. x[f] = OnTheWire(v) \/ x[f] = restore_counts(f, OnTheWire(v))
    BY <1>2, <1>3, <1>4, <2>2
  <2>6. PICK got : got = Read(how, x[f])
    OBVIOUS
  <2>7. Fits(how, got) /\ (got = v \/ (how.as = "passages" /\ SamePassages(v, got)))
    BY ONLY <2>3, <2>5, <2>6, FieldsAreRead
  <2>. QED BY ONLY <2>1, <2>2, <2>3, <2>4, <2>6, <2>7 DEF FieldArrives
<1>7. ASSUME NEW x \in {a, q} PROVE from_dict(kind, x) = [f \in DOMAIN Reader[kind] |-> from_dict(kind, x)[f]]
  BY DEF from_dict
<1>8. ASSUME NEW x \in {a, q} PROVE Legible(kind, from_dict(kind, x)) /\ WholeArrives(kind, data, from_dict(kind, x))
  BY ONLY <1>6, <1>7, <1>8 DEF Legible, WholeArrives
<1>. QED BY ONLY <1>1, <1>5, <1>8

LEMMA PartArrives ==
  ASSUME NEW c, IsContract(c), c.of = "requirement"
  PROVE  Arrived(c.of, c.data, InRequest(c.of, as_capability_request(c.data)))
<1>1. PICK kind, data : kind = c.of /\ data = c.data
  OBVIOUS
<1>2. kind = "requirement" /\ DOMAIN data = DOMAIN Reader[kind]
  BY <1>1 DEF IsContract
<1>3. PICK part : part = as_capability_request(data)
  OBVIOUS
<1>4. DOMAIN part = DOMAIN data \ NOT_A_CAPABILITY_QUESTION /\ \A f \in DOMAIN part : part[f] = data[f]
  BY ONLY <1>3 DEF as_capability_request
<1>5. PICK q : q = [f \in DOMAIN part |-> restore_counts(f, OnTheWire(part[f]))]
  OBVIOUS
<1>6. PICK whole : whole = InRequest(kind, data)
  OBVIOUS
<1>7. Legible(kind, whole) /\ WholeArrives(kind, data, whole)
  BY <1>1, <1>6, ArtifactsArrive
<1>8. PICK got : got = InRequest(kind, part)
  OBVIOUS
<1>9. got = from_dict(kind, q)
  BY ONLY <1>5, <1>8 DEF InRequest
<1>10. ASSUME NEW f \in DOMAIN Reader[kind], f \in NOT_A_CAPABILITY_QUESTION
       PROVE  got[f] = Default[f] /\ f \in DOMAIN Default /\ Fits(Reader[kind][f], got[f])
  <2>1. f \notin DOMAIN q
    BY <1>4, <1>5, <1>10
  <2>2. got[f] = Read(Reader[kind][f], None)
    BY ONLY <1>9, <2>1, f \in DOMAIN Reader[kind] DEF from_dict
  <2>. QED BY <1>2, <1>10, <2>2, DefaultsAreRead
<1>11. ASSUME NEW f \in DOMAIN Reader[kind], f \notin NOT_A_CAPABILITY_QUESTION PROVE got[f] = whole[f]
  <2>1. f \in DOMAIN part /\ f \in DOMAIN data /\ part[f] = data[f]
    BY <1>2, <1>4, <1>11
  <2>2. PICK all : all = [g \in DOMAIN data |-> restore_counts(g, OnTheWire(data[g]))]
    OBVIOUS
  <2>3. whole = from_dict(kind, all)
    BY ONLY <1>6, <2>2 DEF InRequest
  <2>4. f \in DOMAIN q /\ f \in DOMAIN all /\ q[f] = all[f]
    BY ONLY <1>5, <2>1, <2>2
  <2>. QED BY ONLY <1>9, <2>3, <2>4, f \in DOMAIN Reader[kind] DEF from_dict
<1>12. got = [f \in DOMAIN Reader[kind] |-> got[f]]
  BY ONLY <1>9 DEF from_dict
<1>13. NOT_A_CAPABILITY_QUESTION = DOMAIN Default
  BY DEF NOT_A_CAPABILITY_QUESTION, Default
<1>14. Legible(kind, got)
  BY ONLY <1>7, <1>10, <1>11, <1>12 DEF Legible
<1>15. RestArrives(kind, data, got)
  BY ONLY <1>7, <1>10, <1>11, <1>13 DEF RestArrives, WholeArrives, FieldArrives
<1>. QED BY ONLY <1>1, <1>3, <1>8, <1>14, <1>15 DEF Arrived

\* What arrived is there, and may be passed on.
LEMMA ReceiptHolds ==
  ASSUME IsContract(contract), Arrived(contract.of, contract.data, received)
  PROVE  ArrivesAsSent /\ IsContract([contract EXCEPT !.data = received])
<1>1. PICK kind, data : contract = [of |-> kind, data |-> data] /\ kind \in Kinds_
  BY DEF IsContract
<1>2. contract.of = kind /\ contract.data = data /\ [contract EXCEPT !.data = received] = [of |-> kind, data |-> received]
  BY <1>1
<1>3. Arrived(kind, data, received)
  BY <1>2
<1>4. DOMAIN received = DOMAIN Reader[kind]
  BY <1>3 DEF Arrived, Legible
<1>5. ArrivesAsSent
  BY ONLY <1>2, <1>3, <1>4 DEF Arrived, WholeArrives, RestArrives, ArrivesAsSent
<1>6. IsContract([of |-> kind, data |-> received])
  BY ONLY <1>1, <1>3 DEF Arrived, Legible, IsContract
<1>. QED BY <1>2, <1>5, <1>6

LEMMA WireStarts == WireInit => WireInv
<1>. SUFFICES ASSUME WireInit PROVE WireInv
  OBVIOUS
<1>1. IsContract(contract)
  BY WireAssumption DEF WireInit
<1>2. received = Nothing /\ judgement.verdict = "none" /\ tool.is = "none"
  BY DEF WireInit
<1>3. ArrivesAsSent
  <2>1. DOMAIN received = {}
    BY <1>2 DEF Nothing
  <2>. QED BY <2>1 DEF ArrivesAsSent
<1>. QED BY <1>1, <1>2, <1>3 DEF WireInv, NoPassByAccident, ToolsArrive

LEMMA JudgedRight == ASSUME NEW v \in Judged, Judge(v) PROVE NoPassByAccident'
<1>0. v = None \/ \E t \in {"", "garbled"} \cup Verdicts \cup Decisions : v = Text(t)
  BY DEF Judged
<1>1. v.is \in {"none", "text"} /\ (v.is = "text" => v = Text(v.text))
  <2>1. ASSUME v = None PROVE v.is = "none"
    BY <2>1 DEF None
  <2>2. ASSUME NEW t, v = Text(t) PROVE v.is = "text" /\ v = Text(v.text)
    BY <2>2 DEF Text
  <2>3. v.is = "none" \/ (v.is = "text" /\ v = Text(v.text))
    BY <1>0, <2>1, <2>2, Zenon
  <2>. QED BY <2>3
<1>2. OnTheWire(v) = v
  BY <1>1 DEF OnTheWire, WireEntry, WireAtom
<1>3. judgement' = [sent |-> v, verdict |-> validation_from_dict(v), decision |-> negotiation_from_dict(v)]
  BY <1>2 DEF Judge
<1>4. validation_from_dict(v) # "INVALID" => v = Text(validation_from_dict(v))
  BY <1>1 DEF validation_from_dict
<1>5. negotiation_from_dict(v) = "AGREED" => v = Text("AGREED")
  BY <1>1 DEF negotiation_from_dict
<1>. QED BY <1>3, <1>4, <1>5 DEF NoPassByAccident

LEMMA ToolsRead ==
  ASSUME NEW e \in BOOLEAN, NEW p \in Peers PROVE catalogue_from_dict(tool_as_dict(e, p)) = e
BY DEF Peers, catalogue_from_dict, tool_as_dict

\* A step that makes something of a contract leaves it as it was, and what arrives of it fits.
LEMMA ReceivedStep ==
  ASSUME WireInv, UNCHANGED <<judgement, tool>>, IsContract(contract'),
         Arrived(contract'.of, contract'.data, received')
  PROVE  WireInv'
<1>1. ArrivesAsSent' /\ IsContract([contract' EXCEPT !.data = received'])
  <2>1. IsContract(contract)' /\ Arrived(contract.of, contract.data, received)'
    OBVIOUS
  <2>2. (IsContract(contract) /\ Arrived(contract.of, contract.data, received)
           => ArrivesAsSent /\ IsContract([contract EXCEPT !.data = received]))'
    BY ReceiptHolds, PTL
  <2>. QED BY <2>1, <2>2
<1>2. NoPassByAccident' /\ ToolsArrive'
  BY DEF WireInv, NoPassByAccident, ToolsArrive
<1>. QED BY <1>1, <1>2 DEF WireInv

LEMMA WireStep == WireInv /\ [WireNext]_wireVars => WireInv'
<1>. SUFFICES ASSUME WireInv, [WireNext]_wireVars PROVE WireInv'
  OBVIOUS
<1>0. IsContract(contract) /\ ArrivesAsSent /\ NoPassByAccident /\ ToolsArrive
      /\ (received = Nothing \/ IsContract([contract EXCEPT !.data = received]))
  BY DEF WireInv
<1>1. CASE SendContract
  BY <1>0, <1>1, ArtifactsArrive, ReceivedStep DEF SendContract, Arrived
<1>2. CASE SendCapabilityRequest
  BY <1>0, <1>2, PartArrives, ReceivedStep DEF SendCapabilityRequest
<1>3. CASE PassOn
  <2>1. IsContract(contract') /\ contract'.of = contract.of /\ contract'.data = received
    <3>1. PICK kind, data : contract = [of |-> kind, data |-> data]
      BY <1>0 DEF IsContract
    <3>2. contract' = [contract EXCEPT !.data = received] /\ IsContract(contract')
      BY <1>0, <1>3 DEF PassOn
    <3>. QED BY <3>1, <3>2
  <2>2. received' = InRequest(contract'.of, contract'.data) /\ UNCHANGED <<judgement, tool>>
    BY <1>3, <2>1 DEF PassOn
  <2>. QED BY <2>1, <2>2, ArtifactsArrive, ReceivedStep DEF Arrived
<1>4. ASSUME NEW v \in Judged, Judge(v) PROVE WireInv'
  <2>1. contract' = contract /\ received' = received /\ tool' = tool
    BY <1>4 DEF Judge
  <2>2. NoPassByAccident'
    BY <1>4, JudgedRight
  <2>. QED BY <1>0, <2>1, <2>2 DEF WireInv, ArrivesAsSent, FieldArrives, ToolsArrive
<1>5. ASSUME NEW executable \in BOOLEAN, NEW peer \in Peers, ReadTool(executable, peer) PROVE WireInv'
  <2>1. contract' = contract /\ received' = received /\ judgement' = judgement
    BY <1>5 DEF ReadTool
  <2>2. ToolsArrive'
    BY <1>5, ToolsRead DEF ReadTool, ToolsArrive
  <2>. QED BY <1>0, <2>1, <2>2 DEF WireInv, ArrivesAsSent, FieldArrives, NoPassByAccident
<1>6. CASE UNCHANGED wireVars
  BY <1>0, <1>6 DEF wireVars, WireInv, ArrivesAsSent, FieldArrives, NoPassByAccident, ToolsArrive
<1>. QED BY <1>1, <1>2, <1>3, <1>4, <1>5, <1>6 DEF WireNext

LEMMA WireInvFaithful == WireInv => WireIsFaithful
<1>. SUFFICES ASSUME WireInv PROVE WireIsFaithful
  OBVIOUS
<1>1. ArrivesAsSent /\ NoPassByAccident /\ ToolsArrive
  BY DEF WireInv
<1>2. SameQuestionSameDigest
  <2>1. PICK data : data = contract.data
    OBVIOUS
  <2>2. data = [f \in DOMAIN data |-> data[f]]
    BY <2>1 DEF WireInv, IsContract
  <2>. QED BY ONLY <2>1, <2>2 DEF SameQuestionSameDigest, as_capability_request, NOT_A_CAPABILITY_QUESTION
<1>. QED BY <1>1, <1>2 DEF WireIsFaithful

\* Whatever requirement, assessment or intent crosses to another agent, a requirement in whole or
\* as a question of capability, and however often it is passed on from there: each of its fields
\* arrives as it was sent, numbers with their kind, but for the passages it cites, whose line
\* numbers come as floats and which are otherwise the same.  An unreadable verdict never passes
\* for a yes, a calculation stays one, and a question that changes only in what it has been
\* decided digests the same (envelope.py:353-590, contracts.py:362-401).
THEOREM ContractsArriveAsSent == WireSpec => []WireIsFaithful
<1>1. WireInit => WireInv
  BY WireStarts
<1>2. WireInv /\ [WireNext]_wireVars => WireInv'
  BY WireStep
<1>3. WireInv => WireIsFaithful
  BY WireInvFaithful
<1>. QED BY <1>1, <1>2, <1>3, PTL DEF WireSpec
=============================================================================
