--------------------------- MODULE LedgerRegistry ---------------------------
(***************************************************************************)
(* The registry through which every agent of a turn finds the one ledger   *)
(* of that turn (LedgerRegistry in agents/a2a/guardrails.py), with the     *)
(* parties that use it: the user boundary opens a ledger under the request *)
(* id, often one the client chose (AgentNetwork._ask), and the handlers of *)
(* the orchestrator and of the domain expert look it up by that id when    *)
(* they start (executors.py).                                              *)
(*                                                                         *)
(* The boundary closes the turn when its call returns or times out.  The   *)
(* worker threads below it are not stopped then, so a handler may call on, *)
(* and a handler it reaches may look the ledger up, after the close.       *)
(*                                                                         *)
(* The registry is an insertion-ordered dictionary: an entry carries the   *)
(* number of the ledger that first took its place, which orders entries by *)
(* age, since ledgers are numbered as they are made.                       *)
(***************************************************************************)
EXTENDS Naturals, Sequences, FiniteSets

CONSTANTS
  Turns,         \* the turns asked of the service
  Ids,           \* request ids, after _safe_request_id
  IdOf,          \* the id a turn was opened under; clients may repeat one
  Capacity,      \* the most entries kept
  HandoffLimit,  \* calls one ledger admits
  MaxLedgers     \* a bound on the ledgers made, for TLC

ASSUME RegistryAssumption ==
  /\ IdOf \in [Turns -> Ids]
  /\ Capacity \in Nat \ {0}
  /\ HandoffLimit \in Nat \ {0}
  /\ MaxLedgers \in Nat

VARIABLES
  registry,  \* id -> its ledger, and the ledger that first took the place
  used,      \* the handoffs each ledger has admitted
  stage,     \* how far the boundary is with a turn
  asked,     \* the handlers a turn has called that have yet to start
  holds,     \* the ledger that a turn's boundary or handler works with
  calls      \* the handoffs a turn has made, on whatever ledger

vars == <<registry, used, stage, asked, holds, calls>>

Handlers == {"orchestrator", "domain_expert"}
Holders  == Handlers \cup {"boundary"}
Entry    == [ledger : Nat \ {0}, place : Nat \ {0}]

\* Whom a holder's calls reach; the MCP agent asks for no ledger.
Callee == [h \in Holders |-> CASE h = "boundary" -> {"orchestrator"}
                               [] h = "orchestrator" -> {"domain_expert"}
                               [] h = "domain_expert" -> {}]

\* The entry the dictionary would yield last.
Newest(reg) ==
  CHOOSE i \in DOMAIN reg : \A j \in DOMAIN reg : reg[j].place <= reg[i].place

\* The entry the dictionary would yield first.
Oldest(reg) ==
  CHOOSE i \in DOMAIN reg : \A j \in DOMAIN reg : reg[i].place <= reg[j].place

\* Room is made one entry too late.
EvictWrong(reg) ==
  IF Cardinality(DOMAIN reg) > Capacity + 1
  THEN [i \in DOMAIN reg \ {Oldest(reg)} |-> reg[i]]
  ELSE reg

\* Beyond capacity the oldest entry goes, in use or not.
Evict(reg) ==
  IF Cardinality(DOMAIN reg) > Capacity
  THEN [i \in DOMAIN reg \ {Oldest(reg)} |-> reg[i]]
  ELSE reg

\* registry[id] = n: a new id goes last, an old one keeps its place.
Put(reg, id, n) ==
  [i \in DOMAIN reg \cup {id} |->
     IF i # id THEN reg[i]
     ELSE [ledger |-> n,
           place |-> IF id \in DOMAIN reg THEN reg[id].place ELSE n]]

\* A new ledger is made and put under id.
Register(id) ==
  LET more == Put(registry, id, Len(used) + 1) IN
  /\ Len(used) < MaxLedgers
  /\ used' = Append(used, 0)
  /\ registry' = Evict(more)

-----------------------------------------------------------------------------

Open(t) ==
  /\ stage[t] = "new"
  /\ Register(IdOf[t])
  /\ stage' = [stage EXCEPT ![t] = "open"]
  /\ holds' = [holds EXCEPT ![t]["boundary"] = Len(used) + 1]
  /\ UNCHANGED <<asked, calls>>

\* A refusal that admits one call too many.
AskWrong(t, h) ==
  /\ holds[t][h] # 0
  /\ h = "boundary" => stage[t] = "open" /\ calls[t] = 0
  /\ used[holds[t][h]] <= HandoffLimit
  /\ used' = [used EXCEPT ![holds[t][h]] = @ + 1]
  /\ calls' = [calls EXCEPT ![t] = @ + 1]
  /\ asked' = [asked EXCEPT ![t] = @ \cup Callee[h]]
  /\ UNCHANGED <<registry, stage, holds>>

\* An admitted call on the ledger the caller holds.  The boundary makes one.
Ask(t, h) ==
  /\ holds[t][h] # 0
  /\ h = "boundary" => stage[t] = "open" /\ calls[t] = 0
  /\ used[holds[t][h]] < HandoffLimit
  /\ used' = [used EXCEPT ![holds[t][h]] = @ + 1]
  /\ calls' = [calls EXCEPT ![t] = @ + 1]
  /\ asked' = [asked EXCEPT ![t] = @ \cup Callee[h]]
  /\ UNCHANGED <<registry, stage, holds>>

\* A handler that opens a ledger of its own, as if it were the boundary.
FindWrong(t, h) ==
  /\ h \in asked[t]
  /\ asked' = [asked EXCEPT ![t] = @ \ {h}]
  /\ UNCHANGED <<stage, calls>>
  /\ Register(IdOf[t])
  /\ holds' = [holds EXCEPT ![t][h] = Len(used) + 1]

\* A handler starts: it works with the ledger under the turn's id, and makes
\* one when there is none.
Find(t, h) ==
  /\ h \in asked[t]
  /\ asked' = [asked EXCEPT ![t] = @ \ {h}]
  /\ UNCHANGED <<stage, calls>>
  /\ \/ /\ IdOf[t] \in DOMAIN registry
        /\ holds' = [holds EXCEPT ![t][h] = registry[IdOf[t]].ledger]
        /\ UNCHANGED <<registry, used>>
     \/ /\ IdOf[t] \notin DOMAIN registry
        /\ Register(IdOf[t])
        /\ holds' = [holds EXCEPT ![t][h] = Len(used) + 1]

\* Closing that leaves the newest entry to go instead of the turn's own.
CloseWrong(t) ==
  /\ stage[t] = "open" /\ calls[t] > 0
  /\ stage' = [stage EXCEPT ![t] = "closed"]
  /\ registry' = [i \in {j \in DOMAIN registry :
                           registry[j].ledger # Len(used)} |-> registry[i]]
  /\ UNCHANGED <<used, asked, holds, calls>>

\* The boundary's call is over.  The entry under the turn's id goes, whichever
\* ledger it is by now.
Close(t) ==
  /\ stage[t] = "open" /\ calls[t] > 0
  /\ stage' = [stage EXCEPT ![t] = "closed"]
  /\ registry' = [i \in DOMAIN registry \ {IdOf[t]} |-> registry[i]]
  /\ UNCHANGED <<used, asked, holds, calls>>

Init ==
  /\ registry = [i \in {} |-> [ledger |-> 1, place |-> 1]]
  /\ used = <<>>
  /\ stage = [t \in Turns |-> "new"]
  /\ asked = [t \in Turns |-> {}]
  /\ holds = [t \in Turns |-> [h \in Holders |-> 0]]
  /\ calls = [t \in Turns |-> 0]

Next ==
  \E t \in Turns :
    \/ Open(t) \/ Close(t)
    \/ \E h \in Holders : Ask(t, h)
    \/ \E h \in Handlers : Find(t, h)

Spec == Init /\ [][Next]_vars

-----------------------------------------------------------------------------
(* Properties.                                                             *)

\* The registry stays within its capacity, and every ledger that a turn or an
\* entry names is one that was made.
TypeOK ==
  /\ used \in Seq(0..HandoffLimit)
  /\ DOMAIN registry \subseteq Ids
  /\ \A i \in DOMAIN registry :
       registry[i] \in [ledger : 1..Len(used), place : 1..Len(used)]
  /\ Cardinality(DOMAIN registry) <= Capacity
  /\ stage \in [Turns -> {"new", "open", "closed"}]
  /\ asked \in [Turns -> SUBSET Handlers]
  /\ holds \in [Turns -> [Holders -> 0..Len(used)]]
  /\ calls \in [Turns -> Nat]

\* Another turn was asked under the same id.
Namesake(t) ==
  \E u \in Turns \ {t} : IdOf[u] = IdOf[t] /\ stage[u] # "new"

\* What the registry needs to do its work: nobody re-used the id, and since the turn was opened
\* fewer ledgers were made than there are places, for others or for what late handlers look up.
Undisturbed(t) ==
  /\ stage[t] = "open" /\ ~Namesake(t)
  /\ Len(used) < holds[t]["boundary"] + Capacity

\* An undisturbed turn that is open is found under its id: eviction takes what is left of finished
\* turns, and the turns that have run longest, before it.
OpenTurnIsFound ==
  \A t \in Turns : Undisturbed(t) =>
    /\ IdOf[t] \in DOMAIN registry
    /\ registry[IdOf[t]].ledger = holds[t]["boundary"]

\* Every agent of an undisturbed open turn works with the ledger the boundary
\* opened, which is what makes the handoff limit a limit on the turn.
OneLedgerPerTurn ==
  \A t \in Turns : Undisturbed(t) =>
    \A h \in Handlers : holds[t][h] \in {0, holds[t]["boundary"]}

\* The calls of an undisturbed open turn are counted on its own ledger, all of
\* them and no others, and so are within the limit.
TurnIsCounted ==
  \A t \in Turns : Undisturbed(t) =>
    /\ calls[t] = used[holds[t]["boundary"]]
    /\ calls[t] <= HandoffLimit

\* Stated in runtime.py: the ledger opened at the boundary is the one every
\* agent the turn reaches finds, so that the limit is a limit on the turn.
\* Handlers that outlive a timed-out turn are given a fresh one.
LimitBindsTheTurn == \A t \in Turns : calls[t] <= HandoffLimit

\* An undisturbed turn has one ledger from its boundary to its last agent, and is counted on it;
\* evictions before the registry was filled with newer ledgers are of others (guardrails.py:384-438).
OneLedger == TypeOK /\ OpenTurnIsFound /\ OneLedgerPerTurn /\ TurnIsCounted
=============================================================================
