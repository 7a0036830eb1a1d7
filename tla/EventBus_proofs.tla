--------------------------- MODULE EventBus_proofs ---------------------------
(***************************************************************************)
(* That a stream shows a reader what was published, once, in order and     *)
(* without a window, and that replay, queue and silence together are the   *)
(* plain Feed they stand for: for any number of publishers, streams,       *)
(* events, turns and evictions and any length of the history.              *)
(*                                                                         *)
(* That the browser keeps its chats (ChatClient): for any chats and        *)
(* questions, whatever is opened, cleared, deleted or asked again while a  *)
(* turn is under way.                                                      *)
(***************************************************************************)
EXTENDS EventBus, ChatClient, SequenceTheorems, WellFoundedInduction, TLAPS

USE EventBusAssumption DEF vars, bus, streams

Items  == Event \cup {End}
Stages == {"new", "claimed", "subscribed", "replayed", "live", "done", "gone"}
Before == {"new", "claimed", "subscribed"}

-----------------------------------------------------------------------------
(* The inductive invariant.                                                *)

\* Where everything is kept.
Shape ==
  /\ run \in [sequence : Nat, events : Seq(Event), finished : BOOLEAN, known : BOOLEAN]
  /\ made \in 0..MaxEvents /\ evictions \in 0..MaxEvictions
  /\ turn \in [number : 0..MaxTurns, running : BOOLEAN] /\ (turn.running => turn.number > 0)
  /\ handing \in [Threads -> [item : Items, to : SUBSET Streams]]
  /\ stage \in [Streams -> Stages]
  /\ subscribers = {s \in Streams : stage[s] \in {"subscribed", "replayed", "live"}}
  /\ queue \in [Streams -> Seq(Items)] /\ sent \in [Streams -> Seq(Event)]
  /\ seen \in [Streams -> 0..MaxEvents] /\ skipped \in [Streams -> SUBSET Event]

\* The history is numbered without a gap, and not beyond what was published.
Numbered ==
  /\ run.sequence <= made /\ Len(run.events) <= Keep
  /\ Len(run.events) <= run.sequence
  /\ \A i \in DOMAIN run.events :
       run.events[i].sequence = run.sequence - Len(run.events) + i
  /\ evictions = 0 => run.sequence = made
  /\ ~run.known => run.sequence = 0 /\ run.events = <<>>

\* A stream that may still wait has not waited too often.
Patient ==
  /\ idle \in [Streams -> 0..MaxIdle]
  /\ \A s \in Streams : stage[s] \notin {"done", "gone"} => idle[s] < MaxIdle

\* An event that somebody holds: the history, a thread, a queue or a reader.
Held(e) ==
  \/ e \in Elements(run.events)
  \/ \E p \in Threads : handing[p].item = e
  \/ \E s \in Streams : e \in Elements(queue[s])
  \/ \E s \in Streams : e \in Elements(sent[s])

\* The name of an event tells which it is.
NamesTell ==
  \A e \in Items : Held(e) =>
    /\ e.id <= made
    /\ evictions = 0 => e.id = e.sequence
    /\ \A f \in Items : Held(f) /\ f.id = e.id => f = e

\* What a stream has shown rises to the last number it has seen.
Rising ==
  \A s \in Streams :
    /\ stage[s] \in Before => sent[s] = <<>>
    /\ \A i \in DOMAIN sent[s] : sent[s][i].sequence <= seen[s]
    /\ \A i, j \in DOMAIN sent[s] : i < j => sent[s][i].sequence < sent[s][j].sequence

\* An id that is used once and is not pushed out: whatever says that the run is over
\* says so after its turn.
Over == turn.number = 1 /\ ~turn.running
EndIsTrue ==
  evictions = 0 /\ turn.number <= 1 =>
    /\ run.known /\ run.finished => Over
    /\ \A p \in Threads : handing[p].item = End /\ handing[p].to # {} => Over
    /\ \A s \in Streams :
         /\ stage[s] # "new" => run.known
         /\ End \in Elements(queue[s]) => Over
         /\ stage[s] = "done" /\ idle[s] < MaxIdle => Over

IInv == Shape /\ Numbered /\ Patient /\ NamesTell /\ Rising /\ NothingBetween /\ EndIsTrue

-----------------------------------------------------------------------------
(* Lemmas on sequences.                                                    *)

\* A sequence and its elements when one more is appended.
LEMMA AppendElements ==
  ASSUME NEW S, NEW s \in Seq(S), NEW e \in S
  PROVE  /\ Append(s, e) \in Seq(S) /\ Len(Append(s, e)) = Len(s) + 1
         /\ DOMAIN s = 1..Len(s) /\ DOMAIN Append(s, e) = 1..Len(s) + 1
         /\ Len(s) \in Nat
         /\ \A k \in 1..Len(s) : Append(s, e)[k] = s[k]
         /\ Append(s, e)[Len(s) + 1] = e
         /\ Elements(Append(s, e)) = Elements(s) \cup {e}
<1>1. /\ Append(s, e) \in Seq(S) /\ Len(Append(s, e)) = Len(s) + 1
      /\ DOMAIN s = 1..Len(s) /\ DOMAIN Append(s, e) = 1..Len(s) + 1
      /\ Len(s) \in Nat
      /\ \A k \in 1..Len(s) : Append(s, e)[k] = s[k]
      /\ Append(s, e)[Len(s) + 1] = e
  BY AppendProperties, LenProperties
<1> QED
  BY <1>1 DEF Elements

\* ... and when the first one is taken.
LEMMA TailElements ==
  ASSUME NEW S, NEW s \in Seq(S), s # <<>>
  PROVE  /\ Head(s) \in S /\ Tail(s) \in Seq(S)
         /\ Elements(s) = Elements(Tail(s)) \cup {Head(s)}
<1>1. /\ Head(s) \in S /\ Tail(s) \in Seq(S) /\ Len(Tail(s)) = Len(s) - 1
      /\ \A i \in 1..Len(Tail(s)) : Tail(s)[i] = s[i + 1]
      /\ DOMAIN s = 1..Len(s) /\ DOMAIN Tail(s) = 1..Len(Tail(s)) /\ Len(s) \in Nat \ {0}
      /\ Head(s) = s[1]
  BY HeadTailProperties, LenProperties, EmptySeq
<1>2. \A i \in 2..Len(s) : s[i] = Tail(s)[i - 1] /\ i - 1 \in 1..Len(Tail(s))
  BY <1>1
<1>3. Elements(s) \subseteq Elements(Tail(s)) \cup {Head(s)}
  <2>1. SUFFICES ASSUME NEW i \in 1..Len(s)
                 PROVE  s[i] \in Elements(Tail(s)) \cup {Head(s)}
    BY <1>1 DEF Elements
  <2>2. CASE i = 1
    BY <1>1, <2>2
  <2>3. CASE i # 1
    <3>1. i \in 2..Len(s)
      BY <1>1, <2>3
    <3> QED
      BY <1>1, <1>2, <3>1 DEF Elements
  <2> QED
    BY <2>2, <2>3
<1>4. Elements(Tail(s)) \subseteq Elements(s) /\ Head(s) \in Elements(s)
  BY <1>1 DEF Elements
<1> QED
  BY <1>1, <1>3, <1>4

\* The newest elements of a sequence are its last ones.
LEMMA NewestFacts ==
  ASSUME NEW S, NEW s \in Seq(S)
  PROVE  /\ Newest(s) \in Seq(S) /\ Len(Newest(s)) <= Keep /\ Len(Newest(s)) <= Len(s)
         /\ Len(Newest(s)) \in Nat /\ DOMAIN Newest(s) = 1..Len(Newest(s))
         /\ s # <<>> => Newest(s) # <<>>
         /\ \A i \in 1..Len(Newest(s)) : Newest(s)[i] = s[Len(s) - Len(Newest(s)) + i]
         /\ Elements(Newest(s)) \subseteq Elements(s)
<1> DEFINE m == IF Len(s) > Keep THEN Len(s) - Keep + 1 ELSE 1
<1>1. /\ Len(s) \in Nat /\ DOMAIN s = 1..Len(s) /\ m \in 1..Len(s) + 1 /\ m \in Int
      /\ Len(s) - m + 1 <= Keep /\ (Len(s) > 0 => m <= Len(s))
      /\ \A i \in m..Len(s) : s[i] \in S
  BY LenProperties
<1>2. Newest(s) = SubSeq(s, m, Len(s))
  BY DEF Newest
<1> HIDE DEF m
<1>3. /\ Newest(s) \in Seq(S)
      /\ Len(Newest(s)) = IF m <= Len(s) THEN Len(s) - m + 1 ELSE 0
      /\ \A i \in 1..Len(s) - m + 1 : Newest(s)[i] = s[m + i - 1]
  BY <1>1, <1>2, SubSeqProperties
<1>4. Len(Newest(s)) = Len(s) - m + 1 /\ DOMAIN Newest(s) = 1..Len(Newest(s))
  BY <1>1, <1>3, LenProperties
<1>5. ASSUME NEW i \in 1..Len(Newest(s))
      PROVE  /\ Newest(s)[i] = s[Len(s) - Len(Newest(s)) + i]
             /\ Len(s) - Len(Newest(s)) + i \in 1..Len(s)
  <2>1. i \in 1..Len(s) - m + 1 /\ i \in Int
    BY <1>1, <1>4
  <2>2. Len(s) - Len(Newest(s)) + i = m + i - 1
    BY <1>1, <1>4, <2>1
  <2>3. m + i - 1 \in 1..Len(s)
    BY <1>1, <2>1
  <2> QED
    BY <1>3, <2>1, <2>2, <2>3
<1>6. Elements(Newest(s)) \subseteq Elements(s)
  BY <1>1, <1>4, <1>5 DEF Elements
<1>7. s # <<>> => Newest(s) # <<>>
  BY <1>1, <1>3, <1>4, EmptySeq
<1>8. Len(Newest(s)) <= Keep /\ Len(Newest(s)) <= Len(s) /\ Len(Newest(s)) \in Nat
  BY <1>1, <1>4
<1> QED
  BY <1>3, <1>4, <1>5, <1>6, <1>7, <1>8

-----------------------------------------------------------------------------
(* What the steps do.                                                      *)

\* Opening keeps a run that is there and makes an empty one, which is not finished.
LEMMA OpenFacts ==
  ASSUME Shape, Numbered
  PROVE  /\ OpenRun \in [sequence : Nat, events : Seq(Event), finished : BOOLEAN, known : BOOLEAN]
         /\ OpenRun.sequence = run.sequence /\ OpenRun.events = run.events /\ OpenRun.known
         /\ run.known => OpenRun.finished = run.finished
         /\ ~run.known => OpenRun.finished = FALSE
<1>1. CASE run.known
  BY <1>1 DEF Shape, OpenRun
<1>2. CASE ~run.known
  <2>1. run.sequence = 0 /\ run.events = <<>> /\ OpenRun = NewRun
    BY <1>2 DEF Numbered, OpenRun
  <2>2. <<>> \in Seq(Event)
    OBVIOUS
  <2> QED
    BY <1>2, <2>1, <2>2 DEF NewRun
<1> QED
  BY <1>1, <1>2

\* The event a thread publishes, and the history after it.
LEMMA PublishFacts ==
  ASSUME NEW p \in Publishers, Shape, Numbered, Publish(p)
  PROVE  LET event == [id |-> made + 1, sequence |-> OpenRun.sequence + 1] IN
         /\ event \in Event /\ made' = made + 1 /\ made' <= MaxEvents
         /\ run' \in [sequence : Nat, events : Seq(Event), finished : BOOLEAN, known : BOOLEAN]
         /\ run'.sequence = run.sequence + 1 /\ run'.known
         /\ run.known => run'.finished = run.finished
         /\ ~run.known => run'.finished = FALSE
         /\ run'.events = Newest(Append(run.events, event))
         /\ event.sequence = run.sequence + 1
         /\ handing' = [handing EXCEPT ![p] = [item |-> event, to |-> subscribers]]
<1> DEFINE event == [id |-> made + 1, sequence |-> OpenRun.sequence + 1]
<1>1. /\ OpenRun \in [sequence : Nat, events : Seq(Event), finished : BOOLEAN, known : BOOLEAN]
      /\ OpenRun.sequence = run.sequence /\ OpenRun.events = run.events /\ OpenRun.known
      /\ run.known => OpenRun.finished = run.finished
      /\ ~run.known => OpenRun.finished = FALSE
  BY OpenFacts
<1>2. event \in Event /\ made' = made + 1 /\ made + 1 <= MaxEvents
      /\ event.sequence = run.sequence + 1
  BY <1>1 DEF Publish, Shape, Numbered, Event
<1>3. /\ run' = [OpenRun EXCEPT !.sequence = event.sequence,
                                !.events = Newest(Append(@, event))]
      /\ handing' = [handing EXCEPT ![p] = [item |-> event, to |-> subscribers]]
  BY DEF Publish
<1> HIDE DEF event
<1>4. Newest(Append(OpenRun.events, event)) \in Seq(Event)
  BY <1>1, <1>2, AppendElements, NewestFacts
<1>5. run' = [sequence |-> event.sequence, events |-> Newest(Append(OpenRun.events, event)),
              finished |-> OpenRun.finished, known |-> OpenRun.known]
  BY <1>1, <1>3
<1>6. event.sequence \in Nat
  BY <1>1, <1>2
<1> QED
  BY <1>1, <1>2, <1>3, <1>4, <1>5, <1>6 DEF event

\* What a stream that ends leaves behind.
LEMMA LeaveFacts ==
  ASSUME NEW s \in Streams, NEW how \in {"done", "gone"}, Shape, Leave(s, how)
  PROVE  /\ stage' \in [Streams -> Stages] /\ queue' \in [Streams -> Seq(Items)]
         /\ stage'[s] = how /\ queue'[s] = <<>>
         /\ \A q \in Streams \ {s} : stage'[q] = stage[q] /\ queue'[q] = queue[q]
         /\ subscribers' = {q \in Streams : stage'[q] \in {"subscribed", "replayed", "live"}}
         /\ run' = run /\ made' = made /\ evictions' = evictions /\ handing' = handing
         /\ turn' = turn
<1>1. /\ stage' = [stage EXCEPT ![s] = how] /\ queue' = [queue EXCEPT ![s] = <<>>]
      /\ subscribers' = subscribers \ {s}
      /\ run' = run /\ made' = made /\ evictions' = evictions /\ handing' = handing
      /\ turn' = turn
  BY DEF Leave, Goto
<1>2. how \in Stages /\ <<>> \in Seq(Items)
  BY DEF Stages
<1>3. /\ stage' \in [Streams -> Stages] /\ queue' \in [Streams -> Seq(Items)]
      /\ stage'[s] = how /\ queue'[s] = <<>>
      /\ \A q \in Streams \ {s} : stage'[q] = stage[q] /\ queue'[q] = queue[q]
  BY <1>1, <1>2 DEF Shape
<1> QED
  BY <1>1, <1>3 DEF Shape

\* What a stream does with an event from its queue.
LEMMA TakeFacts ==
  ASSUME NEW s \in Streams, Shape, Take(s), Head(queue[s]) # End
  PROVE  LET item == Head(queue[s]) IN
         /\ item \in Event /\ stage[s] = "live"
         /\ queue' \in [Streams -> Seq(Items)] /\ sent' \in [Streams -> Seq(Event)]
         /\ seen' \in [Streams -> 0..MaxEvents] /\ skipped' \in [Streams -> SUBSET Event]
         /\ UNCHANGED <<bus, turn, stage>> /\ idle' = [idle EXCEPT ![s] = 0]
         /\ Elements(queue[s]) = Elements(queue'[s]) \cup {item}
         /\ \A q \in Streams \ {s} : /\ queue'[q] = queue[q] /\ sent'[q] = sent[q]
                                     /\ seen'[q] = seen[q] /\ skipped'[q] = skipped[q]
         /\ \/ /\ item.sequence <= seen[s] /\ sent' = sent /\ seen' = seen
               /\ skipped'[s] = skipped[s] \cup {item}
            \/ /\ item.sequence > seen[s] /\ sent'[s] = Append(sent[s], item)
               /\ seen'[s] = item.sequence /\ skipped'[s] = skipped[s]
<1> DEFINE item == Head(queue[s])
<1>1. /\ item \in Items /\ Tail(queue[s]) \in Seq(Items)
      /\ Elements(queue[s]) = Elements(Tail(queue[s])) \cup {item}
  BY TailElements DEF Take, Shape
<1>2. item \in Event /\ item.sequence \in 1..MaxEvents
  BY <1>1 DEF Items, Event
<1>3. /\ stage[s] = "live" /\ UNCHANGED <<bus, turn, stage>>
      /\ idle' = [idle EXCEPT ![s] = 0] /\ queue' = [queue EXCEPT ![s] = Tail(queue[s])]
      /\ \/ /\ item.sequence <= seen[s] /\ UNCHANGED <<sent, seen>>
            /\ skipped' = [skipped EXCEPT ![s] = skipped[s] \cup {item}]
         \/ /\ ~(item.sequence <= seen[s]) /\ UNCHANGED skipped
            /\ sent' = [sent EXCEPT ![s] = Append(sent[s], item)]
            /\ seen' = [seen EXCEPT ![s] = item.sequence]
  BY DEF Take
<1> HIDE DEF item
<1>4. /\ queue' \in [Streams -> Seq(Items)] /\ queue'[s] = Tail(queue[s])
      /\ \A q \in Streams \ {s} : queue'[q] = queue[q]
  BY <1>1, <1>3 DEF Shape
<1>5. CASE item.sequence <= seen[s]
  <2>1. /\ skipped' \in [Streams -> SUBSET Event] /\ skipped'[s] = skipped[s] \cup {item}
        /\ \A q \in Streams \ {s} : skipped'[q] = skipped[q]
    <3>1. /\ skipped \in [Streams -> SUBSET Event] /\ skipped[s] \cup {item} \in SUBSET Event
          /\ skipped' = [skipped EXCEPT ![s] = skipped[s] \cup {item}]
      BY <1>2, <1>3, <1>5 DEF Shape
    <3> QED
      BY <3>1
  <2> QED
    BY <1>1, <1>2, <1>3, <1>4, <1>5, <2>1 DEF item, Shape
<1>6. CASE ~(item.sequence <= seen[s])
  <2>1. Append(sent[s], item) \in Seq(Event)
    BY <1>2, AppendElements DEF Shape
  <2>2. /\ sent' \in [Streams -> Seq(Event)] /\ sent'[s] = Append(sent[s], item)
        /\ \A q \in Streams \ {s} : sent'[q] = sent[q]
    <3>1. sent \in [Streams -> Seq(Event)] /\ sent' = [sent EXCEPT ![s] = Append(sent[s], item)]
      BY <1>3, <1>6 DEF Shape
    <3> QED
      BY <2>1, <3>1
  <2>3. /\ seen' \in [Streams -> 0..MaxEvents] /\ seen'[s] = item.sequence
        /\ \A q \in Streams \ {s} : seen'[q] = seen[q]
    BY <1>2, <1>3, <1>6 DEF Shape
  <2>4. item.sequence > seen[s]
    BY <1>2, <1>6 DEF Shape
  <2> QED
    BY <1>1, <1>2, <1>3, <1>4, <1>6, <2>2, <2>3, <2>4 DEF item, Shape
<1> QED
  BY <1>5, <1>6

-----------------------------------------------------------------------------
(* Every step keeps the invariant, one conjunct at a time.                 *)

LEMMA ShapeStays ==
  ASSUME Shape, Numbered, Patient, Next
  PROVE  Shape'
<1>1. CASE Open
  <2>1. turn' \in [number : 0..MaxTurns, running : BOOLEAN] /\ turn'.number > 0
    BY <1>1 DEF Open, Shape
  <2> QED
    BY <1>1, <2>1, OpenFacts DEF Open, Shape
<1>2. CASE Close
  <2>1. [run EXCEPT !.finished = TRUE] \in
          [sequence : Nat, events : Seq(Event), finished : BOOLEAN, known : BOOLEAN]
    BY DEF Shape
  <2>2. turn' \in [number : 0..MaxTurns, running : BOOLEAN] /\ ~turn'.running
    BY <1>2 DEF Close, Shape
  <2>3. handing' \in [Threads -> [item : Items, to : SUBSET Streams]]
    <3>1. [item |-> End, to |-> subscribers] \in [item : Items, to : SUBSET Streams]
      BY DEF Shape, Items
    <3> QED
      BY <1>2, <3>1 DEF Close, Shape
  <2> QED
    BY <1>2, <2>1, <2>2, <2>3 DEF Close, Shape
<1>3. CASE Evict
  <2>1. NoRun \in [sequence : Nat, events : Seq(Event), finished : BOOLEAN, known : BOOLEAN]
    BY DEF NoRun
  <2>2. evictions' \in 0..MaxEvictions
    BY <1>3 DEF Evict, Shape
  <2> QED
    BY <1>3, <2>1, <2>2 DEF Evict, Shape
<1>4. ASSUME NEW p \in Publishers, Publish(p)
      PROVE  Shape'
  <2> DEFINE event == [id |-> made + 1, sequence |-> OpenRun.sequence + 1]
  <2>1. /\ event \in Event /\ made' = made + 1 /\ made' <= MaxEvents
        /\ run' \in [sequence : Nat, events : Seq(Event), finished : BOOLEAN, known : BOOLEAN]
        /\ handing' = [handing EXCEPT ![p] = [item |-> event, to |-> subscribers]]
    BY <1>4, PublishFacts
  <2> HIDE DEF event
  <2>2. [item |-> event, to |-> subscribers] \in [item : Items, to : SUBSET Streams]
    BY <2>1 DEF Shape, Items
  <2>3. handing' \in [Threads -> [item : Items, to : SUBSET Streams]]
    BY <2>1, <2>2 DEF Shape
  <2>4. made' \in 0..MaxEvents
    BY <2>1 DEF Shape
  <2> QED
    BY <1>4, <2>1, <2>3, <2>4 DEF Publish, Shape
<1>5. ASSUME NEW p \in Threads, NEW s \in Streams, Deliver(p, s)
      PROVE  Shape'
  <2>1. handing' \in [Threads -> [item : Items, to : SUBSET Streams]]
    <3>1. handing' = [handing EXCEPT ![p] = [handing[p] EXCEPT !.to = @ \ {s}]]
      BY <1>5 DEF Deliver
    <3>2. [handing[p] EXCEPT !.to = @ \ {s}] \in [item : Items, to : SUBSET Streams]
      <4>1. handing[p] \in [item : Items, to : SUBSET Streams]
        BY DEF Shape
      <4>2. handing[p].to \ {s} \in SUBSET Streams
        BY <4>1
      <4> QED
        BY <4>1, <4>2
    <3> QED
      BY <3>1, <3>2 DEF Shape
  <2>2. queue' \in [Streams -> Seq(Items)]
    <3>1. Append(queue[s], handing[p].item) \in Seq(Items)
      BY AppendElements DEF Shape
    <3> QED
      BY <1>5, <3>1 DEF Deliver, Shape
  <2> QED
    BY <1>5, <2>1, <2>2 DEF Deliver, Shape
<1>6. ASSUME NEW s \in Streams, Claim(s)
      PROVE  Shape'
  BY <1>6, OpenFacts DEF Claim, Goto, Shape, Stages
<1>7. ASSUME NEW s \in Streams, Subscribe(s)
      PROVE  Shape'
  BY <1>7 DEF Subscribe, Goto, Shape, Stages
<1>8. ASSUME NEW s \in Streams, Replay(s)
      PROVE  Shape'
  <2>1. CASE run.events = <<>>
    BY <1>8, <2>1 DEF Replay, Goto, Shape, Stages
  <2>2. CASE run.events # <<>>
    <3>1. run.events[Len(run.events)] \in Event
      BY <2>2, LenProperties, EmptySeq DEF Shape
    <3>2. run.events[Len(run.events)].sequence \in 0..MaxEvents
      BY <3>1 DEF Event
    <3> QED
      BY <1>8, <2>2, <3>2 DEF Replay, Goto, Shape, Stages
  <2> QED
    BY <2>1, <2>2
<1>9. ASSUME NEW s \in Streams, Check(s)
      PROVE  Shape'
  <2>1. CASE run.finished
    BY <1>9, <2>1, LeaveFacts DEF Check, Shape
  <2>2. CASE ~run.finished
    BY <1>9, <2>2 DEF Check, Goto, Shape, Stages
  <2> QED
    BY <2>1, <2>2
<1>10. ASSUME NEW s \in Streams, Take(s)
       PROVE  Shape'
  <2>1. CASE Head(queue[s]) = End
    BY <1>10, <2>1, LeaveFacts DEF Take, Shape
  <2>2. CASE Head(queue[s]) # End
    BY <1>10, <2>2, TakeFacts DEF Shape
  <2> QED
    BY <2>1, <2>2
<1>11. ASSUME NEW s \in Streams, Wait(s)
       PROVE  Shape'
  <2>1. CASE Leave(s, "done")
    <3>1. "done" \in {"done", "gone"}
      OBVIOUS
    <3> QED
      BY <1>11, <2>1, <3>1, LeaveFacts DEF Wait, Shape
  <2>2. CASE UNCHANGED <<bus, turn, stage, queue>>
    BY <1>11, <2>2 DEF Wait, Shape
  <2> QED
    BY <1>11, <2>1, <2>2 DEF Wait
<1>12. ASSUME NEW s \in Streams, Disconnect(s)
       PROVE  Shape'
  BY <1>12, LeaveFacts DEF Disconnect, Shape
<1> QED
  BY <1>1, <1>2, <1>3, <1>4, <1>5, <1>6, <1>7, <1>8, <1>9, <1>10, <1>11, <1>12
     DEF Next, Stream

LEMMA NumberedStays ==
  ASSUME Shape, Numbered, Next
  PROVE  Numbered'
<1>0. ASSUME UNCHANGED <<run, made, evictions>>
      PROVE  Numbered'
  BY <1>0 DEF Numbered
<1>1. ASSUME run' = OpenRun, UNCHANGED <<made, evictions>>
      PROVE  Numbered'
  <2>1. /\ run'.sequence = run.sequence /\ run'.events = run.events /\ run'.known
    BY <1>1, OpenFacts
  <2> QED
    BY <1>1, <2>1 DEF Numbered
<1>2. CASE Close
  <2>1. run' = [run EXCEPT !.finished = TRUE] /\ UNCHANGED <<made, evictions>>
    BY <1>2 DEF Close
  <2>2. /\ run'.sequence = run.sequence /\ run'.events = run.events
        /\ run'.known = run.known
    BY <2>1 DEF Shape
  <2> QED
    BY <2>1, <2>2 DEF Numbered
<1>3. CASE Evict
  <2>1. run' = NoRun /\ made' = made /\ evictions' # 0
    BY <1>3 DEF Evict, Shape
  <2>2. /\ NoRun.sequence = 0 /\ Len(NoRun.events) = 0 /\ DOMAIN NoRun.events = {}
        /\ NoRun.events = <<>> /\ made \in Nat
    BY DEF NoRun, Shape
  <2> QED
    BY <2>1, <2>2 DEF Numbered
<1>4. ASSUME NEW p \in Publishers, Publish(p)
      PROVE  Numbered'
  <2> DEFINE event == [id |-> made + 1, sequence |-> OpenRun.sequence + 1]
             longer == Append(run.events, event)
             kept == Newest(longer)
  <2>1. /\ event \in Event /\ made' = made + 1 /\ evictions' = evictions
        /\ run'.sequence = run.sequence + 1 /\ run'.known /\ run'.events = kept
        /\ event.sequence = run.sequence + 1
    BY <1>4, PublishFacts DEF Publish
  <2> HIDE DEF event
  <2>2. /\ longer \in Seq(Event) /\ Len(longer) = Len(run.events) + 1
        /\ \A k \in 1..Len(run.events) : longer[k] = run.events[k]
        /\ longer[Len(run.events) + 1] = event
        /\ DOMAIN run.events = 1..Len(run.events) /\ Len(run.events) \in Nat
    BY <2>1, AppendElements DEF Shape
  <2> HIDE DEF longer
  <2>3. /\ Len(kept) <= Keep /\ Len(kept) <= Len(longer) /\ Len(kept) \in Nat
        /\ DOMAIN kept = 1..Len(kept)
        /\ \A i \in 1..Len(kept) : kept[i] = longer[Len(longer) - Len(kept) + i]
    BY <2>2, NewestFacts
  <2> HIDE DEF kept
  <2>4. run.sequence \in Nat /\ made \in Nat /\ Keep \in Nat
    BY DEF Shape
  <2>5. ASSUME NEW i \in 1..Len(kept)
        PROVE  kept[i].sequence = run'.sequence - Len(kept) + i
    <3> DEFINE k == Len(run.events) + 1 - Len(kept) + i
    <3>1. k \in 1..Len(run.events) + 1 /\ k \in Int /\ i \in Int /\ kept[i] = longer[k]
      BY <2>2, <2>3
    <3>2. run'.sequence - Len(kept) + i = run.sequence - Len(run.events) + k
      BY <2>1, <2>2, <2>3, <2>4, <3>1
    <3> HIDE DEF k
    <3>3. CASE k = Len(run.events) + 1
      <4>1. kept[i].sequence = run.sequence + 1
        BY <2>1, <2>2, <3>1, <3>3
      <4>2. run.sequence - Len(run.events) + k = run.sequence + 1
        BY <2>2, <2>4, <3>3
      <4> QED
        BY <3>2, <4>1, <4>2
    <3>4. CASE k \in 1..Len(run.events)
      <4>1. kept[i] = run.events[k] /\ k \in DOMAIN run.events
        BY <2>2, <3>1, <3>4
      <4>2. run.events[k].sequence = run.sequence - Len(run.events) + k
        BY <4>1 DEF Numbered
      <4> QED
        BY <3>2, <4>1, <4>2
    <3> QED
      BY <2>2, <3>1, <3>3, <3>4
  <2>6. run'.sequence <= made' /\ Len(kept) <= run'.sequence
    BY <2>1, <2>2, <2>3, <2>4 DEF Numbered
  <2> QED
    BY <2>1, <2>3, <2>5, <2>6 DEF Numbered
<1>5. ASSUME NEW s \in Streams, Stream(s) \/ Disconnect(s)
      PROVE  UNCHANGED <<run, made, evictions>>
  BY <1>5 DEF Stream, Disconnect, Subscribe, Replay, Check, Take, Wait, Leave
<1> QED
  BY <1>0, <1>1, <1>2, <1>3, <1>4, <1>5 DEF Next, Open, Claim, Deliver

LEMMA PatientStays ==
  ASSUME Shape, Patient, Next
  PROVE  Patient'
<1>0. idle \in [Streams -> 0..MaxIdle]
  BY DEF Patient
<1>1. ASSUME UNCHANGED <<idle, stage>>
      PROVE  Patient'
  BY <1>1 DEF Patient
<1>2. ASSUME NEW s \in Streams, idle' = idle,
             stage[s] \notin {"done", "gone"}, stage' = [stage EXCEPT ![s] = stage'[s]]
      PROVE  Patient'
  BY <1>2 DEF Patient, Shape
<1>3. ASSUME NEW s \in Streams, Claim(s) \/ Subscribe(s) \/ Replay(s) \/ Check(s) \/ Disconnect(s)
      PROVE  Patient'
  <2>1. /\ idle' = idle /\ stage[s] \notin {"done", "gone"}
        /\ stage' = [stage EXCEPT ![s] = stage'[s]]
    BY <1>3 DEF Claim, Subscribe, Replay, Check, Disconnect, Leave, Goto, Shape
  <2> QED
    BY <1>2, <2>1
<1>4. ASSUME NEW s \in Streams, Take(s)
      PROVE  Patient'
  <2>1. CASE Head(queue[s]) = End
    <3>1. /\ idle' = idle /\ stage[s] = "live" /\ stage' = [stage EXCEPT ![s] = stage'[s]]
      BY <1>4, <2>1 DEF Take, Leave, Goto, Shape
    <3> QED
      BY <1>2, <3>1
  <2>2. CASE Head(queue[s]) # End
    <3>1. idle' = [idle EXCEPT ![s] = 0] /\ stage' = stage
      BY <1>4, <2>2, TakeFacts
    <3> QED
      BY <1>0, <3>1 DEF Patient
  <2> QED
    BY <2>1, <2>2
<1>5. ASSUME NEW s \in Streams, Wait(s)
      PROVE  Patient'
  <2>1. idle[s] \in 0..MaxIdle /\ idle[s] < MaxIdle
    BY <1>5 DEF Patient, Wait
  <2>2. /\ idle' \in [Streams -> 0..MaxIdle] /\ idle'[s] = idle[s] + 1
        /\ \A q \in Streams \ {s} : idle'[q] = idle[q]
    BY <1>0, <1>5, <2>1 DEF Wait
  <2>3. CASE Leave(s, "done")
    BY <2>2, <2>3 DEF Leave, Goto, Patient, Shape
  <2>4. CASE idle'[s] < MaxIdle /\ stage' = stage
    BY <2>2, <2>4 DEF Patient
  <2> QED
    BY <1>5, <2>1, <2>2, <2>3, <2>4 DEF Wait
<1> QED
  BY <1>1, <1>3, <1>4, <1>5
     DEF Next, Stream, Open, Close, Evict, Publish, Deliver

\* What a thread hands over arrives, unless nobody reads the queue any more.
LEMMA DeliverFacts ==
  ASSUME Shape, NEW p \in Threads, NEW s \in Streams, Deliver(p, s)
  PROVE  /\ s \in handing[p].to /\ handing' \in [Threads -> [item : Items, to : SUBSET Streams]]
         /\ \A q \in Threads : /\ handing'[q].item = handing[q].item
                               /\ handing'[q].to \subseteq handing[q].to
                               /\ \A r \in Streams : r \in handing[q].to =>
                                    r \in handing'[q].to \/ (q = p /\ r = s)
         /\ Elements(queue[s]) \subseteq Elements(queue'[s])
         /\ Elements(queue'[s]) \subseteq Elements(queue[s]) \cup {handing[p].item}
         /\ s \in subscribers => handing[p].item \in Elements(queue'[s])
         /\ \A r \in Streams \ {s} : queue'[r] = queue[r]
         /\ UNCHANGED <<run, made, evictions, subscribers, turn, stage, sent, seen, idle,
                        skipped>>
<1>1. /\ handing' = [handing EXCEPT ![p] = [handing[p] EXCEPT !.to = @ \ {s}]]
      /\ queue' = [queue EXCEPT ![s] = IF s \in subscribers
                                       THEN Append(queue[s], handing[p].item) ELSE queue[s]]
      /\ s \in handing[p].to
      /\ UNCHANGED <<run, made, evictions, subscribers, turn, stage, sent, seen, idle,
                     skipped>>
  BY DEF Deliver
<1>2. /\ handing' \in [Threads -> [item : Items, to : SUBSET Streams]]
      /\ handing'[p].item = handing[p].item /\ handing'[p].to = handing[p].to \ {s}
      /\ \A q \in Threads \ {p} : handing'[q] = handing[q]
  <2>1. handing[p] \in [item : Items, to : SUBSET Streams]
    BY DEF Shape
  <2>2. /\ [handing[p] EXCEPT !.to = @ \ {s}] \in [item : Items, to : SUBSET Streams]
        /\ [handing[p] EXCEPT !.to = @ \ {s}].item = handing[p].item
        /\ [handing[p] EXCEPT !.to = @ \ {s}].to = handing[p].to \ {s}
    BY <2>1
  <2> QED
    BY <1>1, <2>2 DEF Shape
<1>3. /\ queue'[s] = IF s \in subscribers THEN Append(queue[s], handing[p].item) ELSE queue[s]
      /\ \A r \in Streams \ {s} : queue'[r] = queue[r]
  BY <1>1 DEF Shape
<1>4. Elements(Append(queue[s], handing[p].item)) = Elements(queue[s]) \cup {handing[p].item}
  <2>1. queue[s] \in Seq(Items) /\ handing[p].item \in Items
    BY DEF Shape
  <2> QED
    BY <2>1, AppendElements
<1>5. /\ Elements(queue[s]) \subseteq Elements(queue'[s])
      /\ Elements(queue'[s]) \subseteq Elements(queue[s]) \cup {handing[p].item}
      /\ s \in subscribers => handing[p].item \in Elements(queue'[s])
  <2>1. CASE s \in subscribers
    BY <1>3, <1>4, <2>1
  <2>2. CASE s \notin subscribers
    BY <1>3, <2>2
  <2> QED
    BY <2>1, <2>2
<1> QED
  BY <1>1, <1>2, <1>3, <1>5

\* What a stream shows first, and what it has seen then.
LEMMA ReplayFacts ==
  ASSUME Shape, Numbered, NEW s \in Streams, Replay(s)
  PROVE  /\ stage[s] = "subscribed" /\ stage' = [stage EXCEPT ![s] = "replayed"]
         /\ sent'[s] = run.events
         /\ \A i \in DOMAIN run.events : run.events[i].sequence <= seen'[s]
         /\ \A r \in Streams \ {s} : sent'[r] = sent[r] /\ seen'[r] = seen[r]
         /\ UNCHANGED <<bus, turn, queue, idle, skipped>>
<1>1. /\ stage[s] = "subscribed" /\ stage' = [stage EXCEPT ![s] = "replayed"]
      /\ sent'[s] = run.events
      /\ \A r \in Streams \ {s} : sent'[r] = sent[r] /\ seen'[r] = seen[r]
      /\ seen'[s] = IF run.events = <<>> THEN 0 ELSE run.events[Len(run.events)].sequence
      /\ UNCHANGED <<bus, turn, queue, idle, skipped>>
  BY DEF Replay, Goto, Shape
<1>2. ASSUME NEW i \in DOMAIN run.events
      PROVE  run.events[i].sequence <= seen'[s]
  <2>1. /\ DOMAIN run.events = 1..Len(run.events) /\ Len(run.events) \in Nat
        /\ run.events # <<>> /\ i \in 1..Len(run.events) /\ i \in Int
        /\ Len(run.events) \in DOMAIN run.events /\ run.sequence \in Nat
    BY LenProperties, EmptySeq DEF Shape
  <2>2. /\ run.events[i].sequence = run.sequence - Len(run.events) + i
        /\ run.events[Len(run.events)].sequence
             = run.sequence - Len(run.events) + Len(run.events)
    BY <2>1 DEF Numbered
  <2> QED
    BY <1>1, <2>1, <2>2
<1> QED
  BY <1>1, <1>2

\* A stream ends: its queue is empty and what it has shown stays.
LEMMA EndFacts ==
  ASSUME Shape, NEW s \in Streams,
         \/ Check(s) /\ run.finished
         \/ Take(s) /\ Head(queue[s]) = End
         \/ Wait(s) /\ Leave(s, "done")
         \/ Disconnect(s)
  PROVE  /\ stage[s] \notin {"new", "done", "gone"} /\ stage'[s] \in {"done", "gone"}
         /\ queue'[s] = <<>>
         /\ \A q \in Streams \ {s} : stage'[q] = stage[q] /\ queue'[q] = queue[q]
         /\ UNCHANGED <<run, made, evictions, handing, turn, sent, seen, skipped>>
<1>1. \/ Leave(s, "done")
      \/ Leave(s, "gone")
  BY DEF Check, Take, Wait, Disconnect
<1>2. /\ stage[s] \notin {"new", "done", "gone"}
      /\ UNCHANGED <<sent, seen, skipped>>
  BY DEF Check, Take, Wait, Disconnect
<1> QED
  BY <1>1, <1>2, LeaveFacts

\* Who holds an event after a step that publishes none had it before.
LEMMA NothingNew ==
  ASSUME Shape, Numbered, Next, \A p \in Publishers : ~Publish(p)
  PROVE  /\ \A e \in Items : Held(e)' => Held(e) \/ e = End
         /\ made' = made /\ (evictions' = 0 => evictions = 0)
<1> DEFINE H == {e \in Items : Held(e)} \cup {End}
           Within == /\ Elements(run'.events) \subseteq H
                     /\ \A p \in Threads : handing'[p].item \in H
                     /\ \A s \in Streams : /\ Elements(queue'[s]) \subseteq H
                                           /\ Elements(sent'[s]) \subseteq H
           Quiet  == made' = made /\ (evictions' = 0 => evictions = 0)
<1>a. /\ Elements(run.events) \subseteq H
      /\ \A p \in Threads : handing[p].item \in H
      /\ \A s \in Streams : Elements(queue[s]) \subseteq H /\ Elements(sent[s]) \subseteq H
  <2>1. Elements(run.events) \subseteq Items
    BY LenProperties, ElementOfSeq DEF Shape, Elements, Items
  <2>2. \A p \in Threads : handing[p].item \in Items
    BY DEF Shape
  <2>3. ASSUME NEW s \in Streams
        PROVE  Elements(queue[s]) \subseteq Items /\ Elements(sent[s]) \subseteq Items
    <3>1. queue[s] \in Seq(Items) /\ sent[s] \in Seq(Event)
      BY DEF Shape
    <3> QED
      BY <3>1, LenProperties, ElementOfSeq DEF Elements, Items
  <2> QED
    BY <2>1, <2>2, <2>3 DEF Held
<1>b. Elements(<<>>) = {} /\ End \in H
  BY DEF Elements
<1> HIDE DEF H
<1>1. ASSUME Open
      PROVE  Within /\ Quiet
  BY <1>1, <1>a, OpenFacts DEF Open
<1>2. ASSUME Close
      PROVE  Within /\ Quiet
  <2>1. /\ run' = [run EXCEPT !.finished = TRUE]
        /\ handing' = [handing EXCEPT !["boundary"] = [item |-> End, to |-> subscribers]]
        /\ UNCHANGED <<made, evictions, queue, sent>>
    BY <1>2 DEF Close
  <2>2. run'.events = run.events
    BY <2>1 DEF Shape
  <2>3. \A p \in Threads : handing'[p].item \in H
    BY <1>a, <1>b, <2>1 DEF Shape
  <2> QED
    BY <1>a, <2>1, <2>2, <2>3
<1>3. ASSUME Evict
      PROVE  Within /\ Quiet
  <2>1. /\ run' = NoRun /\ evictions' = evictions + 1 /\ evictions \in Nat
        /\ UNCHANGED <<made, handing, queue, sent>>
    BY <1>3 DEF Evict, Shape
  <2>2. run'.events = <<>> /\ evictions' # 0
    BY <2>1 DEF NoRun
  <2>3. Elements(run'.events) = {}
    BY <1>b, <2>2
  <2>4. UNCHANGED <<made, handing, queue, sent>>
    BY <2>1
  <2>5. Within
    BY <1>a, <2>3, <2>4
  <2> QED
    BY <2>2, <2>4, <2>5
<1>4. ASSUME NEW p \in Threads, NEW s \in Streams, Deliver(p, s)
      PROVE  Within /\ Quiet
  <2>1. /\ UNCHANGED <<run, made, evictions, sent>>
        /\ \A q \in Threads : handing'[q].item = handing[q].item
        /\ Elements(queue'[s]) \subseteq Elements(queue[s]) \cup {handing[p].item}
        /\ \A r \in Streams \ {s} : queue'[r] = queue[r]
    BY <1>4, DeliverFacts
  <2>2. Elements(queue'[s]) \subseteq H
    BY <1>a, <2>1
  <2> QED
    BY <1>a, <2>1, <2>2
<1>5. ASSUME NEW s \in Streams, Claim(s) \/ Subscribe(s)
      PROVE  Within /\ Quiet
  BY <1>5, <1>a, OpenFacts DEF Claim, Subscribe
<1>6. ASSUME NEW s \in Streams, Replay(s)
      PROVE  Within /\ Quiet
  BY <1>6, <1>a, ReplayFacts
<1>7. ASSUME NEW s \in Streams,
             \/ Check(s) /\ run.finished
             \/ Take(s) /\ Head(queue[s]) = End
             \/ Wait(s) /\ Leave(s, "done")
             \/ Disconnect(s)
      PROVE  Within /\ Quiet
  BY <1>7, <1>a, <1>b, EndFacts
<1>8. ASSUME NEW s \in Streams,
             \/ Check(s) /\ ~run.finished
             \/ Wait(s) /\ ~Leave(s, "done")
      PROVE  Within /\ Quiet
  BY <1>8, <1>a DEF Check, Wait
<1>9. ASSUME NEW s \in Streams, Take(s), Head(queue[s]) # End
      PROVE  Within /\ Quiet
  <2> DEFINE item == Head(queue[s])
  <2>1. /\ UNCHANGED <<bus, turn, stage>>
        /\ Elements(queue[s]) = Elements(queue'[s]) \cup {item}
        /\ \A q \in Streams \ {s} : queue'[q] = queue[q] /\ sent'[q] = sent[q]
        /\ sent' = sent \/ sent'[s] = Append(sent[s], item)
        /\ item \in Event
    BY <1>9, TakeFacts
  <2>2. Elements(Append(sent[s], item)) = Elements(sent[s]) \cup {item}
    BY <2>1, AppendElements DEF Shape
  <2> HIDE DEF item
  <2>3. Elements(queue'[s]) \subseteq H /\ Elements(sent'[s]) \subseteq H
    BY <1>a, <2>1, <2>2
  <2> QED
    BY <1>a, <2>1, <2>3
<1>10. Within /\ Quiet
  BY <1>1, <1>2, <1>3, <1>4, <1>5, <1>6, <1>7, <1>8, <1>9 DEF Next, Stream
<1> QED
  BY <1>10 DEF Held, H

\* Who holds an event after a publication: nobody but the publisher and the history has it.
LEMMA OneIsNew ==
  ASSUME Shape, Numbered, NEW p \in Publishers, Publish(p)
  PROVE  LET event == [id |-> made + 1, sequence |-> OpenRun.sequence + 1] IN
         \A e \in Items : Held(e)' => Held(e) \/ e = event
<1> DEFINE event == [id |-> made + 1, sequence |-> OpenRun.sequence + 1]
<1>1. /\ event \in Event /\ run'.events = Newest(Append(run.events, event))
      /\ handing' = [handing EXCEPT ![p] = [item |-> event, to |-> subscribers]]
      /\ UNCHANGED streams
  BY PublishFacts DEF Publish
<1> HIDE DEF event
<1>2. Elements(run'.events) \subseteq Elements(run.events) \cup {event}
  <2>1. /\ Append(run.events, event) \in Seq(Event)
        /\ Elements(Append(run.events, event)) = Elements(run.events) \cup {event}
    BY <1>1, AppendElements DEF Shape
  <2> QED
    BY <1>1, <2>1, NewestFacts
<1>3. \A q \in Threads : handing'[q].item \in {handing[q].item, event}
  BY <1>1 DEF Shape
<1>4. \A e \in Items : Held(e)' => Held(e) \/ e = event
  BY <1>1, <1>2, <1>3 DEF Held
<1> QED
  BY <1>4 DEF event

LEMMA NamesStay ==
  ASSUME Shape, Numbered, NamesTell, Next
  PROVE  NamesTell'
<1>0. made \in Nat /\ End \in Items /\ End.id = 0 /\ End.sequence = 0
      /\ \A e \in Items : e.id = 0 => e = End
  BY DEF Shape, Items, End, Event
<1>1. CASE \A p \in Publishers : ~Publish(p)
  <2>1. /\ \A e \in Items : Held(e)' => Held(e) \/ e = End
        /\ made' = made /\ (evictions' = 0 => evictions = 0)
    BY <1>1, NothingNew
  <2> SUFFICES ASSUME NEW e \in Items, Held(e)'
               PROVE  /\ e.id <= made /\ (evictions = 0 => e.id = e.sequence)
                      /\ \A f \in Items : Held(f)' /\ f.id = e.id => f = e
    BY <2>1 DEF NamesTell
  <2>2. CASE e = End
    BY <1>0, <2>2
  <2>3. CASE e # End
    BY <1>0, <2>1, <2>3 DEF NamesTell
  <2> QED
    BY <2>2, <2>3
<1>2. ASSUME NEW p \in Publishers, Publish(p)
      PROVE  NamesTell'
  <2> DEFINE event == [id |-> made + 1, sequence |-> OpenRun.sequence + 1]
  <2>1. /\ \A e \in Items : Held(e)' => Held(e) \/ e = event
        /\ event.id = made + 1 /\ event.sequence = run.sequence + 1 /\ made' = made + 1
        /\ evictions' = evictions
    BY <1>2, OneIsNew, PublishFacts DEF Publish
  <2> HIDE DEF event
  <2>2. \A e \in Items : Held(e) => e.id <= made /\ e.id # event.id /\ e.id <= made + 1
    <3>1. \A e \in Items : e.id \in Nat
      BY DEF Items, Event, End
    <3> QED
      BY <1>0, <2>1, <3>1 DEF NamesTell
  <2>3. evictions = 0 => event.id = event.sequence
    BY <2>1 DEF Numbered
  <2>4. ASSUME NEW e \in Items, Held(e)'
        PROVE  /\ e.id <= made + 1 /\ (evictions = 0 => e.id = e.sequence)
               /\ \A f \in Items : Held(f)' /\ f.id = e.id => f = e
    <3>1. CASE e = event
      BY <1>0, <2>1, <2>2, <2>3, <3>1
    <3>2. CASE e # event
      BY <2>1, <2>2, <2>4, <3>2 DEF NamesTell
    <3> QED
      BY <3>1, <3>2
  <2> QED
    BY <2>1, <2>4 DEF NamesTell
<1> QED
  BY <1>1, <1>2

LEMMA RisingStays ==
  ASSUME Shape, Numbered, Rising, Next
  PROVE  Rising'
<1> DEFINE Rises(s) ==
      /\ stage'[s] \in Before => sent'[s] = <<>>
      /\ \A i \in DOMAIN sent'[s] : sent'[s][i].sequence <= seen'[s]
      /\ \A i, j \in DOMAIN sent'[s] : i < j => sent'[s][i].sequence < sent'[s][j].sequence
<1>1. ASSUME NEW s \in Streams, sent'[s] = sent[s], seen'[s] = seen[s],
             stage'[s] \in Before => stage[s] \in Before
      PROVE  Rises(s)
  BY <1>1 DEF Rising
<1> SUFFICES ASSUME NEW s \in Streams
             PROVE  Rises(s)
  BY DEF Rising
<1>2. CASE UNCHANGED <<stage, sent, seen>>
  BY <1>1, <1>2
<1>3. ASSUME NEW r \in Streams, Claim(r) \/ Subscribe(r) \/ (Check(r) /\ ~run.finished)
      PROVE  Rises(s)
  BY <1>1, <1>3 DEF Claim, Subscribe, Check, Goto, Shape, Before
<1>4. ASSUME NEW r \in Streams, Replay(r)
      PROVE  Rises(s)
  <2>1. CASE s # r
    <3>1. /\ stage' = [stage EXCEPT ![r] = "replayed"]
          /\ \A q \in Streams \ {r} : sent'[q] = sent[q] /\ seen'[q] = seen[q]
      BY <1>4, ReplayFacts
    <3>2. sent'[s] = sent[s] /\ seen'[s] = seen[s]
      BY ONLY <2>1, <3>1
    <3>3. stage'[s] = stage[s]
      BY <2>1, <3>1 DEF Shape
    <3> QED
      BY ONLY <1>1, <3>2, <3>3
  <2>2. CASE s = r
    <3>1. /\ stage'[s] = "replayed" /\ sent'[s] = run.events
          /\ \A i \in DOMAIN run.events : run.events[i].sequence <= seen'[s]
      BY <1>4, <2>2, ReplayFacts DEF Shape
    <3>2. ASSUME NEW i \in DOMAIN run.events, NEW j \in DOMAIN run.events, i < j
          PROVE  run.events[i].sequence < run.events[j].sequence
      <4>1. /\ run.events[i].sequence = run.sequence - Len(run.events) + i
            /\ run.events[j].sequence = run.sequence - Len(run.events) + j
        BY DEF Numbered
      <4>2. i \in Int /\ j \in Int /\ Len(run.events) \in Int /\ run.sequence \in Int
        BY LenProperties DEF Shape
      <4> QED
        BY <3>2, <4>1, <4>2
    <3> QED
      BY <3>1, <3>2 DEF Before
  <2> QED
    BY <2>1, <2>2
<1>5. ASSUME NEW r \in Streams,
             \/ Check(r) /\ run.finished
             \/ Take(r) /\ Head(queue[r]) = End
             \/ Wait(r) /\ Leave(r, "done")
             \/ Disconnect(r)
      PROVE  Rises(s)
  <2>1. stage'[s] \in Before => stage[s] \in Before
    BY <1>5, EndFacts DEF Before
  <2> QED
    BY <1>1, <1>5, <2>1, EndFacts
<1>6. ASSUME NEW r \in Streams, Take(r), Head(queue[r]) # End
      PROVE  Rises(s)
  <2> DEFINE item == Head(queue[r])
  <2>1. CASE s # r \/ (sent' = sent /\ seen' = seen)
    BY <1>1, <1>6, <2>1, TakeFacts
  <2>2. CASE s = r /\ ~(sent' = sent /\ seen' = seen)
    <3>1. /\ item \in Event /\ stage'[s] = "live" /\ item.sequence > seen[s]
          /\ sent'[s] = Append(sent[s], item) /\ seen'[s] = item.sequence
      BY <1>6, <2>2, TakeFacts
    <3> HIDE DEF item
    <3>2. /\ sent[s] \in Seq(Event) /\ seen[s] \in Nat /\ item.sequence \in Nat
          /\ \A i \in DOMAIN sent[s] : sent[s][i].sequence \in Nat
      <4>1. sent[s] \in Seq(Event) /\ seen[s] \in Nat /\ item.sequence \in Nat
        <5>1. item.sequence \in Nat
          BY <3>1 DEF Event
        <5>2. sent[s] \in Seq(Event) /\ seen[s] \in 0..MaxEvents
          BY DEF Shape
        <5> QED
          BY <5>1, <5>2
      <4>2. \A i \in DOMAIN sent[s] : sent[s][i] \in Event
        BY <4>1, LenProperties, ElementOfSeq
      <4> QED
        BY <4>1, <4>2 DEF Event
    <3>3. /\ DOMAIN sent'[s] = 1..Len(sent[s]) + 1 /\ DOMAIN sent[s] = 1..Len(sent[s])
          /\ Len(sent[s]) \in Nat
          /\ \A i \in 1..Len(sent[s]) : sent'[s][i] = sent[s][i]
          /\ sent'[s][Len(sent[s]) + 1] = item
      BY <3>1, <3>2, AppendElements
    <3>4. ASSUME NEW i \in 1..Len(sent[s])
          PROVE  sent'[s][i].sequence < item.sequence
      BY <3>1, <3>2, <3>3 DEF Rising
    <3>5. ASSUME NEW i \in DOMAIN sent'[s]
          PROVE  sent'[s][i].sequence <= seen'[s]
      <4>1. CASE i = Len(sent[s]) + 1
        BY <3>1, <3>2, <3>3, <4>1
      <4>2. CASE i \in 1..Len(sent[s])
        BY <3>1, <3>2, <3>3, <3>4, <4>2
      <4> QED
        BY <3>3, <4>1, <4>2
    <3>6. ASSUME NEW i \in DOMAIN sent'[s], NEW j \in DOMAIN sent'[s], i < j
          PROVE  sent'[s][i].sequence < sent'[s][j].sequence
      <4>1. i \in 1..Len(sent[s])
        BY <3>3, <3>6
      <4>2. CASE j = Len(sent[s]) + 1
        BY <3>3, <3>4, <4>1, <4>2
      <4>3. CASE j \in 1..Len(sent[s])
        BY <3>3, <3>6, <4>1, <4>3 DEF Rising
      <4> QED
        BY <3>3, <4>2, <4>3
    <3> QED
      BY <3>1, <3>5, <3>6 DEF Before
  <2> QED
    BY <2>1, <2>2
<1>7. ASSUME NEW r \in Streams, Wait(r), ~Leave(r, "done")
      PROVE  UNCHANGED <<stage, sent, seen>>
  BY <1>7 DEF Wait
<1>8. CASE Open \/ Close \/ Evict
  BY <1>2, <1>8 DEF Open, Close, Evict
<1>9. ASSUME NEW p, NEW r, Publish(p) \/ Deliver(p, r)
      PROVE  Rises(s)
  BY <1>2, <1>9 DEF Publish, Deliver
<1> QED
  BY <1>2, <1>3, <1>4, <1>5, <1>6, <1>7, <1>8, <1>9 DEF Next, Stream

\* No window: what a connected stream owes its reader it has shown, or it is on its way.
LEMMA BetweenStays ==
  ASSUME Shape, Numbered, NothingBetween, Next
  PROVE  NothingBetween'
<1> DEFINE Owed(s, e) ==
      \/ e \in Elements(sent[s]) \cup Elements(queue[s]) \cup skipped[s]
      \/ \E p \in Publishers : handing[p].item = e /\ s \in handing[p].to
           Covered(s, e) ==
      \/ e \in Elements(sent'[s]) \cup Elements(queue'[s]) \cup skipped'[s]
      \/ \E p \in Publishers : handing'[p].item = e /\ s \in handing'[p].to
<1>a. \A s \in Streams : stage[s] \in {"replayed", "live"} =>
        \A e \in Elements(run.events) : Owed(s, e)
  BY DEF NothingBetween
<1> SUFFICES ASSUME NEW s \in Streams, stage'[s] \in {"replayed", "live"},
                    NEW e \in Elements(run'.events)
             PROVE  Covered(s, e)
  BY DEF NothingBetween
<1>b. Publishers \subseteq Threads /\ "boundary" \notin Publishers
  BY DEF Threads
<1>1. ASSUME stage[s] \in {"replayed", "live"}, e \in Elements(run.events),
             sent'[s] = sent[s], Elements(queue[s]) \subseteq Elements(queue'[s]),
             skipped'[s] = skipped[s],
             \A p \in Publishers : s \in handing[p].to => handing'[p] = handing[p]
      PROVE  Covered(s, e)
  BY <1>1, <1>a
<1>2. CASE run'.events = run.events /\ UNCHANGED <<handing, streams>>
  BY <1>1, <1>2
<1>3. CASE Close
  <2>1. /\ run' = [run EXCEPT !.finished = TRUE] /\ UNCHANGED streams
        /\ handing' = [handing EXCEPT !["boundary"] = [item |-> End, to |-> subscribers]]
    BY <1>3 DEF Close
  <2>2. run'.events = run.events
    BY <2>1 DEF Shape
  <2>3. \A p \in Publishers : handing'[p] = handing[p]
    BY <1>b, <2>1 DEF Shape
  <2> QED
    BY <1>1, <2>1, <2>2, <2>3
<1>4. CASE Evict
  <2>1. run'.events = <<>>
    BY <1>4 DEF Evict, NoRun
  <2> QED
    BY <2>1 DEF Elements
<1>5. ASSUME NEW p \in Publishers, Publish(p)
      PROVE  Covered(s, e)
  <2> DEFINE event == [id |-> made + 1, sequence |-> OpenRun.sequence + 1]
  <2>1. /\ event \in Event /\ run'.events = Newest(Append(run.events, event))
        /\ handing' = [handing EXCEPT ![p] = [item |-> event, to |-> subscribers]]
        /\ UNCHANGED streams /\ handing[p].to = {}
    BY <1>5, PublishFacts DEF Publish
  <2> HIDE DEF event
  <2>2. e \in Elements(run.events) \cup {event}
    <3>1. /\ Append(run.events, event) \in Seq(Event)
          /\ Elements(Append(run.events, event)) = Elements(run.events) \cup {event}
      BY <2>1, AppendElements DEF Shape
    <3> QED
      BY <2>1, <3>1, NewestFacts
  <2>3. /\ handing'[p] = [item |-> event, to |-> subscribers]
        /\ \A q \in Publishers \ {p} : handing'[q] = handing[q]
    BY <1>b, <2>1 DEF Shape
  <2>4. CASE e = event
    <3>1. s \in subscribers
      BY <2>1 DEF Shape
    <3> QED
      BY <2>3, <2>4, <3>1
  <2>5. CASE e \in Elements(run.events)
    BY <1>1, <2>1, <2>3, <2>5
  <2> QED
    BY <2>2, <2>4, <2>5
<1>6. ASSUME NEW p \in Threads, NEW r \in Streams, Deliver(p, r)
      PROVE  Covered(s, e)
  <2>1. /\ stage[s] \in {"replayed", "live"} /\ s \in subscribers
        /\ e \in Elements(run.events) /\ UNCHANGED <<sent, skipped>>
    BY <1>6, DeliverFacts DEF Shape
  <2>2. Elements(queue[s]) \subseteq Elements(queue'[s])
    <3>1. CASE r = s
      BY <1>6, <3>1, DeliverFacts
    <3>2. CASE r # s
      BY <1>6, <3>2, DeliverFacts
    <3> QED
      BY <3>1, <3>2
  <2>3. CASE e \in Elements(sent[s]) \cup Elements(queue[s]) \cup skipped[s]
    BY <2>1, <2>2, <2>3
  <2>4. ASSUME NEW q \in Publishers, handing[q].item = e, s \in handing[q].to
        PROVE  Covered(s, e)
    <3>1. handing'[q].item = e
      BY <1>6, <1>b, <2>4, DeliverFacts
    <3>2. CASE s \in handing'[q].to
      BY <3>1, <3>2
    <3>3. CASE q = p /\ r = s
      BY <1>6, <2>1, <2>4, <3>3, DeliverFacts
    <3> QED
      BY <1>6, <1>b, <2>4, <3>2, <3>3, DeliverFacts
  <2> QED
    BY <1>a, <2>1, <2>3, <2>4
<1>7. ASSUME NEW r \in Streams, Claim(r) \/ Subscribe(r) \/ (Check(r) /\ ~run.finished)
      PROVE  Covered(s, e)
  <2>1. /\ run'.events = run.events /\ UNCHANGED <<handing, queue, sent, skipped>>
    BY <1>7, OpenFacts DEF Claim, Subscribe, Check
  <2>2. stage[s] \in {"replayed", "live"}
    BY <1>7 DEF Claim, Subscribe, Check, Goto, Shape
  <2> QED
    BY <1>1, <2>1, <2>2
<1>8. ASSUME NEW r \in Streams, Replay(r)
      PROVE  Covered(s, e)
  <2>1. CASE s = r
    BY <1>8, <2>1, ReplayFacts
  <2>2. CASE s # r
    <3>1. stage'[s] = stage[s] /\ sent'[s] = sent[s] /\ UNCHANGED <<run, handing, queue, skipped>>
      BY <1>8, <2>2, ReplayFacts DEF Shape
    <3> QED
      BY <1>1, <3>1
  <2> QED
    BY <2>1, <2>2
<1>9. ASSUME NEW r \in Streams,
             \/ Check(r) /\ run.finished
             \/ Take(r) /\ Head(queue[r]) = End
             \/ Wait(r) /\ Leave(r, "done")
             \/ Disconnect(r)
      PROVE  Covered(s, e)
  <2>1. s # r
    BY <1>9, EndFacts
  <2>2. /\ stage'[s] = stage[s] /\ queue'[s] = queue[s]
        /\ UNCHANGED <<run, handing, sent, skipped>>
    BY <1>9, <2>1, EndFacts
  <2> QED
    BY <1>1, <2>2
<1>10. ASSUME NEW r \in Streams, Take(r), Head(queue[r]) # End
       PROVE  Covered(s, e)
  <2> DEFINE item == Head(queue[r])
  <2>1. UNCHANGED <<run, handing, stage>>
    BY <1>10, TakeFacts
  <2>2. CASE s # r
    <3>1. sent'[s] = sent[s] /\ queue'[s] = queue[s] /\ skipped'[s] = skipped[s]
      BY <1>10, <2>2, TakeFacts
    <3> QED
      BY <1>1, <2>1, <3>1
  <2>3. CASE s = r
    <3>1. /\ item \in Event /\ Elements(queue[s]) = Elements(queue'[s]) \cup {item}
          /\ \/ sent'[s] = sent[s] /\ skipped'[s] = skipped[s] \cup {item}
             \/ sent'[s] = Append(sent[s], item) /\ skipped'[s] = skipped[s]
      BY <1>10, <2>3, TakeFacts
    <3> HIDE DEF item
    <3>2. Elements(Append(sent[s], item)) = Elements(sent[s]) \cup {item}
      BY <3>1, AppendElements DEF Shape
    <3>3. Owed(s, e)
      BY <1>a, <2>1
    <3> QED
      BY <2>1, <3>1, <3>2, <3>3
  <2> QED
    BY <2>2, <2>3
<1>11. ASSUME NEW r \in Streams, Wait(r), ~Leave(r, "done")
       PROVE  Covered(s, e)
  <2>1. UNCHANGED <<bus, stage, queue, sent, skipped>>
    BY <1>11 DEF Wait
  <2> QED
    BY <1>1, <2>1
<1>12. CASE Open
  BY <1>2, <1>12, OpenFacts DEF Open
<1> QED
  BY <1>3, <1>4, <1>5, <1>6, <1>7, <1>8, <1>9, <1>10, <1>11, <1>12 DEF Next, Stream

\* The marker of the end and a finished run speak the truth.
LEMMA EndStays ==
  ASSUME Shape, Numbered, Patient, EndIsTrue, Next
  PROVE  EndIsTrue'
<1> USE DEF Over
<1> SUFFICES ASSUME evictions' = 0, turn'.number <= 1
             PROVE  /\ run'.known /\ run'.finished => Over'
                    /\ \A p \in Threads : handing'[p].item = End /\ handing'[p].to # {} => Over'
                    /\ \A s \in Streams :
                         /\ stage'[s] # "new" => run'.known
                         /\ End \in Elements(queue'[s]) => Over'
                         /\ stage'[s] = "done" /\ idle'[s] < MaxIdle => Over'
  BY DEF EndIsTrue
<1> DEFINE Goal == /\ run'.known /\ run'.finished => Over'
                   /\ \A p \in Threads : handing'[p].item = End /\ handing'[p].to # {} => Over'
                   /\ \A s \in Streams :
                         /\ stage'[s] # "new" => run'.known
                         /\ End \in Elements(queue'[s]) => Over'
                         /\ stage'[s] = "done" /\ idle'[s] < MaxIdle => Over'
           Known == /\ run.known /\ run.finished => Over
                    /\ \A p \in Threads : handing[p].item = End /\ handing[p].to # {} => Over
                    /\ \A s \in Streams :
                         /\ stage[s] # "new" => run.known
                         /\ End \in Elements(queue[s]) => Over
                         /\ stage[s] = "done" /\ idle[s] < MaxIdle => Over
<1>a. evictions = 0 /\ turn.number <= 1 => Known
  BY DEF EndIsTrue
<1>b. Elements(<<>>) = {}
  BY DEF Elements
<1>c. evictions = 0
  BY NothingNew DEF Publish
<1>d. turn.number \in Nat /\ (turn.running => turn.number > 0)
  BY DEF Shape
<1>1. CASE Open
  <2>1. /\ turn.number = 0 /\ ~Over /\ ~turn.running /\ Known
    BY <1>1, <1>a, <1>c, <1>d DEF Open
  <2>2. /\ run' = OpenRun /\ UNCHANGED <<handing, streams>>
    BY <1>1 DEF Open
  <2>3. run'.known /\ ~run'.finished
    BY <2>1, <2>2, OpenFacts
  <2> QED
    BY <2>1, <2>2, <2>3
<1>2. CASE Close
  <2>1. turn'.number = turn.number /\ ~turn'.running /\ turn.running
    BY <1>2 DEF Close, Shape
  <2>2. Over' /\ Known
    BY <1>a, <1>c, <1>d, <2>1
  <2>3. run'.known = run.known /\ UNCHANGED streams
    BY <1>2 DEF Close, Shape
  <2> QED
    BY <2>2, <2>3
<1>3. CASE Evict
  <2>1. evictions' # 0
    BY <1>3 DEF Evict, Shape
  <2> QED
    BY <2>1
<1>4. ASSUME NEW p \in Publishers, Publish(p)
      PROVE  Goal
  <2> DEFINE event == [id |-> made + 1, sequence |-> OpenRun.sequence + 1]
  <2>1. /\ event \in Event /\ run'.known
        /\ run.known => run'.finished = run.finished
        /\ ~run.known => run'.finished = FALSE
        /\ handing' = [handing EXCEPT ![p] = [item |-> event, to |-> subscribers]]
        /\ UNCHANGED <<turn, streams>>
    BY <1>4, PublishFacts DEF Publish
  <2> HIDE DEF event
  <2>2. event # End
    BY <2>1 DEF Event, End
  <2>3. Known
    BY <1>a, <1>c, <2>1
  <2>4. \A q \in Threads : handing'[q].item = End => handing'[q] = handing[q]
    BY <2>1, <2>2 DEF Shape
  <2>5. \A q \in Threads : handing'[q].item = End /\ handing'[q].to # {} => Over
    BY <2>3, <2>4
  <2>6. run'.finished => run.known /\ run.finished
    BY <2>1
  <2> QED
    BY <2>1, <2>3, <2>5, <2>6
<1>5. ASSUME NEW p \in Threads, NEW s \in Streams, Deliver(p, s)
      PROVE  Goal
  <2>1. /\ UNCHANGED <<run, turn, stage, idle>> /\ s \in handing[p].to
        /\ \A q \in Threads : /\ handing'[q].item = handing[q].item
                              /\ handing'[q].to \subseteq handing[q].to
        /\ Elements(queue'[s]) \subseteq Elements(queue[s]) \cup {handing[p].item}
        /\ \A r \in Streams \ {s} : queue'[r] = queue[r]
    BY <1>5, DeliverFacts
  <2>2. Known
    BY <1>a, <1>c, <2>1
  <2>3. \A q \in Threads : handing'[q].item = End /\ handing'[q].to # {} => Over
    BY <2>1, <2>2
  <2>4. \A r \in Streams : End \in Elements(queue'[r]) => Over
    BY <2>1, <2>2
  <2> QED
    BY <2>1, <2>2, <2>3, <2>4
<1>6. ASSUME NEW s \in Streams, Claim(s)
      PROVE  Goal
  <2>1. /\ run' = OpenRun /\ stage' = [stage EXCEPT ![s] = "claimed"]
        /\ UNCHANGED <<handing, turn, queue, idle>>
    BY <1>6 DEF Claim, Goto
  <2>2. Known
    BY <1>a, <1>c, <2>1
  <2>3. run'.known /\ (run'.finished => run.known /\ run.finished)
    BY <2>1, OpenFacts
  <2>4. \A r \in Streams : stage'[r] = "done" => stage[r] = "done"
    BY <2>1 DEF Shape
  <2> QED
    BY <2>1, <2>2, <2>3, <2>4
<1>7. ASSUME NEW s \in Streams, Subscribe(s) \/ Replay(s) \/ (Check(s) /\ ~run.finished)
      PROVE  Goal
  <2>1. UNCHANGED <<run, handing, turn, queue, idle>>
    BY <1>7 DEF Subscribe, Replay, Check
  <2>2. \A r \in Streams : /\ stage'[r] = "done" => stage[r] = "done"
                           /\ stage[r] = "new" => stage'[r] = "new"
    BY <1>7 DEF Subscribe, Replay, Check, Goto, Shape
  <2>3. Known
    BY <1>a, <1>c, <2>1
  <2> QED
    BY <2>1, <2>2, <2>3
<1>8. ASSUME NEW s \in Streams,
             \/ Check(s) /\ run.finished
             \/ Take(s) /\ Head(queue[s]) = End
             \/ Wait(s) /\ Leave(s, "done")
             \/ Disconnect(s)
      PROVE  Goal
  <2>1. /\ stage[s] \notin {"new", "done", "gone"} /\ queue'[s] = <<>>
        /\ \A q \in Streams \ {s} : stage'[q] = stage[q] /\ queue'[q] = queue[q]
        /\ UNCHANGED <<run, handing, turn>>
    BY <1>8, EndFacts
  <2>2. Known
    BY <1>a, <1>c, <2>1
  <2>3. \A q \in Streams \ {s} : idle'[q] = idle[q]
    BY <1>8 DEF Check, Take, Wait, Disconnect, Patient
  <2>4. stage'[s] = "done" /\ idle'[s] < MaxIdle => Over
    <3>1. CASE Check(s) /\ run.finished
      BY <2>1, <2>2, <3>1
    <3>2. CASE Take(s) /\ Head(queue[s]) = End
      <4>1. End \in Elements(queue[s])
        BY <3>2, TailElements DEF Take, Shape
      <4> QED
        BY <2>2, <4>1
    <3>3. CASE Wait(s) /\ Leave(s, "done")
      <4>1. stage[s] = "live" /\ stage'[s] = "done"
        BY <3>3, LeaveFacts DEF Wait
      <4>2. run.finished \/ idle'[s] >= MaxIdle
        BY <3>3, <4>1 DEF Wait
      <4>3. idle'[s] \in Nat
        BY <3>3 DEF Wait, Patient
      <4> QED
        BY <2>1, <2>2, <4>2, <4>3
    <3>4. CASE Disconnect(s)
      <4>1. stage'[s] = "gone"
        BY <3>4, LeaveFacts DEF Disconnect
      <4> QED
        BY <4>1
    <3> QED
      BY <1>8, <3>1, <3>2, <3>3, <3>4
  <2> QED
    BY <1>b, <2>1, <2>2, <2>3, <2>4
<1>9. ASSUME NEW s \in Streams, Take(s), Head(queue[s]) # End
      PROVE  Goal
  <2>1. /\ UNCHANGED <<bus, turn, stage>> /\ stage[s] = "live"
        /\ Elements(queue'[s]) \subseteq Elements(queue[s])
        /\ \A q \in Streams \ {s} : queue'[q] = queue[q]
        /\ idle' = [idle EXCEPT ![s] = 0]
    BY <1>9, TakeFacts
  <2>2. Known
    BY <1>a, <1>c, <2>1
  <2>3. \A q \in Streams : stage'[q] = "done" => idle'[q] = idle[q] /\ stage[q] = "done"
    BY <2>1 DEF Patient
  <2> QED
    BY <2>1, <2>2, <2>3
<1>10. ASSUME NEW s \in Streams, Wait(s), ~Leave(s, "done")
       PROVE  Goal
  <2>1. UNCHANGED <<bus, turn, stage, queue>> /\ stage[s] = "live"
        /\ idle' = [idle EXCEPT ![s] = idle[s] + 1]
    BY <1>10 DEF Wait
  <2>2. Known
    BY <1>a, <1>c, <2>1
  <2>3. \A q \in Streams : stage'[q] = "done" => idle'[q] = idle[q] /\ stage[q] = "done"
    BY <2>1 DEF Patient
  <2> QED
    BY <2>1, <2>2, <2>3
<1> QED
  BY <1>1, <1>2, <1>3, <1>4, <1>5, <1>6, <1>7, <1>8, <1>9, <1>10 DEF Next, Stream

-----------------------------------------------------------------------------
(* The theorems.                                                           *)

LEMMA InitHolds == Init => IInv
<1> SUFFICES ASSUME Init
             PROVE  IInv
  OBVIOUS
<1>1. Elements(<<>>) = {} /\ DOMAIN <<>> = {} /\ Len(<<>>) = 0 /\ <<>> \in Seq(Event)
      /\ <<>> \in Seq(Items)
  BY DEF Elements
<1>2. Shape
  <2>1. /\ NoRun \in [sequence : Nat, events : Seq(Event), finished : BOOLEAN, known : BOOLEAN]
        /\ Nothing \in [item : Items, to : SUBSET Streams]
        /\ "new" \in Stages
    BY <1>1 DEF NoRun, Nothing, Items, Stages
  <2>2. 0 \in 0..MaxEvents /\ 0 \in 0..MaxEvictions /\ 0 \in 0..MaxTurns
    OBVIOUS
  <2> QED
    BY <1>1, <2>1, <2>2 DEF Init, Shape
<1>3. Numbered /\ Patient /\ Rising
  BY <1>1 DEF Init, NoRun, Numbered, Patient, Rising, Stages
<1>4. \A e \in Items : Held(e) => e = End
  BY <1>1 DEF Init, NoRun, Nothing, Held
<1>5. NamesTell
  BY <1>4 DEF Init, NamesTell, End
<1>6. NothingBetween /\ EndIsTrue
  BY <1>1 DEF Init, NoRun, Nothing, NothingBetween, EndIsTrue
<1> QED
  BY <1>2, <1>3, <1>5, <1>6 DEF IInv

LEMMA StepHolds == IInv /\ [Next]_vars => IInv'
<1> SUFFICES ASSUME IInv, [Next]_vars
             PROVE  IInv'
  OBVIOUS
<1>1. CASE Next
  BY <1>1, ShapeStays, NumberedStays, PatientStays, NamesStay, RisingStays, BetweenStays,
     EndStays DEF IInv
<1>2. CASE UNCHANGED vars
  BY <1>2 DEF IInv, Shape, Numbered, Patient, NamesTell, Held, Rising, NothingBetween,
              EndIsTrue, Over
<1> QED
  BY <1>1, <1>2

\* What the invariant means for the reader of a stream.
LEMMA InvariantIsWhole == IInv => StreamIsWhole
<1> SUFFICES ASSUME IInv
             PROVE  StreamIsWhole
  OBVIOUS
<1> USE DEF IInv
<1>1. TypeOK
  <2>1. run.sequence \in 0..MaxEvents
    BY DEF Shape, Numbered
  <2> QED
    BY <2>1 DEF Shape, Numbered, Patient, Items, Stages, TypeOK
<1>2. ShownOnceInOrder
  <2> SUFFICES ASSUME NEW s \in Streams, NEW i \in DOMAIN sent[s], NEW j \in DOMAIN sent[s],
                      i < j
               PROVE  /\ sent[s][i].sequence < sent[s][j].sequence
                      /\ sent[s][i].id # sent[s][j].id
                      /\ evictions = 0 => sent[s][i].id < sent[s][j].id
    BY DEF ShownOnceInOrder
  <2>1. sent[s][i].sequence < sent[s][j].sequence
    BY DEF Rising
  <2>2. \A k \in DOMAIN sent[s] :
          /\ sent[s][k] \in Event /\ sent[s][k] \in Items /\ Held(sent[s][k])
    BY LenProperties, ElementOfSeq DEF Shape, Items, Held, Elements
  <2>3. sent[s][i].sequence \in Nat /\ sent[s][j].sequence \in Nat
    BY <2>2 DEF Event
  <2>4. sent[s][i] # sent[s][j]
    BY <2>1, <2>3
  <2> QED
    BY <2>1, <2>2, <2>4 DEF NamesTell
<1>3. DoneMeansOver
  BY DEF EndIsTrue, Over, DoneMeansOver
<1> QED
  BY <1>1, <1>2, <1>3 DEF StreamIsWhole

LEMMA Invariance == Spec => []IInv
BY InitHolds, StepHolds, PTL DEF Spec

\* A stream shows each event once and in order and leaves none out between the history and
\* its queue, and it does not end before its turn (events.py and service.py:495-545): for any
\* number of publishers, streams, turns and evictions.
THEOREM EventBusCorrect == Spec => []StreamIsWhole
BY Invariance, InvariantIsWhole, PTL

-----------------------------------------------------------------------------
(* The bus implements the feed.                                            *)

\* What a reader was shown, by name, and how far its connection is: the variables of the feed.
Names == [s \in Streams |-> [i \in DOMAIN sent[s] |-> sent[s][i].id]]
At(s) == CASE stage[s] = "new" -> "new"
           [] stage[s] \in {"done", "gone"} -> "over"
           [] OTHER -> "open"
Connection == [s \in Streams |-> At(s)]

\* The names of a sequence of events.
LEMMA NamesFacts ==
  ASSUME Shape, NamesTell, Rising, NEW s \in Streams
  PROVE  /\ Names[s] \in Seq(1..MaxEvents) /\ Len(Names[s]) = Len(sent[s])
         /\ DOMAIN Names[s] = DOMAIN sent[s] /\ DOMAIN sent[s] = 1..Len(sent[s])
         /\ Len(sent[s]) \in Nat
         /\ \A i \in DOMAIN sent[s] : Names[s][i] = sent[s][i].id
         /\ \A i, j \in DOMAIN Names[s] :
              Names[s][i] \in 1..made /\ (Names[s][i] = Names[s][j] => i = j)
<1>1. /\ sent[s] \in Seq(Event) /\ DOMAIN sent[s] = 1..Len(sent[s]) /\ Len(sent[s]) \in Nat
      /\ \A i \in DOMAIN sent[s] : sent[s][i] \in Event
  <2>1. sent[s] \in Seq(Event)
    BY DEF Shape
  <2> QED
    BY <2>1, LenProperties, ElementOfSeq
<1>2. Names[s] = [i \in 1..Len(sent[s]) |-> sent[s][i].id]
  BY <1>1 DEF Names
<1>3. \A i \in 1..Len(sent[s]) : sent[s][i].id \in 1..MaxEvents
  BY <1>1 DEF Event
<1>4. Names[s] \in [1..Len(sent[s]) -> 1..MaxEvents]
  BY <1>2, <1>3
<1>5. Names[s] \in Seq(1..MaxEvents) /\ Len(Names[s]) = Len(sent[s])
  BY <1>1, <1>4, LenProperties
<1>6. \A i \in DOMAIN sent[s] : Held(sent[s][i]) /\ sent[s][i] \in Items
  BY <1>1 DEF Held, Elements, Items
<1>7. \A i \in DOMAIN sent[s] : Names[s][i] \in 1..made
  <2>1. made \in Nat
    BY DEF Shape
  <2>2. \A i \in DOMAIN sent[s] : sent[s][i].id <= made
    BY <1>6 DEF NamesTell
  <2>3. ASSUME NEW i \in DOMAIN sent[s]
        PROVE  Names[s][i] = sent[s][i].id /\ sent[s][i].id \in 1..MaxEvents
    BY ONLY <1>1, <1>2, <1>3, <2>3
  <2> QED
    BY ONLY <2>1, <2>2, <2>3
<1>8. ASSUME NEW i \in DOMAIN sent[s], NEW j \in DOMAIN sent[s], Names[s][i] = Names[s][j]
      PROVE  i = j
  <2>a. /\ sent[s][i] \in Items /\ Held(sent[s][i])
        /\ sent[s][j] \in Items /\ Held(sent[s][j])
    BY ONLY <1>6, <1>8
  <2>b. sent[s][i].id = sent[s][j].id
    BY ONLY <1>1, <1>2, <1>8
  <2>1. sent[s][i] = sent[s][j]
    BY <2>a, <2>b DEF NamesTell
  <2>2. sent[s][i].sequence \in Nat /\ sent[s][j].sequence \in Nat
    BY <1>1 DEF Event
  <2>3. ~(i < j) /\ ~(j < i)
    BY <2>1, <2>2 DEF Rising
  <2> QED
    BY <1>1, <2>3
<1> QED
  BY <1>1, <1>2, <1>5, <1>7, <1>8

\* A step of the bus is a step of the feed, or none that a reader sees.
LEMMA StepIsFeed == IInv /\ IInv' /\ [Next]_vars => [Promised!Next]_(Promised!feed)
<1> SUFFICES ASSUME IInv, IInv', [Next]_vars
             PROVE  [Promised!Next]_(Promised!feed)
  OBVIOUS
<1> DEFINE Same == made' = made /\ Names' = Names /\ Connection' = Connection
           Shows(s) ==
             /\ Connection[s] = "open" /\ made' = made /\ Connection' = Connection
             /\ \A q \in Streams \ {s} : Names'[q] = Names[q]
             /\ Len(Names'[s]) > Len(Names[s])
             /\ SubSeq(Names'[s], 1, Len(Names[s])) = Names[s]
             /\ \A i, j \in DOMAIN Names'[s] :
                  Names'[s][i] \in 1..made /\ (Names'[s][i] = Names'[s][j] => i = j)
           Step == \/ Same
                   \/ made' = made + 1 /\ Names' = Names /\ Connection' = Connection
                   \/ \E s \in Streams :
                        \/ /\ Connection[s] = "new"
                           /\ Connection' = [Connection EXCEPT ![s] = "open"]
                           /\ made' = made /\ Names' = Names
                        \/ /\ Connection[s] = "open"
                           /\ Connection' = [Connection EXCEPT ![s] = "over"]
                           /\ made' = made /\ Names' = Names
                        \/ Shows(s)
<1>a. Step => [Promised!Next]_(Promised!feed)
  BY DEF Names, Connection, At, Promised!feed, Promised!Next, Promised!Publish,
         Promised!Connect, Promised!End, Promised!Show
<1>b. Shape /\ Shape' /\ Numbered /\ NamesTell /\ NamesTell' /\ Rising /\ Rising'
  BY DEF IInv
<1>c. ASSUME UNCHANGED <<made, sent>>, \A s \in Streams : At(s)' = At(s)
      PROVE  Same
  BY <1>c DEF Names, Connection
<1>d. ASSUME NEW s \in Streams, UNCHANGED <<made, sent>>,
             stage[s] \notin {"new", "done", "gone"}, stage'[s] \in {"done", "gone"},
             \A q \in Streams \ {s} : stage'[q] = stage[q]
      PROVE  Step
  <2>1. /\ Connection[s] = "open" /\ Connection'[s] = "over"
        /\ \A q \in Streams \ {s} : Connection'[q] = Connection[q]
    BY <1>d DEF Connection, At
  <2>2. Connection' = [Connection EXCEPT ![s] = "over"]
    BY <2>1 DEF Connection
  <2> QED
    BY <1>d, <2>1, <2>2 DEF Names
<1>e. ASSUME NEW s \in Streams, made' = made, \A q \in Streams : At(q)' = At(q),
             At(s) = "open", \A q \in Streams \ {s} : sent'[q] = sent[q],
             Len(sent'[s]) > Len(sent[s]),
             \A i \in DOMAIN sent[s] : sent'[s][i] = sent[s][i]
      PROVE  Shows(s)
  <2>1. /\ Names[s] \in Seq(1..MaxEvents) /\ Len(Names[s]) = Len(sent[s])
        /\ DOMAIN Names[s] = DOMAIN sent[s] /\ DOMAIN sent[s] = 1..Len(sent[s])
        /\ Len(sent[s]) \in Nat
        /\ \A i \in DOMAIN sent[s] : Names[s][i] = sent[s][i].id
    BY <1>b, NamesFacts
  <2>2. /\ Names'[s] \in Seq(1..MaxEvents) /\ Len(Names'[s]) = Len(sent'[s])
        /\ DOMAIN Names'[s] = DOMAIN sent'[s] /\ DOMAIN sent'[s] = 1..Len(sent'[s])
        /\ Len(sent'[s]) \in Nat
        /\ \A i \in DOMAIN sent'[s] : Names'[s][i] = sent'[s][i].id
        /\ \A i, j \in DOMAIN Names'[s] :
             Names'[s][i] \in 1..made' /\ (Names'[s][i] = Names'[s][j] => i = j)
    <3>1. (/\ Names[s] \in Seq(1..MaxEvents) /\ Len(Names[s]) = Len(sent[s])
           /\ DOMAIN Names[s] = DOMAIN sent[s] /\ DOMAIN sent[s] = 1..Len(sent[s])
           /\ Len(sent[s]) \in Nat
           /\ \A i \in DOMAIN sent[s] : Names[s][i] = sent[s][i].id
           /\ \A i, j \in DOMAIN Names[s] :
                Names[s][i] \in 1..made /\ (Names[s][i] = Names[s][j] => i = j))'
      BY <1>b, NamesFacts, PTL
    <3> QED
      BY <3>1
  <2>3. SubSeq(Names'[s], 1, Len(Names[s])) = Names[s]
    <3> DEFINE n == Len(Names[s])
    <3>1. n \in 0..Len(Names'[s]) /\ n \in Nat
      BY <1>e, <2>1, <2>2
    <3>2. ASSUME NEW i \in 1..n
          PROVE  Names'[s][i] = Names[s][i]
      <4>1. i \in DOMAIN sent[s] /\ i \in DOMAIN sent'[s]
        BY <1>e, <2>1, <2>2
      <4>2. Names[s][i] = sent[s][i].id
        BY ONLY <2>1, <4>1
      <4>3. Names'[s][i] = sent'[s][i].id
        BY ONLY <2>2, <4>1
      <4>4. sent'[s][i] = sent[s][i]
        BY ONLY <1>e, <4>1
      <4> QED
        BY ONLY <4>2, <4>3, <4>4
    <3> HIDE DEF n
    <3>3. /\ SubSeq(Names'[s], 1, n) \in Seq(1..MaxEvents) /\ Len(SubSeq(Names'[s], 1, n)) = n
          /\ \A i \in 1..n : SubSeq(Names'[s], 1, n)[i] = Names'[s][i]
      BY <2>2, <3>1, SubSeqProperties
    <3>4. SubSeq(Names'[s], 1, n) = Names[s]
      BY <2>1, <3>2, <3>3, SeqEqual DEF n
    <3> QED
      BY <3>4 DEF n
  <2>4. Connection' = Connection /\ Connection[s] = "open"
    BY <1>e DEF Connection
  <2>5. \A q \in Streams \ {s} : Names'[q] = Names[q]
    BY <1>e DEF Names
  <2>6. Len(Names'[s]) > Len(Names[s])
    BY <1>e, <2>1, <2>2
  <2> QED
    BY <1>e, <2>2, <2>3, <2>4, <2>5, <2>6
<1> HIDE DEF Same, Shows
<1>f. Same => Step
  BY DEF Step
<1>g. ASSUME NEW s \in Streams, Shows(s)
      PROVE  Step
  BY <1>g DEF Step
<1>1. ASSUME Open \/ Close \/ Evict \/ UNCHANGED vars
      PROVE  Step
  <2>1. UNCHANGED <<made, sent, stage>>
    BY <1>1 DEF Open, Close, Evict
  <2> QED
    BY <1>c, <1>f, <2>1 DEF At
<1>2. ASSUME NEW p \in Publishers, Publish(p)
      PROVE  Step
  <2>1. made' = made + 1 /\ UNCHANGED <<sent, stage>>
    BY <1>2 DEF Publish
  <2>2. Names' = Names /\ Connection' = Connection
    BY <2>1 DEF Names, Connection, At
  <2> QED
    BY <2>1, <2>2 DEF Step
<1>3. ASSUME NEW p \in Threads, NEW s \in Streams, Deliver(p, s)
      PROVE  Step
  BY <1>3, <1>c, <1>f DEF Deliver, At
<1>4. ASSUME NEW s \in Streams, Claim(s)
      PROVE  Step
  <2>1. /\ stage[s] = "new" /\ stage' = [stage EXCEPT ![s] = "claimed"]
        /\ UNCHANGED <<made, sent>>
    BY <1>4 DEF Claim, Goto
  <2>2. /\ Connection[s] = "new" /\ Connection'[s] = "open"
        /\ \A q \in Streams \ {s} : Connection'[q] = Connection[q]
    BY <1>b, <2>1 DEF Connection, At, Shape
  <2>3. Connection' = [Connection EXCEPT ![s] = "open"]
    BY <2>2 DEF Connection
  <2>4. Names' = Names
    BY <2>1 DEF Names
  <2> QED
    BY <2>1, <2>2, <2>3, <2>4 DEF Step
<1>5. ASSUME NEW s \in Streams, Subscribe(s) \/ (Check(s) /\ ~run.finished)
      PROVE  Step
  <2>1. /\ UNCHANGED <<made, sent>>
        /\ \A q \in Streams : At(q)' = At(q)
    BY <1>5, <1>b DEF Subscribe, Check, Goto, At, Shape
  <2> QED
    BY <1>c, <1>f, <2>1
<1>6. ASSUME NEW s \in Streams, Replay(s)
      PROVE  Step
  <2>1. /\ stage[s] = "subscribed" /\ stage' = [stage EXCEPT ![s] = "replayed"]
        /\ sent'[s] = run.events /\ made' = made
        /\ \A r \in Streams \ {s} : sent'[r] = sent[r]
    BY <1>6, <1>b, ReplayFacts
  <2>2. \A q \in Streams : At(q)' = At(q)
    BY <1>b, <2>1 DEF At, Shape
  <2>3. sent[s] = <<>> /\ At(s) = "open"
    BY <1>b, <2>1 DEF Rising, Before, At
  <2>4. CASE run.events = <<>>
    <3>1. sent' = sent
      BY <1>b, <2>1, <2>3, <2>4 DEF Shape
    <3> QED
      BY <1>c, <1>f, <2>1, <2>2, <3>1
  <2>5. CASE run.events # <<>>
    <3>1. Len(sent'[s]) > Len(sent[s]) /\ DOMAIN sent[s] = {}
      BY <1>b, <2>1, <2>3, <2>5, LenProperties, EmptySeq DEF Shape
    <3> QED
      BY <1>e, <1>g, <2>1, <2>2, <2>3, <3>1
  <2> QED
    BY <2>4, <2>5
<1>7. ASSUME NEW s \in Streams,
             \/ Check(s) /\ run.finished
             \/ Take(s) /\ Head(queue[s]) = End
             \/ Wait(s) /\ Leave(s, "done")
             \/ Disconnect(s)
      PROVE  Step
  BY <1>7, <1>b, <1>d, EndFacts
<1>8. ASSUME NEW s \in Streams, Take(s), Head(queue[s]) # End
      PROVE  Step
  <2> DEFINE item == Head(queue[s])
  <2>1. /\ item \in Event /\ stage[s] = "live" /\ UNCHANGED <<made, stage>>
        /\ \A q \in Streams \ {s} : sent'[q] = sent[q]
        /\ sent' = sent \/ sent'[s] = Append(sent[s], item)
    BY <1>8, <1>b, TakeFacts
  <2> HIDE DEF item
  <2>2. (\A q \in Streams : At(q)' = At(q)) /\ At(s) = "open"
    BY <2>1 DEF At
  <2>3. CASE sent' = sent
    BY <1>c, <1>f, <2>1, <2>2, <2>3
  <2>4. CASE sent'[s] = Append(sent[s], item)
    <3>1. /\ Len(Append(sent[s], item)) = Len(sent[s]) + 1 /\ Len(sent[s]) \in Nat
          /\ DOMAIN sent[s] = 1..Len(sent[s])
          /\ \A k \in 1..Len(sent[s]) : Append(sent[s], item)[k] = sent[s][k]
      BY <1>b, <2>1, AppendElements DEF Shape
    <3>2. /\ Len(sent'[s]) > Len(sent[s])
          /\ \A i \in DOMAIN sent[s] : sent'[s][i] = sent[s][i]
      BY <2>4, <3>1
    <3> QED
      BY <1>e, <1>g, <2>1, <2>2, <3>2
  <2> QED
    BY <2>1, <2>3, <2>4
<1>9. ASSUME NEW s \in Streams, Wait(s), ~Leave(s, "done")
      PROVE  Step
  <2>1. UNCHANGED <<made, sent, stage>>
    BY <1>9 DEF Wait
  <2> QED
    BY <1>c, <1>f, <2>1 DEF At
<1> QED
  BY <1>a, <1>1, <1>2, <1>3, <1>4, <1>5, <1>6, <1>7, <1>8, <1>9 DEF Next, Stream

\* The bus and its streams, seen by those who watch, are the feed they promise: what is shown
\* was published, is shown once, and only to a stream that is open (service.py:495-545).
THEOREM EventBusFeeds == Spec => Promised!Safe
<1>1. Init => Promised!Init
  <2> SUFFICES ASSUME Init
               PROVE  Promised!Init
    OBVIOUS
  <2>1. \A s \in Streams : [i \in DOMAIN sent[s] |-> sent[s][i].id] = <<>>
    BY DEF Init
  <2> QED
    BY <2>1 DEF Init, Promised!Init
<1> QED
  BY <1>1, StepIsFeed, Invariance, PTL DEF Spec, Promised!Safe

-----------------------------------------------------------------------------
(* ChatClient: the inductive invariant.                                    *)

ChatFields == {"messages", "pending", "title", "titled", "began"}
AskFields  == {"at", "chat", "question", "sent", "first"}
Said       == [role : {"user", "assistant"}, question : Nat]

\* Each answer in a chat stands behind its question and is the only one to it.
InPairs(m) == \A i \in 1..Len(m) : m[i].role = "assistant" =>
                  /\ i > 1 => m[i - 1] = Message("user", m[i].question)
                  /\ \A j \in 1..Len(m) : m[j] = m[i] => j = i

ChatKept(chat) == /\ DOMAIN chat = ChatFields /\ chat.messages \in Seq(Said)
                  /\ \A i \in 1..Len(chat.messages) : chat.messages[i].question <= asked

\* The chat that waits for an answer ends in the question, or has been cleared, and has no answer to it.
Awaits(m, q) == /\ m # <<>> => m[Len(m)] = Message("user", q)
                /\ \A i \in 1..Len(m) : m[i] # Message("assistant", q)

ChatShape == /\ active \in Existing /\ asked \in Nat
             /\ \A id \in Existing : ChatKept(chats[id])
             /\ DOMAIN ask = AskFields /\ ask.at \in {"idle", "asking", "answered", "titling"}
             /\ ask.at = "asking" => ask.question \in Nat /\ ask.question <= asked
Pairs     == \A id \in Existing \ strays : InPairs(chats[id].messages)
Waiting   == ask.at = "asking" /\ ask.chat \in Existing \ strays => Awaits(chats[ask.chat].messages, ask.question)

ChatInv == ChatShape /\ Pairs /\ Waiting

-----------------------------------------------------------------------------
(* Messages.                                                               *)

LEMMA FreshIsKept ==
  ASSUME asked \in Nat, NEW n, NEW q
  PROVE  /\ ChatKept(Fresh(n)) /\ Fresh(n).messages = <<>>
         /\ InPairs(<<>>) /\ Awaits(<<>>, q)
BY DEF ChatKept, ChatFields, Fresh, InPairs, Awaits

\* What a change of one chat leaves of it.
LEMMA PutFacts ==
  ASSUME NEW id \in Existing, NEW c, ChatKept(chats[id]), chats' = Put(id, c)
  PROVE  /\ DOMAIN chats' = Existing
         /\ \A k \in Existing : k # id => chats'[k] = chats[k]
         /\ DOMAIN chats'[id] = ChatFields
         /\ "messages" \in DOMAIN c => chats'[id].messages = c.messages
         /\ "messages" \notin DOMAIN c => chats'[id].messages = chats[id].messages
BY DEF Put, With, Existing, ChatKept, ChatFields

LEMMA WithFacts ==
  ASSUME NEW id, NEW chat, chats' = With(id, chat)
  PROVE  /\ DOMAIN chats' = Existing \cup {id} /\ chats'[id] = chat
         /\ \A k \in Existing : k # id => chats'[k] = chats[k]
BY DEF With, Existing

\* Chats that go, stay or begin anew leave the rest as it was.
LEMMA ChatsStay ==
  ASSUME ChatInv, UNCHANGED <<ask, asked, strays>>, active' \in DOMAIN chats',
         \A k \in DOMAIN chats' : (k \in Existing /\ chats'[k] = chats[k]) \/ \E n : chats'[k] = Fresh(n)
  PROVE  ChatInv'
<1>1. ChatShape /\ Pairs /\ Waiting
  BY DEF ChatInv
<1>2. ASSUME NEW k \in DOMAIN chats'
      PROVE  /\ ChatKept(chats'[k])
             /\ k \notin strays => InPairs(chats'[k].messages)
             /\ ask.at = "asking" /\ ask.chat = k /\ k \notin strays => Awaits(chats'[k].messages, ask.question)
  <2>1. CASE k \in Existing /\ chats'[k] = chats[k]
    BY <1>1, <2>1 DEF ChatShape, Pairs, Waiting
  <2>2. CASE \E n : chats'[k] = Fresh(n)
    <3>1. PICK n : chats'[k] = Fresh(n)
      BY <2>2
    <3>2. PICK q : q = ask.question
      OBVIOUS
    <3> QED BY <1>1, <3>1, <3>2, FreshIsKept DEF ChatShape
  <2> QED BY <2>1, <2>2
<1>3. ChatShape'
  BY <1>1, <1>2 DEF ChatShape, Existing, ChatKept
<1>4. Pairs'
  BY <1>2 DEF Pairs, Existing
<1>5. Waiting'
  BY <1>2 DEF Waiting, Existing
<1> QED BY <1>3, <1>4, <1>5 DEF ChatInv

LEMMA ChatsComeAndGo ==
  ASSUME ChatInv, NEW id, NewChat(id) \/ SwitchChat(id) \/ DeleteChat(id) \/ ClearActiveChat
  PROVE  ChatInv'
<1>1. active \in Existing
  BY DEF ChatInv, ChatShape
<1>2. CASE NewChat(id)
  <2>1. chats' = With(id, Fresh(Began)) /\ active' = id /\ UNCHANGED <<ask, asked, strays>>
    BY <1>2 DEF NewChat
  <2>2. PICK chat : chat = Fresh(Began) /\ \E n : chat = Fresh(n)
    OBVIOUS
  <2>3. /\ DOMAIN chats' = Existing \cup {id} /\ chats'[id] = chat
        /\ \A k \in Existing : k # id => chats'[k] = chats[k]
    BY <2>1, <2>2, WithFacts
  <2> QED BY <2>1, <2>2, <2>3, ChatsStay
<1>3. CASE SwitchChat(id)
  BY <1>3, ChatsStay DEF SwitchChat, Existing
<1>4. CASE ClearActiveChat
  <2>1. chats' = With(active, Fresh(Began)) /\ UNCHANGED <<active, ask, asked, strays>>
    BY <1>4 DEF ClearActiveChat
  <2>2. PICK chat : chat = Fresh(Began) /\ \E n : chat = Fresh(n)
    OBVIOUS
  <2>3. /\ DOMAIN chats' = Existing \cup {active} /\ chats'[active] = chat
        /\ \A k \in Existing : k # active => chats'[k] = chats[k]
    BY <2>1, <2>2, WithFacts
  <2> QED BY <1>1, <2>1, <2>2, <2>3, ChatsStay
<1>5. CASE DeleteChat(id)
  <2>1. UNCHANGED <<ask, asked, strays>>
    BY <1>5 DEF DeleteChat
  <2>2. CASE Existing \ {id} = {}
    <3>1. PICK new \in ChatIds : chats' = [k \in {new} |-> Fresh(Began)] /\ active' = new
      BY <1>5, <2>2 DEF DeleteChat
    <3>2. PICK chat : chat = Fresh(Began) /\ \E n : chat = Fresh(n)
      OBVIOUS
    <3>3. DOMAIN chats' = {new} /\ chats'[new] = chat
      BY <3>1, <3>2
    <3> QED BY <2>1, <3>1, <3>2, <3>3, ChatsStay
  <2>3. CASE Existing \ {id} # {}
    <3>1. chats' = [k \in Existing \ {id} |-> chats[k]] /\ active' \in Existing \ {id}
      BY <1>1, <1>5, <2>3 DEF DeleteChat
    <3> QED BY <2>1, <3>1, ChatsStay
  <2> QED BY <2>2, <2>3
<1> QED BY <1>2, <1>3, <1>4, <1>5

-----------------------------------------------------------------------------
(* Questions and answers.                                                  *)

\* The active chat gets other messages; the others stay, and what the turn waits for is in order.
LEMMA ActiveChanges ==
  ASSUME ChatInv, NEW m \in Seq(Said), DOMAIN chats' = Existing, active' = active,
         \A k \in Existing : k # active => chats'[k] = chats[k],
         DOMAIN chats'[active] = ChatFields, chats'[active].messages = m,
         asked' \in Nat, asked <= asked', \A i \in 1..Len(m) : m[i].question <= asked',
         strays \subseteq strays', active \notin strays' => InPairs(m),
         DOMAIN ask' = AskFields, ask'.at \in {"idle", "asking", "answered", "titling"},
         ask'.at = "asking" => /\ ask'.chat = active /\ ask'.question \in Nat /\ ask'.question <= asked'
                               /\ active \notin strays => Awaits(m, ask'.question)
  PROVE  ChatInv'
<1>1. ChatShape /\ Pairs
  BY DEF ChatInv
<1>2. ASSUME NEW k \in Existing
      PROVE  /\ DOMAIN chats'[k] = ChatFields /\ chats'[k].messages \in Seq(Said)
             /\ \A i \in 1..Len(chats'[k].messages) : chats'[k].messages[i].question <= asked'
  <2>1. CASE k = active
    BY <2>1
  <2>2. CASE k # active
    <3>1. ChatKept(chats[k]) /\ chats'[k] = chats[k] /\ asked \in Nat
      BY <1>1, <2>2 DEF ChatShape
    <3>2. PICK old : old = chats[k].messages
      OBVIOUS
    <3>3. old \in Seq(Said) /\ \A i \in 1..Len(old) : old[i].question <= asked
      BY <3>1, <3>2 DEF ChatKept
    <3>4. ASSUME NEW i \in 1..Len(old)
          PROVE  old[i].question <= asked'
      <4>1. old[i] \in Said
        BY <3>3
      <4>2. old[i].question \in Nat /\ old[i].question <= asked
        BY <3>3, <4>1 DEF Said
      <4> QED BY <3>1, <4>2
    <3> QED BY <3>1, <3>2, <3>3, <3>4 DEF ChatKept
  <2> QED BY <2>1, <2>2
<1>3. ChatShape'
  BY <1>1, <1>2 DEF ChatShape, Existing, ChatKept
<1>4. Pairs'
  <2>1. ASSUME NEW k \in Existing, k \notin strays'
        PROVE  InPairs(chats'[k].messages)
    BY <1>1, <2>1 DEF Pairs
  <2> QED BY <2>1 DEF Pairs, Existing
<1>5. Waiting'
  BY DEF Waiting
<1> QED BY <1>3, <1>4, <1>5 DEF ChatInv

LEMMA SendStep ==
  ASSUME ChatInv, Send
  PROVE  ChatInv'
<1>1. ChatShape /\ Pairs /\ asked \in Nat /\ active \in Existing /\ ChatKept(chats[active])
  BY DEF ChatInv, ChatShape
<1>2. PICK m, q : m = chats[active].messages /\ q = asked + 1
  OBVIOUS
<1>3. PICK new : new = Append(m, Message("user", q))
  OBVIOUS
<1>4. /\ asked' = q /\ UNCHANGED <<active, strays>>
      /\ chats' = Put(active, [messages |-> new, pending |-> 0])
      /\ ask' = [at |-> "asking", chat |-> active, question |-> q, sent |-> TRUE, first |-> m = <<>>]
  BY <1>2, <1>3 DEF Send
<1>5. PICK c : c = [messages |-> new, pending |-> 0]
  OBVIOUS
<1>6. /\ DOMAIN chats' = Existing /\ DOMAIN chats'[active] = ChatFields /\ chats'[active].messages = new
      /\ \A k \in Existing : k # active => chats'[k] = chats[k]
  <2>1. "messages" \in DOMAIN c /\ c.messages = new /\ chats' = Put(active, c)
    BY <1>4, <1>5
  <2> QED BY <1>1, <2>1, PutFacts
<1>7. m \in Seq(Said) /\ Message("user", q) \in Said /\ q \in Nat
  BY <1>1, <1>2 DEF ChatKept, Message, Said
<1>8. /\ new \in Seq(Said) /\ Len(new) = Len(m) + 1 /\ new[Len(m) + 1] = Message("user", q)
      /\ \A i \in 1..Len(m) : new[i] = m[i]
  BY <1>3, <1>7
<1>9. \A i \in 1..Len(m) : m[i].question \in Nat /\ m[i].question < q
  <2>1. ASSUME NEW i \in 1..Len(m)
        PROVE  m[i].question \in Nat /\ m[i].question <= asked
    <3>1. m[i] \in Said
      BY <1>7
    <3>2. m[i].question <= asked
      BY <1>1, <1>2 DEF ChatKept
    <3> QED BY <3>1, <3>2 DEF Said
  <2> QED BY <1>1, <1>2, <2>1
<1>10. Message("user", q).role = "user" /\ Message("user", q).question = q
  BY DEF Message
<1>11. \A i \in 1..Len(new) : i \in 1..Len(m) \/ i = Len(m) + 1
  BY <1>7, <1>8
<1>12. \A i \in 1..Len(new) : new[i].question <= q
  BY <1>7, <1>8, <1>9, <1>10, <1>11
<1>13. Awaits(new, q)
  <2>1. \A i \in 1..Len(new) : new[i] # Message("assistant", q)
    <3>1. Message("assistant", q).role = "assistant" /\ Message("assistant", q).question = q
      BY DEF Message
    <3> QED BY <1>7, <1>8, <1>9, <1>10, <1>11, <3>1
  <2> QED BY <1>7, <1>8, <2>1 DEF Awaits
<1>14. active \notin strays => InPairs(new)
  <2>1. SUFFICES ASSUME InPairs(m) PROVE InPairs(new)
    BY <1>1, <1>2 DEF Pairs
  <2>2. SUFFICES ASSUME NEW i \in 1..Len(new), new[i].role = "assistant"
                 PROVE  /\ i > 1 => new[i - 1] = Message("user", new[i].question)
                        /\ \A j \in 1..Len(new) : new[j] = new[i] => j = i
    BY DEF InPairs
  <2>3. i \in 1..Len(m) /\ new[i] = m[i]
    BY <1>8, <1>10, <1>11, <2>2
  <2>4. /\ i > 1 => m[i - 1] = Message("user", m[i].question)
        /\ \A j \in 1..Len(m) : m[j] = m[i] => j = i
    BY <2>1, <2>2, <2>3 DEF InPairs
  <2>5. i > 1 => i - 1 \in 1..Len(m)
    BY <1>7, <2>3
  <2> QED BY <1>8, <1>10, <1>11, <2>2, <2>3, <2>4, <2>5
<1>15. /\ DOMAIN ask' = AskFields /\ ask'.at = "asking" /\ ask'.chat = active /\ ask'.question = q
  BY <1>4 DEF AskFields
<1>16. asked <= q
  BY <1>1, <1>2
<1> QED BY <1>1, <1>4, <1>6, <1>7, <1>8, <1>12, <1>13, <1>14, <1>15, <1>16, ActiveChanges

\* Where the last message answers, its question is the one before it, and the last of the user's.
LEMMA LastAsked ==
  ASSUME NEW m \in Seq(Said), InPairs(m), m # <<>>, m[Len(m)].role = "assistant", LastUser(m) # 0
  PROVE  /\ Len(m) > 1 /\ LastUser(m) = Len(m) - 1
         /\ m[Len(m) - 1] = Message("user", m[Len(m)].question)
<1>1. Len(m) \in Nat /\ Len(m) > 0 /\ Len(m) \in 1..Len(m)
  OBVIOUS
<1>2. PICK users : users = {i \in 1..Len(m) : m[i].role = "user"}
  OBVIOUS
<1>3. LastUser(m) = IF users # {} THEN Max(users) ELSE 0
  BY <1>2 DEF LastUser, SelectLastInSeq
<1>4. PICK u \in users : TRUE
  BY <1>3
<1>5. u \in 1..Len(m) /\ u # Len(m)
  BY <1>2
<1>6. Len(m) > 1
  BY <1>1, <1>5
<1>7. m[Len(m) - 1] = Message("user", m[Len(m)].question)
  BY <1>1, <1>6 DEF InPairs
<1>8. Len(m) - 1 \in users /\ \A i \in users : i \in Nat /\ i <= Len(m) - 1
  BY <1>1, <1>2, <1>6, <1>7 DEF Message
<1>9. Max(users) = Len(m) - 1
  BY <1>1, <1>8 DEF Max
<1> QED BY <1>3, <1>4, <1>6, <1>7, <1>9

\* There is a last of the user's messages, if there is any.
LEMMA LastUserIsThere ==
  ASSUME NEW m \in Seq(Said), LastUser(m) # 0
  PROVE  LastUser(m) \in 1..Len(m)
<1>1. Len(m) \in Nat
  OBVIOUS
<1>2. PICK users : users = {i \in 1..Len(m) : m[i].role = "user"}
  OBVIOUS
<1>3. LastUser(m) = Max(users) /\ users # {}
  BY <1>2 DEF LastUser, SelectLastInSeq
<1>4. PICK off : off = {Len(m) - i : i \in users}
  OBVIOUS
<1>5. off \subseteq Nat /\ off # {} /\ users \subseteq 1..Len(m)
  BY <1>1, <1>2, <1>3, <1>4
<1>6. PICK l \in off : \A o \in off : ~ (<<o, l>> \in OpToRel(<, Nat))
  BY <1>5, NatLessThanWellFounded, WFMin
<1>7. \A o \in off : ~ (o < l)
  BY <1>5, <1>6 DEF OpToRel
<1>8. PICK x \in users : l = Len(m) - x
  BY <1>4, <1>6
<1>9. \A i \in users : ~ (Len(m) - i < Len(m) - x)
  BY <1>4, <1>7, <1>8
<1>10. \A i \in users : x >= i
  BY <1>1, <1>5, <1>9
<1>11. Max(users) \in users
  BY <1>10 DEF Max
<1> QED BY <1>3, <1>5, <1>11

LEMMA RegenerateStep ==
  ASSUME ChatInv, Regenerate
  PROVE  ChatInv'
<1>1. ChatShape /\ Pairs /\ asked \in Nat /\ active \in Existing /\ ChatKept(chats[active])
  BY DEF ChatInv, ChatShape
<1>2. PICK m, u : m = chats[active].messages /\ u = LastUser(m)
  OBVIOUS
<1>3. PICK new, q : new = Front(m) /\ q = m[u].question
  OBVIOUS
<1>4. /\ m # <<>> /\ Last(m).role = "assistant" /\ u # 0
      /\ UNCHANGED <<active, asked, strays>>
      /\ chats' = Put(active, [messages |-> new])
      /\ ask' = [at |-> "asking", chat |-> active, sent |-> FALSE, first |-> FALSE, question |-> q]
  BY <1>2, <1>3 DEF Regenerate, CanRegenerate, Again
<1>5. PICK c : c = [messages |-> new]
  OBVIOUS
<1>6. /\ DOMAIN chats' = Existing /\ DOMAIN chats'[active] = ChatFields /\ chats'[active].messages = new
      /\ \A k \in Existing : k # active => chats'[k] = chats[k]
  <2>1. "messages" \in DOMAIN c /\ c.messages = new /\ chats' = Put(active, c)
    BY <1>4, <1>5
  <2> QED BY <1>1, <2>1, PutFacts
<1>7. m \in Seq(Said) /\ Len(m) \in Nat /\ Len(m) > 0 /\ m[Len(m)].role = "assistant"
  BY <1>1, <1>2, <1>4 DEF ChatKept, Last
<1>8. new \in Seq(Said) /\ Len(new) = Len(m) - 1 /\ \A i \in 1..Len(new) : i \in 1..Len(m) /\ i # Len(m) /\ new[i] = m[i]
  <2>1. PICK n : n = Len(m) - 1
    OBVIOUS
  <2>2. n \in Int /\ new = SubSeq(m, 1, n) /\ (\A i \in 1..n : i \in 1..Len(m) /\ i # Len(m) /\ m[i] \in Said)
    BY <1>3, <1>7, <2>1 DEF Front
  <2>3. /\ new \in Seq(Said) /\ Len(new) = IF 1 <= n THEN n - 1 + 1 ELSE 0
        /\ \A i \in 1..(n - 1 + 1) : new[i] = m[1 + i - 1]
    BY <2>2, SubSeqProperties
  <2>4. Len(new) = n /\ \A i \in 1..n : new[i] = m[i]
    <3>1. n \in Nat /\ Len(new) = n
      BY <1>7, <2>1, <2>3
    <3>2. ASSUME NEW i \in 1..n
          PROVE  new[i] = m[i]
      <4>1. i \in 1..(n - 1 + 1) /\ 1 + i - 1 = i
        BY <3>1
      <4> QED BY <2>3, <4>1
    <3> QED BY <3>1, <3>2
  <2> QED BY <2>1, <2>2, <2>3, <2>4
<1>9. \A i \in 1..Len(m) : m[i] \in Said /\ m[i].question \in Nat /\ m[i].question <= asked
  <2>1. ASSUME NEW i \in 1..Len(m)
        PROVE  m[i] \in Said /\ m[i].question <= asked
    <3>1. m[i] \in Said
      BY <1>7
    <3>2. m[i].question <= asked
      BY <1>1, <1>2 DEF ChatKept
    <3> QED BY <3>1, <3>2
  <2> QED BY <2>1 DEF Said
<1>10. q \in Nat /\ q <= asked
  BY <1>2, <1>3, <1>4, <1>7, <1>9, LastUserIsThere
<1>11. \A i \in 1..Len(new) : new[i].question <= asked
  BY <1>8, <1>9
<1>12. ASSUME active \notin strays
       PROVE  InPairs(new) /\ Awaits(new, q)
  <2>1. InPairs(m)
    BY <1>1, <1>2, <1>12 DEF Pairs
  <2>2. Len(m) > 1 /\ u = Len(m) - 1 /\ m[Len(m) - 1] = Message("user", m[Len(m)].question)
    BY <1>2, <1>4, <1>7, <2>1, LastAsked
  <2>3. q = m[Len(m)].question /\ Len(m) \in 1..Len(m) /\ Len(new) \in 1..Len(new)
    BY <1>3, <1>7, <1>8, <2>2 DEF Message
  <2>4. new[Len(new)] = Message("user", q)
    BY <1>8, <2>2, <2>3
  <2>5. m[Len(m)] = Message("assistant", q)
    BY <1>7, <1>9, <2>3 DEF Message, Said
  <2>6. \A i \in 1..Len(m) : m[i] = m[Len(m)] => i = Len(m)
    BY <1>7, <2>1, <2>3 DEF InPairs
  <2>7. \A i \in 1..Len(new) : new[i] # Message("assistant", q)
    BY <1>8, <2>5, <2>6
  <2>8. ASSUME NEW i \in 1..Len(new), new[i].role = "assistant"
        PROVE  /\ i > 1 => new[i - 1] = Message("user", new[i].question)
               /\ \A j \in 1..Len(new) : new[j] = new[i] => j = i
    <3>1. i \in 1..Len(m) /\ m[i].role = "assistant" /\ new[i] = m[i]
      BY <1>8, <2>8
    <3>2. /\ i > 1 => m[i - 1] = Message("user", m[i].question)
          /\ \A j \in 1..Len(m) : m[j] = m[i] => j = i
      BY <2>1, <3>1 DEF InPairs
    <3>3. i > 1 => i - 1 \in 1..Len(new)
      BY <1>7, <1>8
    <3> QED BY <1>8, <3>1, <3>2, <3>3
  <2> QED BY <2>4, <2>7, <2>8 DEF InPairs, Awaits
<1>13. /\ DOMAIN ask' = AskFields /\ ask'.at = "asking" /\ ask'.chat = active /\ ask'.question = q
  BY <1>4 DEF AskFields
<1>14. asked <= asked' /\ asked' = asked
  BY <1>1, <1>4
<1> QED BY <1>1, <1>4, <1>6, <1>8, <1>10, <1>11, <1>12, <1>13, <1>14, ActiveChanges

LEMMA AnswerStep ==
  ASSUME ChatInv, NEW awaiting \in BOOLEAN, Answer(awaiting)
  PROVE  ChatInv'
<1>1. /\ ChatShape /\ Pairs /\ Waiting /\ asked \in Nat /\ active \in Existing /\ ChatKept(chats[active])
      /\ DOMAIN ask = AskFields
  BY DEF ChatInv, ChatShape
<1>2. PICK m, q : m = chats[active].messages /\ q = ask.question
  OBVIOUS
<1>3. PICK new : new = Append(m, Message("assistant", q))
  OBVIOUS
<1>4. PICK c : c = [messages |-> new, pending |-> IF awaiting THEN ask.question ELSE 0,
                    title |-> IF ask.first THEN ask.question ELSE chats[active].title]
  OBVIOUS
<1>5. /\ ask.at = "asking" /\ chats' = Put(active, c) /\ UNCHANGED <<active, asked>>
      /\ strays' = IF active = ask.chat THEN strays ELSE strays \cup {active}
      /\ ask' = [ask EXCEPT !.at = "answered"]
  BY <1>2, <1>3, <1>4 DEF Answer
<1>6. /\ DOMAIN chats' = Existing /\ DOMAIN chats'[active] = ChatFields /\ chats'[active].messages = new
      /\ \A k \in Existing : k # active => chats'[k] = chats[k]
  <2>1. "messages" \in DOMAIN c /\ c.messages = new
    BY <1>4
  <2> QED BY <1>1, <1>5, <2>1, PutFacts
<1>7. q \in Nat /\ q <= asked
  BY <1>1, <1>2, <1>5 DEF ChatShape
<1>8. PICK a : a = Message("assistant", q)
  OBVIOUS
<1>9. a = Message("assistant", q) /\ a \in Said /\ a.role = "assistant" /\ a.question = q
  BY <1>7, <1>8 DEF Message, Said
<1>10. m \in Seq(Said) /\ \A i \in 1..Len(m) : m[i].question <= asked
  BY <1>1, <1>2 DEF ChatKept
<1>11. /\ new \in Seq(Said) /\ Len(new) = Len(m) + 1 /\ new[Len(m) + 1] = a /\ Len(m) \in Nat
       /\ \A i \in 1..Len(m) : new[i] = m[i]
       /\ \A i \in 1..Len(new) : i \in 1..Len(m) \/ i = Len(m) + 1
  BY <1>3, <1>9, <1>10
<1>12. \A i \in 1..Len(new) : new[i].question <= asked
  BY <1>7, <1>9, <1>10, <1>11
<1>13. ASSUME active \notin strays'
       PROVE  InPairs(new)
  <2>1. active = ask.chat /\ active \notin strays
    BY <1>5, <1>13
  <2>2. InPairs(m) /\ Awaits(m, q)
    BY <1>1, <1>2, <1>5, <2>1 DEF Pairs, Waiting
  <2>3. \A i \in 1..Len(m) : m[i] # a
    BY <1>9, <2>2 DEF Awaits
  <2>4. SUFFICES ASSUME NEW i \in 1..Len(new), new[i].role = "assistant"
                 PROVE  /\ i > 1 => new[i - 1] = Message("user", new[i].question)
                        /\ \A j \in 1..Len(new) : new[j] = new[i] => j = i
    BY DEF InPairs
  <2>5. CASE i = Len(m) + 1
    <3>1. i > 1 => m # <<>> /\ new[i - 1] = m[Len(m)]
      BY <1>10, <1>11, <2>5
    <3> QED BY <1>9, <1>11, <2>2, <2>3, <2>5, <3>1 DEF Awaits
  <2>6. CASE i \in 1..Len(m)
    <3>1. /\ i > 1 => m[i - 1] = Message("user", m[i].question)
          /\ \A j \in 1..Len(m) : m[j] = m[i] => j = i
      BY <1>11, <2>2, <2>4, <2>6 DEF InPairs
    <3>2. (i > 1 => i - 1 \in 1..Len(m)) /\ m[i] # a
      BY <1>11, <2>3, <2>6
    <3> QED BY <1>11, <2>6, <3>1, <3>2
  <2> QED BY <1>11, <2>5, <2>6
<1>14. DOMAIN ask' = AskFields /\ ask'.at = "answered"
  BY <1>1, <1>5 DEF AskFields
<1>15. asked <= asked' /\ asked' = asked /\ strays \subseteq strays'
  BY <1>1, <1>5
<1> QED BY <1>1, <1>5, <1>6, <1>11, <1>12, <1>13, <1>14, <1>15, ActiveChanges

\* The turn ends, and the active chat may get a title.
LEMMA TitleStep ==
  ASSUME ChatInv, AskFails \/ NoTitle \/ MarkTitled \/ SetTitle
  PROVE  ChatInv'
<1>1. /\ ChatShape /\ Pairs /\ asked \in Nat /\ active \in Existing /\ ChatKept(chats[active])
      /\ DOMAIN ask = AskFields
  BY DEF ChatInv, ChatShape
<1>2. PICK m : m = chats[active].messages
  OBVIOUS
<1>3. UNCHANGED <<active, asked, strays>> /\ ask.at # "idle"
  BY DEF AskFails, NoTitle, MarkTitled, SetTitle
<1>4. DOMAIN ask' = AskFields /\ ask'.at \in {"idle", "titling"}
  <2>1. CASE MarkTitled
    BY <1>1, <2>1 DEF MarkTitled, AskFields
  <2>2. CASE ~MarkTitled
    BY <2>2 DEF AskFails, NoTitle, SetTitle, NotAsking, AskFields
  <2> QED BY <2>1, <2>2
<1>5. /\ DOMAIN chats' = Existing /\ DOMAIN chats'[active] = ChatFields /\ chats'[active].messages = m
      /\ \A k \in Existing : k # active => chats'[k] = chats[k]
  <2>1. CASE UNCHANGED chats
    BY <1>1, <1>2, <2>1 DEF ChatKept, Existing
  <2>2. CASE chats' = Put(active, [titled |-> TRUE])
    <3>1. PICK c : c = [titled |-> TRUE]
      OBVIOUS
    <3>2. "messages" \notin DOMAIN c
      BY <3>1
    <3> QED BY <1>1, <1>2, <2>2, <3>1, <3>2, PutFacts
  <2>3. CASE chats' = Put(active, [title |-> ask.question])
    <3>1. PICK c : c = [title |-> ask.question]
      OBVIOUS
    <3>2. "messages" \notin DOMAIN c
      BY <3>1
    <3> QED BY <1>1, <1>2, <2>3, <3>1, <3>2, PutFacts
  <2> QED BY <2>1, <2>2, <2>3 DEF AskFails, NoTitle, MarkTitled, SetTitle
<1>6. m \in Seq(Said) /\ \A i \in 1..Len(m) : m[i].question <= asked
  BY <1>1, <1>2 DEF ChatKept
<1>7. active \notin strays => InPairs(m)
  BY <1>1, <1>2 DEF Pairs
<1>8. asked <= asked' /\ asked' = asked
  BY <1>1, <1>3
<1> QED BY <1>1, <1>3, <1>4, <1>5, <1>6, <1>7, <1>8, ActiveChanges

-----------------------------------------------------------------------------
(* The chats are kept.                                                     *)

LEMMA ChatStarts == ChatInit => ChatInv
<1> SUFFICES ASSUME ChatInit PROVE ChatInv
  OBVIOUS
<1>1. PICK id \in ChatIds :
        chats = [k \in {id} |-> Fresh(0)] /\ active = id /\ ask = NotAsking /\ asked = 0 /\ strays = {}
  BY DEF ChatInit
<1>2. Existing = {id} /\ chats[id] = Fresh(0)
  BY <1>1 DEF Existing
<1>3. ChatKept(chats[id]) /\ chats[id].messages = <<>> /\ InPairs(<<>>)
  BY <1>1, <1>2, FreshIsKept
<1> QED BY <1>1, <1>2, <1>3 DEF ChatInv, ChatShape, Pairs, Waiting, NotAsking, AskFields

LEMMA ChatKeeps == ChatInv /\ [ChatNext]_chatVars => ChatInv'
<1> SUFFICES ASSUME ChatInv, [ChatNext]_chatVars PROVE ChatInv'
  OBVIOUS
<1>1. CASE UNCHANGED chatVars
  BY <1>1 DEF chatVars, ChatInv, ChatShape, ChatKept, Pairs, Waiting, Existing
<1>2. CASE ChatNext
  <2>1. CASE \E id \in ChatIds : NewChat(id) \/ SwitchChat(id) \/ DeleteChat(id)
    BY <2>1, ChatsComeAndGo
  <2>2. CASE ClearActiveChat
    BY <2>2, ChatsComeAndGo
  <2> QED BY <1>2, <2>1, <2>2, SendStep, RegenerateStep, TitleStep, AnswerStep DEF ChatNext
<1> QED BY <1>1, <1>2

LEMMA ChatIsSafe == ChatInv => ActiveExists /\ AnswerAfterQuestion
<1> SUFFICES ASSUME ChatInv PROVE ActiveExists /\ AnswerAfterQuestion
  OBVIOUS
<1>1. ASSUME NEW id \in Existing, id \notin strays, NEW i \in DOMAIN chats[id].messages
      PROVE  LET m == chats[id].messages IN
             m[i].role = "assistant" => /\ i > 1 => m[i - 1] = Message("user", m[i].question)
                                        /\ \A j \in DOMAIN m : m[j] = m[i] => j = i
  <2>1. PICK m : m = chats[id].messages
    OBVIOUS
  <2>2. m \in Seq(Said) /\ InPairs(m)
    BY <1>1, <2>1 DEF ChatInv, ChatShape, ChatKept, Pairs
  <2>3. DOMAIN m = 1..Len(m)
    BY <2>2
  <2> QED BY <1>1, <2>1, <2>2, <2>3 DEF InPairs
<1> QED BY <1>1 DEF ChatInv, ChatShape, ActiveExists, AnswerAfterQuestion

\* Whatever chats are opened, cleared, deleted or asked again while a turn is under way, an answer
\* finds a chat, and in a chat that no other chat's turn has written to it stands behind its own
\* question, once.
THEOREM ChatsAreKept == ChatInit /\ [][ChatNext]_chatVars => [](ActiveExists /\ AnswerAfterQuestion)
<1>1. ChatInit /\ [][ChatNext]_chatVars => []ChatInv
  BY ChatStarts, ChatKeeps, PTL
<1> QED BY <1>1, ChatIsSafe, PTL
=============================================================================
