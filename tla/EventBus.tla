------------------------------ MODULE EventBus ------------------------------
(***************************************************************************)
(* The timeline of one request id: EventBus in agents/events.py and the    *)
(* stream that shows it (chat_stream in backend/api/service.py).           *)
(*                                                                         *)
(* Publishers are threads.  They number and record an event under the      *)
(* bus's lock and hand it to the subscribers' queues after they have let   *)
(* the lock go, one queue at a time.  The boundary is the thread that      *)
(* opens and closes the run.  A stream is a browser's connection; one that *)
(* reconnects is another stream.                                           *)
(***************************************************************************)
EXTENDS Naturals, Sequences, FiniteSets

CONSTANTS
  Publishers,    \* threads that publish for the request
  Streams,       \* connections to the stream of the request
  Keep,          \* EVENTS_PER_RUN
  MaxIdle,       \* silent waits after which a stream gives up
  MaxEvents,     \* bound: events published
  MaxTurns,      \* bound: turns that come with this request id
  MaxEvictions   \* bound: times that other runs push this one out

ASSUME EventBusAssumption ==
  /\ Keep \in Nat \ {0} /\ MaxIdle \in Nat \ {0}
  /\ MaxEvents \in Nat /\ MaxTurns \in Nat /\ MaxEvictions \in Nat
  /\ "boundary" \notin Publishers

VARIABLES
  run,          \* _runs[id], or NoRun
  made,         \* events recorded so far, over all runs
  turn,         \* turns started, and whether the last one is running
  evictions,    \* times the run was pushed out
  handing,      \* what each thread is about to hand over, and to whom
  subscribers,  \* _subscribers[id]
  stage,        \* where each stream is
  queue,        \* the queue of each stream
  sent,         \* what each stream has shown
  seen,         \* the highest sequence number it has shown
  idle,         \* its silent waits in a row
  skipped       \* what it took from its queue and did not show

bus     == <<run, made, evictions, handing, subscribers>>
streams == <<stage, queue, sent, seen, idle, skipped>>
vars    == <<bus, turn, streams>>

Threads == Publishers \cup {"boundary"}

\* id tells two events apart that two runs gave the same number.
Event == [id : 1..MaxEvents, sequence : 1..MaxEvents]
End   == [id |-> 0, sequence |-> 0]
NoRun == [sequence |-> 0, events |-> <<>>, finished |-> TRUE, known |-> FALSE]
NewRun == [sequence |-> 0, events |-> <<>>, finished |-> FALSE, known |-> TRUE]

Nothing == [item |-> End, to |-> {}]
Elements(s) == {s[i] : i \in DOMAIN s}

\* Opening is idempotent: a run that is there stays as it is.
OpenRun == IF run.known THEN run ELSE NewRun

\* A full history that takes no more.
NewestWrong(s) == SubSeq(s, 1, IF Len(s) > Keep THEN Keep ELSE Len(s))

\* The newest Keep elements of a sequence.
Newest(s) == SubSeq(s, IF Len(s) > Keep THEN Len(s) - Keep + 1 ELSE 1, Len(s))

-----------------------------------------------------------------------------
(* The turn.                                                               *)

\* A turn begins at the user boundary.
Open ==
  /\ ~turn.running /\ turn.number < MaxTurns /\ handing["boundary"].to = {}
  /\ turn' = [number |-> turn.number + 1, running |-> TRUE]
  /\ run' = OpenRun
  /\ UNCHANGED <<made, evictions, handing, subscribers, streams>>

\* It ends: the run is finished and the subscribers are about to be told.
Close ==
  /\ turn.running
  /\ turn' = [turn EXCEPT !.running = FALSE]
  /\ run' = [run EXCEPT !.finished = TRUE]
  /\ handing' = [handing EXCEPT !["boundary"] = [item |-> End, to |-> subscribers]]
  /\ UNCHANGED <<made, evictions, subscribers, streams>>

\* A thread records an event and notes who is to have it.  A run that was
\* pushed out is made anew.  Threads may outlive their turn.
Publish(p) ==
  /\ turn.number > 0 /\ made < MaxEvents /\ handing[p].to = {}
  /\ LET event == [id |-> made + 1, sequence |-> OpenRun.sequence + 1] IN
       /\ made' = event.id
       /\ run' = [OpenRun EXCEPT !.sequence = event.sequence,
                                 !.events = Newest(Append(@, event))]
       /\ handing' = [handing EXCEPT ![p] = [item |-> event, to |-> subscribers]]
  /\ UNCHANGED <<turn, evictions, subscribers, streams>>

\* It hands the event to one of them, whose queue may have no reader any more.
Deliver(p, s) ==
  /\ s \in handing[p].to
  /\ handing' = [handing EXCEPT ![p].to = @ \ {s}]
  /\ queue' = [queue EXCEPT ![s] =
                 IF s \in subscribers THEN Append(@, handing[p].item) ELSE @]
  /\ UNCHANGED <<run, made, evictions, subscribers, turn, stage, sent, seen, idle,
                 skipped>>

\* Other turns fill the bus and this one is the oldest.
Evict ==
  /\ run.known /\ evictions < MaxEvictions
  /\ evictions' = evictions + 1
  /\ run' = NoRun
  /\ UNCHANGED <<made, handing, subscribers, turn, streams>>

-----------------------------------------------------------------------------
(* A stream.                                                               *)

Goto(s, where) == stage' = [stage EXCEPT ![s] = where]

\* A connection that only looks whether there is a run.
ClaimWrong(s) ==
  /\ stage[s] = "new" /\ Goto(s, "claimed")
  /\ UNCHANGED <<bus, turn, queue, sent, seen, idle, skipped>>

\* The connection is made, before or after the turn begins.
Claim(s) ==
  /\ stage[s] = "new" /\ Goto(s, "claimed")
  /\ run' = OpenRun
  /\ UNCHANGED <<made, evictions, handing, subscribers, turn, queue, sent, seen,
                 idle, skipped>>

\* A queue of which the bus does not know.
SubscribeWrong(s) ==
  /\ stage[s] = "claimed" /\ Goto(s, "subscribed")
  /\ UNCHANGED <<bus, turn, queue, sent, seen, idle, skipped>>

\* Listening comes first ...
Subscribe(s) ==
  /\ stage[s] = "claimed" /\ Goto(s, "subscribed")
  /\ subscribers' = subscribers \cup {s}
  /\ UNCHANGED <<run, made, evictions, handing, turn, queue, sent, seen, idle,
                 skipped>>

\* ... then the history is shown ...
Replay(s) ==
  /\ stage[s] = "subscribed" /\ Goto(s, "replayed")
  /\ sent' = [sent EXCEPT ![s] = run.events]
  /\ seen' = [seen EXCEPT ![s] =
                IF run.events = <<>> THEN 0
                ELSE run.events[Len(run.events)].sequence]
  /\ UNCHANGED <<bus, turn, queue, idle, skipped>>

\* The response is over and the queue is given back.
Leave(s, how) ==
  /\ Goto(s, how)
  /\ subscribers' = subscribers \ {s}
  /\ queue' = [queue EXCEPT ![s] = <<>>]
  /\ UNCHANGED <<run, made, evictions, handing, turn>>

\* ... and a run that has finished needs no waiting.
Check(s) ==
  /\ stage[s] = "replayed"
  /\ IF run.finished THEN Leave(s, "done")
     ELSE Goto(s, "live") /\ UNCHANGED <<bus, turn, queue>>
  /\ UNCHANGED <<sent, seen, idle, skipped>>

\* What is taken from the queue is shown, replayed or not.
TakeWrong(s) ==
  /\ stage[s] = "live" /\ queue[s] # <<>>
  /\ LET item == Head(queue[s]) IN
       IF item = End
       THEN Leave(s, "done") /\ UNCHANGED <<sent, seen, idle, skipped>>
       ELSE /\ queue' = [queue EXCEPT ![s] = Tail(@)]
            /\ idle' = [idle EXCEPT ![s] = 0]
            /\ sent' = [sent EXCEPT ![s] = Append(@, item)]
            /\ UNCHANGED <<bus, turn, stage, seen, skipped>>

\* The end marker ends the stream; a number that is not above the last one shown
\* is taken for a repeat.
Take(s) ==
  /\ stage[s] = "live" /\ queue[s] # <<>>
  /\ LET item == Head(queue[s]) IN
       IF item = End
       THEN Leave(s, "done") /\ UNCHANGED <<sent, seen, idle, skipped>>
       ELSE /\ queue' = [queue EXCEPT ![s] = Tail(@)]
            /\ idle' = [idle EXCEPT ![s] = 0]
            /\ IF item.sequence <= seen[s]
               THEN /\ skipped' = [skipped EXCEPT ![s] = @ \cup {item}]
                    /\ UNCHANGED <<sent, seen>>
               ELSE /\ sent' = [sent EXCEPT ![s] = Append(@, item)]
                    /\ seen' = [seen EXCEPT ![s] = item.sequence]
                    /\ UNCHANGED skipped
            /\ UNCHANGED <<bus, turn, stage>>

\* A stream that waits for its run however long it takes.
WaitWrong(s) ==
  /\ stage[s] = "live" /\ queue[s] = <<>>
  /\ run.finished /\ Leave(s, "done")
  /\ UNCHANGED <<sent, seen, idle, skipped>>

\* Silence: the stream looks whether the run is over and gives up in the end.
Wait(s) ==
  /\ stage[s] = "live" /\ queue[s] = <<>>
  /\ idle' = [idle EXCEPT ![s] = @ + 1]
  /\ IF run.finished \/ idle'[s] >= MaxIdle THEN Leave(s, "done")
     ELSE UNCHANGED <<bus, turn, stage, queue>>
  /\ UNCHANGED <<sent, seen, skipped>>

\* The browser goes away.
Disconnect(s) ==
  /\ stage[s] \in {"claimed", "subscribed", "replayed", "live"}
  /\ Leave(s, "gone")
  /\ UNCHANGED <<sent, seen, idle, skipped>>

-----------------------------------------------------------------------------

Init ==
  /\ run = NoRun /\ made = 0 /\ evictions = 0 /\ subscribers = {}
  /\ turn = [number |-> 0, running |-> FALSE]
  /\ handing = [p \in Threads |-> Nothing]
  /\ stage = [s \in Streams |-> "new"] /\ queue = [s \in Streams |-> <<>>]
  /\ sent = [s \in Streams |-> <<>>] /\ seen = [s \in Streams |-> 0]
  /\ idle = [s \in Streams |-> 0] /\ skipped = [s \in Streams |-> {}]

Stream(s) == Subscribe(s) \/ Replay(s) \/ Check(s) \/ Take(s) \/ Wait(s)

Next ==
  \/ Open \/ Close \/ Evict
  \/ \E p \in Publishers : Publish(p)
  \/ \E p \in Threads, s \in Streams : Deliver(p, s)
  \/ \E s \in Streams : Claim(s) \/ Stream(s) \/ Disconnect(s)

\* A response that was started is driven by the event loop, whose waits have a
\* timeout.  Nobody else has to do anything.
Spec == Init /\ [][Next]_vars /\ \A s \in Streams : WF_vars(Stream(s))

-----------------------------------------------------------------------------
(* Properties.                                                             *)

\* The history is the newest Keep events in the order of their numbers, which
\* have no gap; what is handed over or queued are events and end markers.
TypeOK ==
  /\ run.events \in Seq(Event) /\ Len(run.events) <= Keep
  /\ run.sequence \in 0..MaxEvents /\ run.finished \in BOOLEAN
  /\ \A i \in DOMAIN run.events :
       run.events[i].sequence = run.sequence - Len(run.events) + i
  /\ made \in 0..MaxEvents /\ evictions \in 0..MaxEvictions
  /\ turn \in [number : 0..MaxTurns, running : BOOLEAN]
  /\ handing \in [Threads -> [item : Event \cup {End}, to : SUBSET Streams]]
  /\ subscribers = {s \in Streams : stage[s] \in {"subscribed", "replayed", "live"}}
  /\ \A s \in Streams :
       /\ stage[s] \in {"new", "claimed", "subscribed", "replayed", "live", "done",
                        "gone"}
       /\ queue[s] \in Seq(Event \cup {End}) /\ sent[s] \in Seq(Event)
       /\ seen[s] \in 0..MaxEvents /\ idle[s] \in 0..MaxIdle
       /\ skipped[s] \subseteq Event

\* However replay and delivery overlap, a stream shows no event twice and shows
\* them in the order of their numbers; while the run stays in the bus, that is
\* the order in which they happened.
ShownOnceInOrder ==
  \A s \in Streams : \A i, j \in DOMAIN sent[s] : i < j =>
    /\ sent[s][i].sequence < sent[s][j].sequence
    /\ sent[s][i].id # sent[s][j].id
    /\ evictions = 0 => sent[s][i].id < sent[s][j].id

\* There is no window between replay and delivery: every event of the history
\* was shown to a connected stream, or is on its way to it, or was taken for a
\* repeat.
NothingBetween ==
  \A s \in Streams : stage[s] \in {"replayed", "live"} =>
    \A e \in Elements(run.events) :
      \/ e \in Elements(sent[s]) \cup Elements(queue[s]) \cup skipped[s]
      \/ \E p \in Publishers : handing[p].item = e /\ s \in handing[p].to

\* A stream that connects before its turn begins is not sent away, and one that
\* has neither given up nor been left ends when the turn is over: as long as the
\* id is used once and its run is not pushed out.
DoneMeansOver ==
  evictions = 0 /\ turn.number <= 1 =>
    \A s \in Streams :
      stage[s] = "done" /\ idle[s] < MaxIdle => turn.number = 1 /\ ~turn.running

\* A stream as its reader sees it.
Promised == INSTANCE Feed WITH
  Readers <- Streams, published <- made,
  shown <- [s \in Streams |-> [i \in DOMAIN sent[s] |-> sent[s][i].id]],
  state <- [s \in Streams |->
              CASE stage[s] = "new" -> "new"
                [] stage[s] \in {"done", "gone"} -> "over"
                [] OTHER -> "open"]

\* Replay, queue and silence together are the plain feed they stand for: what is shown was
\* published and is shown once, and no stream stays open for ever, whether its turn never comes,
\* ends without a word or was pushed out (service.py:495-545).
Feeds == Promised!Spec

\* The comment on the subscription in chat_stream: subscribing first cannot lose
\* an event, it can only deliver one twice, and that is what is discarded.
CannotLose ==
  \A s \in Streams : \A e \in skipped[s] : e \in Elements(sent[s])

\* What a browser is shown has no repeat, no gap and no early end (service.py:495-545).
StreamIsWhole == TypeOK /\ ShownOnceInOrder /\ NothingBetween /\ DoneMeansOver
=============================================================================
