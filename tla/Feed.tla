-------------------------------- MODULE Feed --------------------------------
(***************************************************************************)
(* What the live stream of a request promises to those who watch: a reader *)
(* is shown what was published, nothing twice and nothing that is not      *)
(* there, for as long as its stream is open; and every stream that opens   *)
(* ends, however long the turn is silent.  It may be shown less than was   *)
(* published.                                                              *)
(***************************************************************************)
EXTENDS Naturals, Sequences

CONSTANT Readers

VARIABLES
  published,  \* how many events were published: their names are 1..published
  shown,      \* what each reader was shown, in the order in which it was
  state       \* of each reader: "new", "open" or "over"

feed == <<published, shown, state>>

Init == /\ published = 0
        /\ shown = [r \in Readers |-> <<>>] /\ state = [r \in Readers |-> "new"]

Publish == published' = published + 1 /\ UNCHANGED <<shown, state>>

Connect(r) ==
  /\ state[r] = "new" /\ state' = [state EXCEPT ![r] = "open"]
  /\ UNCHANGED <<published, shown>>

\* Some more of what was published, and nothing of it again.
Show(r) ==
  /\ state[r] = "open"
  /\ \A q \in Readers \ {r} : shown'[q] = shown[q]
  /\ Len(shown'[r]) > Len(shown[r])
  /\ SubSeq(shown'[r], 1, Len(shown[r])) = shown[r]
  /\ \A i, j \in DOMAIN shown'[r] :
       shown'[r][i] \in 1..published /\ (shown'[r][i] = shown'[r][j] => i = j)
  /\ UNCHANGED <<published, state>>

End(r) ==
  /\ state[r] = "open" /\ state' = [state EXCEPT ![r] = "over"]
  /\ UNCHANGED <<published, shown>>

Next == Publish \/ \E r \in Readers : Connect(r) \/ Show(r) \/ End(r)

Safe == Init /\ [][Next]_feed
Spec == Safe /\ \A r \in Readers : WF_feed(End(r))
=============================================================================
