---------------------------- MODULE Deliberation ----------------------------
(***************************************************************************)
(* What a negotiation promises to whoever waits for its plan, whatever the *)
(* two agents say: drafts are put on the table one at a time, a doubt that *)
(* a draft raises is in every later one, and after at most Rounds revisions *)
(* of the first draft there is a verdict, which ends the talk.  The first  *)
(* draft can end it in one way only.                                       *)
(***************************************************************************)
EXTENDS Naturals

CONSTANTS
  Rounds,    \* revisions of the first draft
  Verdicts,  \* how a talk can end
  Refusal    \* how it can end with the first draft

VARIABLES
  drafts,   \* drafts so far
  doubt,    \* whether the latest one holds a doubt that is the user's
  verdict   \* how it ended, or "none"

talk == <<drafts, doubt, verdict>>

Init == drafts = 0 /\ doubt = FALSE /\ verdict = "none"

Draft ==
  /\ verdict = "none"
  /\ drafts' = drafts + 1
  /\ doubt' \in {d \in BOOLEAN : doubt => d}
  /\ verdict' \in {v \in Verdicts \cup {"none"} :
                     /\ drafts = 0 => v \in {"none", Refusal}
                     /\ drafts = Rounds => v # "none"}

Safe == Init /\ [][Draft]_talk
Spec == Safe /\ WF_talk(Draft)
=============================================================================
