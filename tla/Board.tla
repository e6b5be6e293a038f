------------------------------- MODULE Board -------------------------------
(***************************************************************************)
(* What the message pipeline promises of a conversation.  A message is     *)
(* shown at most once, messages join one at a time, and those that are     *)
(* shown stay and keep their order, unless something was lost: a page was  *)
(* closed or a cache dropped before everything was written.  It promises   *)
(* nothing once that came between the writes of two splits.                *)
(***************************************************************************)
EXTENDS SequencesExt

CONSTANT Msg

VARIABLES shown, harmed, torn

Init == shown = <<>>

\* A message joins, at any place.
Post ==
    /\ Len(shown') = Len(shown) + 1
    /\ \E m \in Msg \ ToSet(shown), i \in 1..Len(shown') : shown' = InsertAt(shown, i, m)

\* An older state comes back, or some of it.
Reload ==
    /\ harmed'
    /\ shown' # shown
    /\ IsInjective(shown')

Next == torn' \/ Post \/ Reload

Spec == Init /\ [][Next]_shown
=============================================================================
