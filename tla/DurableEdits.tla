---- MODULE DurableEdits ----
(***************************************************************************)
(* What the sync service promises about a board's stored document: edits   *)
(* of the users enter it, and none ever leaves it again.                   *)
(***************************************************************************)
CONSTANT Edits

VARIABLES
    made,     \* edits users have made
    durable   \* edits in the document the next reader of the store gets

Init == made = {} /\ durable = {}

Make == \E e \in Edits \ made : made' = made \cup {e} /\ UNCHANGED durable

Store == /\ \E new \in SUBSET made : durable' = durable \cup new
         /\ UNCHANGED made

Next == Make \/ Store

Spec == Init /\ [][Next]_<<made, durable>>
====
