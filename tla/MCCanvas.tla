---- MODULE MCCanvas ----
(* Small instances of CanvasGesture. *)
EXTENDS CanvasGesture, TLC

CONSTANTS t1, t2, t3, n1, n2

\* three fingers on a card; a mouse on a card and the edge, or on two grouped cards; a
\* mouse and two fingers on a card
FourScenes == {<<{t1, t2, t3}, {n1}>>, <<{Mouse}, {n1, Edge}>>, <<{Mouse}, {n1, n2}>>,
               <<{Mouse, t1, t2}, {n1}>>}

Fingers == Permutations(Touches)
====
