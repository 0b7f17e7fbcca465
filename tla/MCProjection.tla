---- MODULE MCProjection ----
(* Small instances of Projection. *)
EXTENDS Projection

CONSTANT n1

OneNode == {n1}
====
