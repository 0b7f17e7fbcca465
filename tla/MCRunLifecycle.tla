---- MODULE MCRunLifecycle ----
(* Small instances of RunLifecycle. *)
EXTENDS RunLifecycle

CONSTANT r1

OneRun == {r1}

\* The built-in modules' 30 s; sherlock's 600 s.
ManifestWall == [container |-> 3, inprocess |-> 1]
====
