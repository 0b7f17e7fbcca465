---- MODULE MCBoardSync ----
(* Small instances of BoardSync. *)
EXTENDS BoardSync

CONSTANTS c1, c2, e1, e2, i1

TwoClients == {c1, c2}
TwoEdits == {e1, e2}
OneImport == {i1}
====
