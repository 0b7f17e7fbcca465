---- MODULE MCRunGate ----
(* Small instances of RunGate. *)
EXTENDS RunGate, TLC

CONSTANTS u1, u2, h1, high, low

TwoClients == {u1, u2}
OneInput == {h1}
TwoConsents == {high, low}
OneHighRisk == {high}
Symmetric == Permutations(TwoClients)
====
