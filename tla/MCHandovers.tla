---- MODULE MCHandovers ----
EXTENDS Handovers

CONSTANTS k1, l1, p1, x1

\* the proposal's one edge joins its new card to one that the board had
LinkEnds == [l \in Links |-> {k1, x1}]
PatchTarget == [p \in Patches |-> x1]
====
