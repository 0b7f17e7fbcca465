---- MODULE MCPlan ----
(* Three steps: a plan that joins two branches, and one that is a line. *)
EXTENDS PlanExecutor
CONSTANTS a, b, c, e1, e2
Abc == <<a, b, c>>
Join == [n \in Steps |-> IF n = c THEN {a, b} ELSE {}]
Line == [n \in Steps |-> CASE n = a -> {} [] n = b -> {a} [] n = c -> {b}]
JoinAndLine == {Join, Line}
TwoEngines == [n \in Steps |-> IF n = b THEN <<e1>> ELSE <<e1, e2>>]
====
