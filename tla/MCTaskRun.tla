----------------------------- MODULE MCTaskRun -----------------------------
(***************************************************************************)
(* Small instances of TaskRun: the same plan time on two agents, and a     *)
(* second dispatch of the task on one of them.                             *)
(***************************************************************************)
EXTENDS TaskRun

CONSTANTS a, b, x, y, z

\* x and y are one plan time seen by two agents; z is another dispatch on a.
TwoRuns == {x, y}
ThreeRuns == {x, y, z}
OneRun == {x}
TwoAgents == {a, b}
AgentOfRun == [r \in Run |-> IF r = y THEN b ELSE a]
PlanTime == [r \in Run |-> IF r = z THEN 2 ELSE 1]
SecondDispatch == {x, z}
=============================================================================
