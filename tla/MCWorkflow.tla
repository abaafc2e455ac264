----------------------------- MODULE MCWorkflow -----------------------------
(***************************************************************************)
(* Workflow with a chain of two tasks; executions are interchangeable.     *)
(***************************************************************************)
EXTENDS Workflow, TLC

CONSTANTS a, b, m, r1, r2

ChainDeps == [t \in Task |-> IF t = b THEN {a} ELSE {}]

Interchangeable == Permutations(Run)
==============================================================================
