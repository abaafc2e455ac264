----------------------------- MODULE MCTaskLock -----------------------------
(***************************************************************************)
(* Small instances of TaskLock: two runs of a task, one of which may lock again.  *)
(***************************************************************************)
EXTENDS TaskLock

CONSTANTS r1, r2, a1, a2, b1

TwoRuns == {r1, r2}
TwoAndOne == {a1, a2, b1}
StreamsOfTwo == [s \in TwoAndOne |-> IF s = b1 THEN r2 ELSE r1]
=============================================================================
