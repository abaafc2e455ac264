----------------------------- MODULE WorkflowDag -----------------------------
(***************************************************************************)
(* What the workflow runner promises of one workflow: it is started, its   *)
(* tasks are tried in an order that respects the dependencies, and when it *)
(* ends it leaves nothing behind that the next start could take for its    *)
(* own.  A task may be tried again, even after it succeeded.               *)
(***************************************************************************)
EXTENDS Naturals

CONSTANTS
    Task,    \* the tasks of the workflow
    Deps     \* the tasks each task depends on, in [Task -> SUBSET Task]

VARIABLES
    active,  \* the workflow was started and has not ended
    done,    \* the tasks that have succeeded since the start
    tried    \* the tasks that were tried

vars == <<active, done, tried>>

TypeOK ==
    /\ active \in BOOLEAN
    /\ done \subseteq Task
    /\ tried \subseteq Task

Init == active = FALSE /\ done = {} /\ tried = {}

Start == ~active /\ active' = TRUE /\ UNCHANGED <<done, tried>>

\* A task is tried, or tried again, once its dependencies have succeeded.
Try(t) ==
    /\ active
    /\ Deps[t] \subseteq done
    /\ tried' = tried \cup {t}
    /\ UNCHANGED <<active, done>>

\* A task that was tried succeeds.
Complete(t) ==
    /\ active
    /\ t \in tried
    /\ done' = done \cup {t}
    /\ UNCHANGED <<active, tried>>

\* The workflow ends: everything is done, a task failed for good, or a user
\* killed it.
End ==
    /\ active
    /\ active' = FALSE
    /\ done' = {}
    /\ tried' = {}

Next == Start \/ End \/ \E t \in Task : Try(t) \/ Complete(t)

Spec == Init /\ [][Next]_vars

\* A task was tried only after everything it depends on has succeeded.
DepsFirst == \A t \in tried : Deps[t] \subseteq done
==============================================================================
