---------------------------- MODULE WorkflowEdit ----------------------------
(***************************************************************************)
(* The definition of one workflow: its row, the rows of                    *)
(* gc_workflow_schedule_plan that say which task waits for which, and the  *)
(* copy of them (TaskFlow) in the plan of each center's runner.            *)
(*                                                                         *)
(* An API call is a job of a center.  It reads replicas, one chosen anew   *)
(* for every query, writes in a transaction, and refreshes the center's    *)
(* plan from the replicas before it commits (app/workflow.go).             *)
(***************************************************************************)
EXTENDS Naturals, FiniteSets

CONSTANTS Node,         \* the workflow tasks
          List,         \* task lists that editors send
          Job,          \* jobs that may be under way at once
          Office,       \* the centers
          MaxBatches,   \* bound: task lists that are saved
          MaxSeconds    \* bound: the seconds that rows are stamped with

Dependency == Node \union {"none"}
Edge == [task : Node, dep : Dependency]

ASSUME ListsAreEdges == List \subseteq SUBSET Edge
ASSUME EditBounds == MaxBatches \in Nat /\ MaxSeconds \in Nat \ {0}

VARIABLES
  wf,         \* MySQL: the workflow
  older,      \* MySQL before the last commit: what a late replica has
  plan,       \* per center: the runner's plan
  job,        \* per job: what it does
  batch,      \* how many task lists were saved
  second,     \* the time
  orphaned    \* rows deleted in a transaction that was left open

editVars == <<wf, older, plan, job, batch, second, orphaned>>

PlanRow == [task : Node, dep : Dependency, batch : 1..MaxBatches,
            at : 1..MaxSeconds]
Edges(rows) == {[task |-> r.task, dep |-> r.dep] : r \in rows}

NoJob == [op |-> "none", step |-> "none", center |-> "none", del |-> {},
          new |-> {}, latest |-> 0]
NoPlan == [has |-> FALSE, flow |-> {}, time |-> 0]

JobRecord ==
  [op : {"none", "create", "edit", "update", "delete", "refresh", "schedule"},
   step : {"none", "latest", "list", "read", "stop", "commit"},
   center : Office \union {"none"}, del : SUBSET PlanRow, new : SUBSET PlanRow,
   latest : 0..MaxSeconds]

EditTypeOK ==
  /\ {wf, older} \subseteq [there : BOOLEAN, rows : SUBSET PlanRow]
  /\ plan \in [Office -> [has : BOOLEAN, flow : SUBSET Edge,
                         time : 0..MaxSeconds]]
  /\ job \in [Job -> JobRecord]
  /\ batch \in 0..MaxBatches /\ second \in 1..MaxSeconds
  /\ orphaned \subseteq PlanRow

EditInit ==
  /\ wf = [there |-> FALSE, rows |-> {}]
  /\ older = wf
  /\ plan = [n \in Office |-> NoPlan]
  /\ job = [j \in Job |-> NoJob]
  /\ batch = 0 /\ second = 1 /\ orphaned = {}

-----------------------------------------------------------------------------
Replica == {wf, older}

(* Its transaction has deleted del and inserted new.                       *)
Writing(j) ==
  \/ job[j].op = "delete"
  \/ job[j].op = "edit" /\ job[j].new # {}

(* MySQL's row locks: what another transaction has deleted is waited for,  *)
(* and a deletion of all rows waits for inserts and they for it.           *)
MayWrite(j, op, rows) ==
  /\ rows \intersect orphaned = {}
  /\ \A k \in Job \ {j} : Writing(k) =>
       op = "edit" /\ job[k].op = "edit" /\ job[k].del \intersect rows = {}

Begins(j, n, op, step) ==
  /\ job[j].op = "none"
  /\ job' = [job EXCEPT ![j] =
       [NoJob EXCEPT !.op = op, !.step = step, !.center = n]]
  /\ UNCHANGED <<wf, older, plan, batch, second, orphaned>>

JobEnds(j) == job' = [job EXCEPT ![j] = NoJob]
Saves(new) == wf' = new /\ older' = wf

-----------------------------------------------------------------------------
(* SetPlan and RefreshPlanTasks, which the jobs go through.                *)

AfterRefresh(j) ==
  CASE job[j].op \in {"create", "update"} -> "commit"
    [] job[j].op = "edit" -> IF job[j].new = {} THEN "read" ELSE "commit"
    [] OTHER -> "none"

StepsOn(j) ==
  IF AfterRefresh(j) = "none" THEN NoJob
  ELSE [job[j] EXCEPT !.step = AfterRefresh(j), !.latest = 0]

(* scheduleWorkflowPlan refreshes a plan it has, the others store theirs.  *)
StorePlan(j, p) ==
  plan' = [plan EXCEPT ![job[j].center] =
             IF job[j].op = "schedule" /\ ~@.has THEN @ ELSE p]

(* The time of the latest row decides whether the rows are read at all.    *)
LatestCreateTime(s) ==
  IF s.rows = {} THEN 0
  ELSE CHOOSE t \in {r.at : r \in s.rows} : \A r \in s.rows : r.at <= t

ReadLatest(j, s) ==
  LET n == job[j].center
      latest == LatestCreateTime(s)
  IN  /\ job[j].step = "latest"
      /\ \A k \in Job : job[k].step = "list" => job[k].center # n
      /\ IF latest = 0 \/ latest = plan[n].time
           THEN /\ job' = [job EXCEPT ![j] = StepsOn(j)]
                /\ StorePlan(j, IF latest = 0 THEN [NoPlan EXCEPT !.has = TRUE]
                               ELSE [plan[n] EXCEPT !.has = TRUE])
           ELSE /\ job' = [job EXCEPT ![j].step = "list", ![j].latest = latest]
                /\ UNCHANGED plan
      /\ UNCHANGED <<wf, older, batch, second, orphaned>>

(* GetWorkflowScheduleTasks asks another replica.                          *)
ReadRows(j, s) ==
  /\ job[j].step = "list"
  /\ job' = [job EXCEPT ![j] = StepsOn(j)]
  /\ StorePlan(j, [has |-> TRUE, flow |-> Edges(s.rows),
                 time |-> job[j].latest])
  /\ UNCHANGED <<wf, older, batch, second, orphaned>>

(* The runner looks at its plans; a notification makes it load them again. *)
Schedule(j, n) == plan[n].has /\ Begins(j, n, "schedule", "latest")
Refresh(j, n, s) == s.there /\ Begins(j, n, "refresh", "latest")

-----------------------------------------------------------------------------
(* CreateWorkflow, UpdateWorkflow: the plan is set before the commit.      *)
CreateWorkflow(j, n) ==
  /\ ~wf.there /\ batch = 0
  /\ \A k \in Job : job[k].op # "create"
  /\ Begins(j, n, "create", "latest")

UpdateWorkflow(j, n, s) == s.there /\ Begins(j, n, "update", "latest")

(* DeleteWorkflow: three deletions, then a running plan is stopped.        *)
DeleteWorkflow(j, n, s) ==
  /\ s.there
  /\ MayWrite(j, "delete", wf.rows)
  /\ Begins(j, n, "delete", "stop")

DelPlan(j) ==
  /\ job[j].step = "stop"
  /\ job' = [job EXCEPT ![j].step = "commit"]
  /\ plan' = [plan EXCEPT ![job[j].center] = NoPlan]
  /\ UNCHANGED <<wf, older, batch, second, orphaned>>

(* The plan's state cannot be read or the plan not stopped: the error      *)
(* shadows the one the deferred function looks at, nothing is rolled back. *)
StopFails(j) ==
  /\ job[j].step = "stop"
  /\ JobEnds(j)
  /\ orphaned' = orphaned \union wf.rows
  /\ UNCHANGED <<wf, older, plan, batch, second>>

OrphansEnd ==
  /\ orphaned # {} /\ orphaned' = {}
  /\ UNCHANGED <<wf, older, plan, job, batch, second>>

CommitWorkflow(j) ==
  /\ job[j].step = "commit" /\ job[j].op \in {"create", "update", "delete"}
  /\ CASE job[j].op = "create" -> Saves([wf EXCEPT !.there = TRUE])
       [] job[j].op = "update" -> UNCHANGED <<wf, older>>
       [] job[j].op = "delete" -> Saves([there |-> FALSE, rows |-> {}])
  /\ JobEnds(j)
  /\ UNCHANGED <<plan, batch, second, orphaned>>

-----------------------------------------------------------------------------
(* CreateWorkflowSchedulePlan: the list replaces the one that is there.    *)

EditPlan(j, n, s) ==
  /\ batch < MaxBatches
  /\ IF plan[n].has THEN Begins(j, n, "edit", "read")
     ELSE s.there /\ Begins(j, n, "edit", "latest")

(* No task twice and no dependency that is not in the list.  Whether the   *)
(* tasks exist is asked too, of those with dependencies.                   *)
ValidList(edges) ==
  /\ \A e \in edges, f \in edges :
       e.task = f.task /\ e.dep = "none" => f.dep = "none"
  /\ \A e \in edges : e.dep # "none" => \E f \in edges : f.task = e.dep

(* What the call saves: new rows for all of the list, and the rows a       *)
(* replica has, to be deleted by their ids.                                *)
Stamped(edges, time) ==
  {[task |-> e.task, dep |-> e.dep, batch |-> batch + 1, at |-> time] :
     e \in edges}

(* Two lists may be saved in the same second.                              *)
WritePlan(j, edges, s, time) ==
  /\ job[j].step = "read" /\ batch < MaxBatches
  /\ plan[job[j].center].has
  /\ edges # {} /\ ValidList(edges)
  /\ time \in second..MaxSeconds /\ second' = time
  /\ MayWrite(j, "edit", s.rows)
  /\ batch' = batch + 1
  /\ job' = [job EXCEPT ![j].step = "latest", ![j].del = s.rows,
                        ![j].new = Stamped(edges, time)]
  /\ UNCHANGED <<wf, older, plan, orphaned>>

\* Faulty variant of CommitPlan: the rows are inserted one by one outside the
\* transaction, and one insert fails.
CommitPartOfPlan(j) ==
  /\ job[j].step = "commit" /\ job[j].op = "edit"
  /\ \E some \in SUBSET job[j].new :
       Saves([wf EXCEPT !.rows = (@ \ job[j].del) \union some])
  /\ JobEnds(j)
  /\ UNCHANGED <<plan, batch, second, orphaned>>

CommitPlan(j) ==
  /\ job[j].step = "commit" /\ job[j].op = "edit"
  /\ Saves([wf EXCEPT !.rows = (@ \ job[j].del) \union job[j].new])
  /\ JobEnds(j)
  /\ UNCHANGED <<plan, batch, second, orphaned>>

(* A query, an insert, the refresh or the commit fails; an edit rolls back.*)
JobFails(j) ==
  /\ job[j].op # "none" /\ job[j].step # "stop"
  /\ JobEnds(j)
  /\ UNCHANGED <<wf, older, plan, batch, second, orphaned>>

EditNext ==
  \/ OrphansEnd
  \/ \E j \in Job, s \in Replica : ReadLatest(j, s) \/ ReadRows(j, s)
  \/ \E j \in Job, n \in Office :
       \/ Schedule(j, n) \/ CreateWorkflow(j, n)
       \/ \E s \in Replica : \/ Refresh(j, n, s) \/ UpdateWorkflow(j, n, s)
                             \/ DeleteWorkflow(j, n, s) \/ EditPlan(j, n, s)
  \/ \E j \in Job :
       \/ DelPlan(j) \/ StopFails(j) \/ CommitWorkflow(j) \/ CommitPlan(j)
       \/ JobFails(j)
       \/ \E edges \in List, s \in Replica, time \in 1..MaxSeconds :
            WritePlan(j, edges, s, time)

EditSpec == EditInit /\ [][EditNext]_editVars

-----------------------------------------------------------------------------
Closed(edges) ==
  \A e \in edges : e.dep # "none" => \E f \in edges : f.task = e.dep

(* Every task that a task of the workflow waits for is a task of the       *)
(* workflow, in MySQL and in the plan of every center, whatever edits,     *)
(* deletions and refreshes from late replicas overlap and wherever they    *)
(* fail: the runner would wait for a task without a row for ever.  Lists   *)
(* of overlapping edits may be mixed, but each of them is there as a whole *)
(* or not at all.                                                          *)
DepsListed ==
  /\ Closed(Edges(wf.rows))
  /\ \A n \in Office : Closed(plan[n].flow)
=============================================================================
