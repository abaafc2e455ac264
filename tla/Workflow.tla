------------------------------ MODULE Workflow ------------------------------
(***************************************************************************)
(* One workflow as the centers run it: the plan key and the task states in *)
(* etcd, the runner of each center with its plan mutex, its events and its *)
(* idea of being the leader, and the executions on the agents as far as    *)
(* the runner sees them (their own detail is in TaskRun).                  *)
(*                                                                         *)
(* A step is one call to etcd with the lines around it.  The mutex of the  *)
(* plan (WorkflowPlan.locker) exists once per center, so what it protects  *)
(* is protected against goroutines of the same center only.                *)
(***************************************************************************)
EXTENDS Naturals, FiniteSets

CONSTANTS
    Task,      \* the tasks of the workflow
    Deps,      \* TaskFlow: the tasks each task depends on
    Known,     \* the tasks that StatusReporter finds among the cron tasks
    Center,    \* the centers
    Run,       \* places for executions on agents, used again when free
    None,      \* nobody
    Limit,     \* WORKFLOW_SCHEDULE_LIMIT (3 in the code)
    MaxEvents, \* bound: events of one task waiting at one center
    MaxFaults, \* bound: how many faults happen
    Faults     \* the faults that may happen

\* "dispatch": no agent takes the task.  "agent": an agent process dies.
\* "kill": a user kills the workflow.
\* "slow": a report is handled after the agent gave it up.
\* "refused": RUNNING is Aborted, for the log row of an earlier attempt.
\* "center": a center process dies.  "session": the leader's etcd session ends.
\* "long": more than half the time to the next start has passed (IsRunning).
\* "etcd": a call of Finished fails three times and it returns.
\* "neighbour": a workflow whose id starts with this one's id ends.
\* "overlap": a start while something of the last one is not digested.
FaultKind == {"dispatch", "agent", "kill", "slow", "refused", "center",
              "session", "long", "etcd", "neighbour", "overlap"}

ASSUME WorkflowAssumption ==
    /\ Deps \in [Task -> SUBSET Task]
    /\ Known \subseteq Task
    /\ None \notin Run /\ None \notin Center /\ None \notin Task
    /\ Limit \in Nat \ {0}
    /\ MaxFaults \in Nat
    /\ MaxEvents \in Nat \ {0}
    /\ Faults \subseteq FaultKind

VARIABLES
    plan,      \* etcd: the plan key exists (its status is always RUNNING)
    stale,     \* IsRunning no longer believes the plan key
    st,        \* etcd: CurrentStatus of each task, or "absent"
    count,     \* etcd: ScheduleCount of each task, not counted past Limit
    elected,   \* etcd: the center that owns the election key
    leader,    \* the centers whose isLeader is true
    busy,      \* each center: what the holder of the plan mutex does
    events,    \* each center: schedule events not yet taken, per task
    inproc,    \* each center: processRecord
    ending,    \* each center: calls of Finished that wait for the mutex
    task,      \* agents: the task of each execution
    pc,        \* agents: progress of each execution
    lock,      \* etcd: the execution that owns the lock of each task
    late,      \* reports whose agent no longer waits for them
    clean,     \* history: the plan runs and started on nothing left over
    succeeded, \* history: the tasks that were DONE since the start
    spoilt,    \* history: something that may leave states behind happened
    faults     \* how many faults have happened

history    == <<clean, succeeded, spoilt>>
etcdVars   == <<plan, stale, st, count, history>>
leadVars   == <<elected, leader>>
runnerVars == <<busy, events, inproc, ending>>
centerVars == <<leadVars, runnerVars>>
agentVars  == <<task, pc, lock, late>>
vars == <<etcdVars, centerVars, agentVars, faults>>

-----------------------------------------------------------------------------
(***************************************************************************)
(* Vocabulary.                                                             *)
(***************************************************************************)

Status == {"absent", "not_running", "starting", "running", "done", "fail"}

\* "sent": the agent took the task, the lock is next; "locked": RUNNING is
\* next; "running"; "ok"/"err": FINISHED is next; "told": CancelFunc is next.
PC == {"free", "sent", "locked", "running", "ok", "err", "told"}

\* What the holder of the mutex does: scheduleTask before its two checks are
\* both done and after them,
\* CanSchedule with RUNNING tasks to look at, Finished by its next call.
Idle == [job |-> "idle"]
Checking(t) == [job |-> "check", task |-> t]
Dispatching(t) == [job |-> "dispatch", task |-> t]
Scanning(S, L, R, e) == [job |-> "scan", suspects |-> S, lost |-> L,
                         ready |-> R, verdict |-> e]
Ending(step, K, e) == [job |-> "finish", step |-> step, kill |-> K, err |-> e]

Verdict == {"go", "ok", "failed"}
Busy == {Idle} \cup [job : {"check", "dispatch"}, task : Task]
        \cup [job : {"scan"}, suspects : SUBSET Task, lost : SUBSET Task,
              ready : SUBSET Task, verdict : Verdict]
        \cup [job : {"finish"}, step : {"plan", "states", "kill"},
              kill : SUBSET Task, err : BOOLEAN]

TypeOK ==
    /\ plan \in BOOLEAN /\ stale \in BOOLEAN
    /\ st \in [Task -> Status]
    /\ count \in [Task -> 0..Limit]
    /\ elected \in Center \cup {None}
    /\ leader \subseteq Center
    /\ busy \in [Center -> Busy]
    /\ events \in [Center -> [Task -> 0..MaxEvents]]
    /\ inproc \in [Center -> SUBSET Task]
    /\ ending \in [Center -> SUBSET BOOLEAN]
    /\ task \in [Run -> Task \cup {None}]
    /\ pc \in [Run -> PC]
    /\ \A r \in Run : task[r] = None <=> pc[r] = "free"
    /\ lock \in [Task -> Run \cup {None}]
    /\ late \subseteq Task \X {"running", "ok", "err"}
    /\ clean \in BOOLEAN /\ spoilt \in BOOLEAN
    /\ succeeded \subseteq Task
    /\ faults \in 0..MaxFaults

Init ==
    /\ plan = FALSE /\ stale = FALSE
    /\ st = [t \in Task |-> "absent"]
    /\ count = [t \in Task |-> 0]
    /\ elected = None
    /\ leader = {}
    /\ busy = [c \in Center |-> Idle]
    /\ events = [c \in Center |-> [t \in Task |-> 0]]
    /\ inproc = [c \in Center |-> {}]
    /\ ending = [c \in Center |-> {}]
    /\ task = [r \in Run |-> None]
    /\ pc = [r \in Run |-> "free"]
    /\ lock = [t \in Task |-> None]
    /\ late = {}
    /\ clean = FALSE /\ spoilt = FALSE
    /\ succeeded = {}
    /\ faults = 0

Done == {t \in Task : st[t] = "done"}
\* Faulty variant of Startable: a dependency without a state is no obstacle.
StartableEarly == {t \in Task : st[t] # "done"
                     /\ \A d \in Deps[t] : st[d] \in {"done", "absent"}}
Startable == {t \in Task : st[t] # "done" /\ Deps[t] \subseteq Done}
Fault(f) == f \in Faults /\ faults < MaxFaults /\ faults' = faults + 1
NoFault == UNCHANGED faults
Do(c, b) == busy' = [busy EXCEPT ![c] = b]
RunsOf(t) == {r \in Run : task[r] = t /\ pc[r] # "free"}

\* The plan key is deleted, the task states are next.
HalfCleared(c) == busy[c].job = "finish" /\ busy[c].step = "states"

\* Nothing of the previous start is on its way any more.
Digested ==
    /\ \A c \in Center : /\ busy[c] = Idle /\ ending[c] = {}
                         /\ inproc[c] = {}
                         /\ \A t \in Task : events[c][t] = 0
    /\ \A r \in Run : pc[r] = "free"
    /\ late = {}
    /\ \A t \in Task : st[t] = "absent"

-----------------------------------------------------------------------------
(***************************************************************************)
(* Leadership (startWorkflow, election).                                   *)
(***************************************************************************)

BecomeLeader(c) ==
    /\ elected = None
    /\ c \notin leader
    /\ elected' = c
    /\ leader' = leader \cup {c}
    /\ UNCHANGED <<etcdVars, runnerVars, agentVars, faults>>

\* The session of the leader ends in etcd; its loop notices later.
SessionEnds ==
    /\ Fault("session")
    /\ elected # None
    /\ elected' = None
    /\ UNCHANGED <<etcdVars, leader, runnerVars, agentVars>>

StepDown(c) ==
    /\ c \in leader
    /\ elected # c
    /\ leader' = leader \ {c}
    /\ UNCHANGED <<etcdVars, elected, runnerVars, agentVars, faults>>

\* A center dies with everything it had in memory.
CenterCrash(c) ==
    /\ Fault("center")
    /\ elected' = IF elected = c THEN None ELSE elected
    /\ leader' = leader \ {c}
    /\ Do(c, Idle)
    /\ events' = [events EXCEPT ![c] = [t \in Task |-> 0]]
    /\ inproc' = [inproc EXCEPT ![c] = {}]
    /\ ending' = [ending EXCEPT ![c] = {}]
    /\ spoilt' = (spoilt \/ HalfCleared(c))
    /\ UNCHANGED <<plan, stale, st, count, clean, succeeded, agentVars>>

-----------------------------------------------------------------------------
(***************************************************************************)
(* Start and the passing of time (TryStartPlan, SetRunning, IsRunning).    *)
(***************************************************************************)

\* setWorkflowPlanRunning: a new plan key, or LatestTryTime of the old one.
SetRunning == plan' = TRUE /\ stale' = FALSE

\* A cron time or a user, at any center.  A plan that outlived half its
\* period is started again on top of its task states.
Start ==
    /\ ~plan \/ stale
    /\ SetRunning
    /\ clean' = IF plan THEN clean ELSE Digested
    /\ \/ NoFault /\ clean'
       \/ Fault("overlap") /\ ~clean'
    /\ UNCHANGED <<st, count, succeeded, spoilt, centerVars, agentVars>>

HalfPeriodPasses ==
    /\ Fault("long")
    /\ plan /\ ~stale
    /\ stale' = TRUE
    /\ UNCHANGED <<plan, st, count, history, centerVars, agentVars>>

PlanGone == /\ plan' = FALSE /\ stale' = FALSE
            /\ clean' = FALSE /\ succeeded' = {}

\* clearWorkflowKeys of another workflow deletes this plan key: the delete is
\* by prefix and the id has no terminator.
NeighbourEnds ==
    /\ Fault("neighbour")
    /\ plan
    /\ PlanGone
    /\ spoilt' = TRUE
    /\ UNCHANGED <<st, count, centerVars, agentVars>>

IsRunning == plan /\ ~stale

-----------------------------------------------------------------------------
(***************************************************************************)
(* scheduleWorkflowPlan and CanSchedule at a center that thinks it leads.  *)
(***************************************************************************)

\* A task that used up its attempts: FAIL, or STARTING whatever becomes of it.
Exhausted == {t \in Startable : st[t] \in {"fail", "starting"}
                                /\ count[t] >= Limit}

\* Tasks that are ready at once, and those the debounce may hold back.
ReadyNow == {t \in Startable : st[t] = "absent"}
ReadySoon(c) == {t \in Startable : \/ st[t] = "not_running"
                                   \/ st[t] = "starting" /\ t \notin inproc[c]}

\* Faulty variant of Judgement: a RUNNING task does not unset finished.
JudgementHasty == IF Exhausted # {} THEN "failed"
                  ELSE IF \A t \in Task : st[t] \in {"done", "running"}
                       THEN "ok" ELSE "go"

Judgement == IF Exhausted # {} THEN "failed"
             ELSE IF Done = Task THEN "ok" ELSE "go"

\* What the caller of CanSchedule does with its answer: Finished needs the
\* mutex again; ready tasks become events of the leader.
Conclude(c, R, v) ==
    /\ ending' = [ending EXCEPT ![c] = IF v = "go" THEN @
                                       ELSE @ \cup {v = "failed"}]
    /\ events' = IF v = "go" /\ c \in leader
                 THEN [events EXCEPT ![c] = [t \in Task |->
                         IF t \in R /\ @[t] < MaxEvents
                         THEN @[t] + 1 ELSE @[t]]]
                 ELSE events

\* One read of all task states.  Nothing to look at among the RUNNING ones:
\* the answer is there.
Scan(c) ==
    /\ c \in leader
    /\ busy[c] = Idle
    /\ \E R \in SUBSET ReadySoon(c) : Conclude(c, ReadyNow \cup R, Judgement)
    /\ UNCHANGED <<etcdVars, leadVars, busy, inproc, agentVars, faults>>

\* Some RUNNING tasks are past the debounce: their locks are looked at.
ScanSuspects(c) ==
    /\ c \in leader
    /\ busy[c] = Idle
    /\ \E S \in (SUBSET {t \in Startable : st[t] = "running"}) \ {{}},
          R \in SUBSET ReadySoon(c) :
            Do(c, Scanning(S, {}, ReadyNow \cup R, Judgement))
    /\ UNCHANGED <<etcdVars, leadVars, events, inproc, ending, agentVars,
                   faults>>

\* LockExist for one suspect.
LookAtLock(c, t) ==
    LET work == busy[c] IN
    /\ work.job = "scan"
    /\ t \in work.suspects
    /\ Do(c, [work EXCEPT !.suspects = @ \ {t},
                          !.lost = IF lock[t] = None THEN @ \cup {t} ELSE @])
    /\ UNCHANGED <<etcdVars, leadVars, events, inproc, ending,
                   agentVars, faults>>

\* KillTask reaches what is in the executing tables.  A RUNNING report that is
\* cut off by it is not handled (RunningGivenUp is the other case).
KillRuns(K) ==
    pc' = [r \in Run |-> IF task[r] \in K /\ pc[r] \in {"locked", "running"}
                         THEN "err" ELSE pc[r]]

\* setWorkflowTaskNotRunning: whatever the status was, the task is run again.
StateNotRunning(t) ==
    st' = [st EXCEPT ![t] = IF @ = "absent" THEN @ ELSE "not_running"]

\* The task whose lock is gone: killed wherever it runs, then marked.
Rescue(c, t) ==
    LET work == busy[c] IN
    /\ work.job = "scan"
    /\ t \in work.lost
    /\ KillRuns({t})
    /\ StateNotRunning(t)
    /\ Do(c, [work EXCEPT !.lost = @ \ {t}])
    /\ UNCHANGED <<plan, stale, count, history, leadVars, events, inproc,
                   ending, task, lock, late, faults>>

\* The kill fails, or the write is dropped: the scan goes on.
RescueSkipped(c, t) ==
    LET work == busy[c] IN
    /\ work.job = "scan"
    /\ t \in work.lost
    /\ Do(c, [work EXCEPT !.lost = @ \ {t}])
    /\ UNCHANGED <<etcdVars, leadVars, events, inproc, ending,
                   agentVars, faults>>

ScanEnds(c) ==
    LET work == busy[c] IN
    /\ work.job = "scan"
    /\ work.suspects = {} /\ work.lost = {}
    /\ Conclude(c, work.ready, work.verdict)
    /\ Do(c, Idle)
    /\ UNCHANGED <<etcdVars, leadVars, inproc, agentVars, faults>>

-----------------------------------------------------------------------------
(***************************************************************************)
(* scheduleTask, one goroutine per event.                                  *)
(***************************************************************************)

\* The goroutine starts; an event for a task in processRecord is dropped.
TakeEvent(c, t) ==
    /\ events[c][t] > 0
    /\ events' = [events EXCEPT ![c][t] = @ - 1]
    /\ inproc' = [inproc EXCEPT ![c] = @ \cup {t}]
    /\ UNCHANGED <<etcdVars, leadVars, busy, ending, agentVars, faults>>

Leave(c, t) == inproc' = [inproc EXCEPT ![c] = @ \ {t}]

\* Faulty variant of CheckPlan: whether the plan still runs is not asked.
CheckNothing(c, t) ==
    /\ t \in inproc[c]
    /\ busy[c] = Idle
    /\ Do(c, Checking(t))
    /\ UNCHANGED <<etcdVars, leadVars, events, inproc, ending, agentVars,
                   faults>>

\* With the mutex: the plan runs ...
CheckPlan(c, t) ==
    /\ t \in inproc[c]
    /\ busy[c] = Idle
    /\ IsRunning
    /\ Do(c, Checking(t))
    /\ UNCHANGED <<etcdVars, leadVars, events, inproc, ending, agentVars,
                   faults>>

\* ... or not.
CheckPlanFails(c, t) ==
    /\ t \in inproc[c]
    /\ busy[c] = Idle
    /\ ~IsRunning
    /\ Leave(c, t)
    /\ UNCHANGED <<etcdVars, leadVars, busy, events, ending, agentVars,
                   faults>>

\* Then its state: the task may be (re)started ...
CheckState(c, t) ==
    /\ busy[c] = Checking(t)
    /\ st[t] \in {"absent", "not_running", "starting"}
    /\ Do(c, Dispatching(t))
    /\ UNCHANGED <<etcdVars, leadVars, events, inproc, ending, agentVars,
                   faults>>

\* ... or not.
CheckStateFails(c, t) ==
    /\ busy[c] = Checking(t)
    /\ st[t] \in {"running", "done", "fail"}
    /\ Do(c, Idle)
    /\ Leave(c, t)
    /\ UNCHANGED <<etcdVars, leadVars, events, ending, agentVars, faults>>

\* Faulty variant of SetStarting: an attempt past the limit is counted too.
SetStartingAgain(c, t) ==
    /\ busy[c] = Dispatching(t)
    /\ st' = [st EXCEPT ![t] = "starting"]
    /\ count' = [count EXCEPT ![t] = @ + 1]
    /\ spoilt' = (spoilt \/ ~plan)
    /\ Do(c, Idle)
    /\ Leave(c, t)
    /\ UNCHANGED <<plan, stale, clean, succeeded, leadVars, events, ending,
                   lock, late>>

\* setWorkflowTaskStarting: the state is created or counted up, without
\* another look at plan or status.
SetStarting(c, t) ==
    /\ busy[c] = Dispatching(t)
    /\ st' = [st EXCEPT ![t] = "starting"]
    /\ count' = [count EXCEPT ![t] = IF st[t] = "absent" THEN 1
                                    ELSE IF @ = Limit THEN @ ELSE @ + 1]
    /\ spoilt' = (spoilt \/ ~plan)
    /\ Do(c, Idle)
    /\ Leave(c, t)
    /\ UNCHANGED <<plan, stale, clean, succeeded, leadVars, events, ending,
                   lock, late>>

\* An agent accepts the task.
DispatchTask(c, t) ==
    /\ SetStarting(c, t)
    /\ \E r \in Run : /\ pc[r] = "free"
                      /\ pc' = [pc EXCEPT ![r] = "sent"]
                      /\ task' = [task EXCEPT ![r] = t]
    /\ NoFault

\* No agent, or an agent that has the task in its executing table.
DispatchFails(c, t) ==
    /\ SetStarting(c, t)
    /\ \/ Fault("dispatch")
       \/ NoFault /\ RunsOf(t) # {}
    /\ UNCHANGED <<task, pc>>

-----------------------------------------------------------------------------
(***************************************************************************)
(* Finished: the keys first, then the kills, then the log.                 *)
(***************************************************************************)

\* A user kills or deletes the workflow, at any center.
Kill(c) ==
    /\ Fault("kill")
    /\ plan
    /\ ending' = [ending EXCEPT ![c] = @ \cup {TRUE}]
    /\ UNCHANGED <<etcdVars, leadVars, busy, events, inproc,
                   agentVars>>

\* RefreshStates and the read of the task states.  Without plan key: nil.
FinishBegins(c) ==
    /\ busy[c] = Idle
    /\ \E e \in ending[c] :
         /\ ending' = [ending EXCEPT ![c] = @ \ {e}]
         /\ busy' = IF plan
                    THEN [busy EXCEPT ![c] = Ending("plan",
                          {t \in Task : st[t] \in {"starting", "running"}}, e)]
                    ELSE busy
    /\ UNCHANGED <<etcdVars, leadVars, events, inproc, agentVars, faults>>

\* clearWorkflowKeys, first key.
ClearPlan(c) ==
    LET work == busy[c] IN
    /\ work.job = "finish" /\ work.step = "plan"
    /\ PlanGone
    /\ Do(c, [work EXCEPT !.step = "states"])
    /\ UNCHANGED <<st, count, spoilt, leadVars, events, inproc, ending,
                   agentVars, faults>>

\* clearWorkflowKeys, second key.  Only an end with an error kills.
ClearStates(c) ==
    LET work == busy[c] IN
    /\ work.job = "finish" /\ work.step = "states"
    /\ st' = [t \in Task |-> "absent"]
    /\ count' = [t \in Task |-> 0]
    /\ Do(c, IF work.err THEN [work EXCEPT !.step = "kill"] ELSE Idle)
    /\ UNCHANGED <<plan, stale, history, leadVars, events, inproc, ending,
                   agentVars, faults>>

KillTasks(c) ==
    LET work == busy[c] IN
    /\ work.job = "finish" /\ work.step = "kill"
    /\ KillRuns(work.kill)
    /\ Do(c, Idle)
    /\ UNCHANGED <<etcdVars, leadVars, events, inproc, ending,
                   task, lock, late, faults>>

FinishFails(c) ==
    /\ Fault("etcd")
    /\ busy[c].job = "finish"
    /\ Do(c, Idle)
    /\ spoilt' = (spoilt \/ HalfCleared(c))
    /\ UNCHANGED <<plan, stale, st, count, clean, succeeded, leadVars, events,
                   inproc, ending, agentVars>>

-----------------------------------------------------------------------------
(***************************************************************************)
(* Agents: the lock, the report RUNNING, the command, the report FINISHED. *)
(***************************************************************************)

Become(r, l) == pc' = [pc EXCEPT ![r] = l]
Forget(r) == Become(r, "free") /\ task' = [task EXCEPT ![r] = None]

TakeLock(r) ==
    /\ pc[r] = "sent"
    /\ lock[task[r]] = None
    /\ lock' = [lock EXCEPT ![task[r]] = r]
    /\ Become(r, "locked")
    /\ UNCHANGED <<etcdVars, centerVars, task, late, faults>>

LockRefused(r) ==
    /\ pc[r] = "sent"
    /\ lock[task[r]] # None
    /\ Forget(r)
    /\ UNCHANGED <<etcdVars, centerVars, lock, late, faults>>

\* setWorkflowTaskRunning: whatever the status was, it is RUNNING now.
StateRunning(t) == st' = [st EXCEPT ![t] = "running"]

\* Faulty variant of RunningReported: a missing state is created.
RunningCreated(r) ==
    /\ pc[r] = "locked"
    /\ StateRunning(task[r])
    /\ Become(r, "running")
    /\ UNCHANGED <<plan, stale, count, history, centerVars, task, lock, late,
                   faults>>

RunningReported(r) ==
    /\ pc[r] = "locked"
    /\ task[r] \in Known
    /\ st[task[r]] # "absent"
    /\ StateRunning(task[r])
    /\ Become(r, "running")
    /\ UNCHANGED <<plan, stale, count, history, centerVars, task, lock, late,
                   faults>>

\* The task is looked for among the cron tasks and not found, or its workflow
\* has ended ("unknown").  The command is not run.
RunningFails(r) ==
    /\ pc[r] = "locked"
    /\ task[r] \notin Known \/ st[task[r]] = "absent"
    /\ Become(r, "err")
    /\ UNCHANGED <<etcdVars, centerVars, task, lock, late, faults>>

\* Aborted: nothing is run, and what is reported is the absence of an error.
\* The attempt that wrote the log row may still be handled.
RunningRefused(r) ==
    /\ Fault("refused")
    /\ pc[r] = "locked"
    /\ task[r] \in Known
    /\ Become(r, "ok")
    /\ late' = late \cup {<<task[r], "running">>}
    /\ UNCHANGED <<etcdVars, centerVars, task, lock>>

\* No answer in time; the center may still handle the report.
RunningGivenUp(r) ==
    /\ Fault("slow")
    /\ pc[r] = "locked"
    /\ task[r] \in Known
    /\ Become(r, "err")
    /\ late' = late \cup {<<task[r], "running">>}
    /\ UNCHANGED <<etcdVars, centerVars, task, lock>>

CommandEnds(r) ==
    /\ pc[r] = "running"
    /\ \E o \in {"ok", "err"} : Become(r, o)
    /\ UNCHANGED <<etcdVars, centerVars, task, lock, late, faults>>

\* setWorkFlowTaskFinished: the state a result leads to.  Which execution the
\* result is of does not matter.
After(t, o) ==
    IF st[t] \in {"absent", "done", "fail"} THEN st[t]
    ELSE IF o = "ok" THEN "done"
    ELSE IF count[t] >= Limit THEN "fail" ELSE "not_running"
GivesUp(t, o) == After(t, o) = "fail" /\ st[t] # "fail"

\* handleTaskResultV1 at center c: the state, then Finished(nil) after the
\* last failure or scheduleWorkflowPlan at the leader.
HandleResult(c, t, o) ==
    /\ st' = [st EXCEPT ![t] = After(t, o)]
    /\ succeeded' = IF plan /\ After(t, o) = "done" THEN succeeded \cup {t}
                    ELSE succeeded
    /\ ending' = IF GivesUp(t, o) THEN [ending EXCEPT ![c] = @ \cup {FALSE}]
                                 ELSE ending
    /\ UNCHANGED <<plan, stale, count, clean, spoilt, leadVars, busy, events,
                   inproc, task, lock, faults>>

ResultReported(c, r) ==
    /\ pc[r] \in {"ok", "err"}
    /\ HandleResult(c, task[r], pc[r])
    /\ Become(r, "told")
    /\ UNCHANGED late

ResultGivenUp(r) ==
    /\ Fault("slow")
    /\ pc[r] \in {"ok", "err"}
    /\ late' = late \cup {<<task[r], pc[r]>>}
    /\ Become(r, "told")
    /\ UNCHANGED <<etcdVars, centerVars, task, lock>>

\* The center comes to handle a report whose agent has gone on.
LateRunning(t) ==
    /\ <<t, "running">> \in late
    /\ late' = late \ {<<t, "running">>}
    /\ IF st[t] = "absent" THEN UNCHANGED st ELSE StateRunning(t)
    /\ UNCHANGED <<plan, stale, count, history, centerVars, task, pc, lock,
                   faults>>

LateResult(c, t, o) ==
    /\ <<t, o>> \in late
    /\ o # "running"
    /\ late' = late \ {<<t, o>>}
    /\ HandleResult(c, t, o)
    /\ UNCHANGED pc

Unlock(r) == lock' = [lock EXCEPT ![task[r]] = IF @ = r THEN None ELSE @]

Release(r) ==
    /\ pc[r] = "told"
    /\ Unlock(r)
    /\ Forget(r)
    /\ UNCHANGED <<etcdVars, centerVars, late, faults>>

AgentCrash(r) ==
    /\ Fault("agent")
    /\ pc[r] # "free"
    /\ Unlock(r)
    /\ Forget(r)
    /\ UNCHANGED <<etcdVars, centerVars, late>>

-----------------------------------------------------------------------------
Next ==
    \/ Start \/ HalfPeriodPasses \/ NeighbourEnds \/ SessionEnds
    \/ \E c \in Center :
         \/ BecomeLeader(c) \/ StepDown(c) \/ CenterCrash(c)
         \/ Scan(c) \/ ScanSuspects(c) \/ ScanEnds(c)
         \/ Kill(c) \/ FinishBegins(c) \/ ClearPlan(c) \/ ClearStates(c)
         \/ KillTasks(c) \/ FinishFails(c)
    \/ \E c \in Center, t \in Task :
         \/ LookAtLock(c, t) \/ Rescue(c, t) \/ RescueSkipped(c, t)
         \/ TakeEvent(c, t) \/ CheckPlan(c, t) \/ CheckPlanFails(c, t)
         \/ CheckState(c, t) \/ CheckStateFails(c, t)
         \/ DispatchTask(c, t) \/ DispatchFails(c, t)
         \/ \E o \in {"ok", "err"} : LateResult(c, t, o)
    \/ \E t \in Task : LateRunning(t)
    \/ \E r \in Run :
         \/ TakeLock(r) \/ LockRefused(r) \/ RunningReported(r)
         \/ RunningFails(r) \/ RunningRefused(r) \/ RunningGivenUp(r)
         \/ CommandEnds(r) \/ ResultGivenUp(r) \/ Release(r) \/ AgentCrash(r)
         \/ \E c \in Center : ResultReported(c, r)

Spec == Init /\ [][Next]_vars

-----------------------------------------------------------------------------
(***************************************************************************)
(* Properties.                                                             *)
(***************************************************************************)

\* A plan that starts on nothing left over by an earlier start runs its tasks
\* in the order of the dependencies, whatever fails, is repeated or comes late
\* (scheduleTask, CanSchedule, setWorkFlowTaskFinished, Finished).
Dag == INSTANCE WorkflowDag WITH
          active <- clean,
          done <- IF clean THEN succeeded ELSE {},
          tried <- IF clean THEN {t \in Task : st[t] # "absent"} ELSE {}
ImplementsDag == Dag!Spec

\* What an agent reports as RUNNING for a scheduled task of a running workflow
\* is run, unless something fails (the check of StatusReporter).
ScheduledTasksRun ==
    [][\A r \in Run :
          pc[r] = "locked" /\ pc'[r] # "locked" /\ plan /\ faults' = faults
             /\ st[task[r]] = "starting"
          => pc'[r] = "running"]_vars

\* With one center, the mutex makes what scheduleTask has checked hold until it
\* has written: the plan it dispatches for has not ended (unless another
\* workflow's end took its key).
DispatchInPlan ==
    \A c \in Center : busy[c].job = "dispatch" => plan \/ spoilt

\* Finished is asked for without an error (CanSchedule, handleTaskResultV1)
\* only when every task has succeeded or one has used up its attempts.
EndsForAReason ==
    \A c \in Center : clean /\ FALSE \in ending[c] =>
        succeeded = Task \/ \E t \in Task : count[t] = Limit

\* Task states outlive their plan only while Finished is between its two
\* deletes, or after one of: a Finished that was cut off there, a task started
\* after the plan ended, a plan key deleted by another workflow's end.
NoLeftovers ==
    ~plan /\ (\E t \in Task : st[t] # "absent")
        => spoilt \/ \E c \in Center : HalfCleared(c)
==============================================================================
