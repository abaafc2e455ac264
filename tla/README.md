# TLA+ models of gopherCron

gopherCron is a distributed cron: *centers* keep tasks in etcd and MySQL and
serve a web UI; *agents* keep a plan table, execute commands and report to the
centers over gRPC. This directory holds models of its protocols, the TLC runs
that check small instances of them, and proofs for the TLA+ proof system.

Paths below are relative to `src/`.

## Inventory

| Component | State | Operations | Interacts through | What makes it correct |
|---|---|---|---|---|
| Task lock (`pkg/etcd/locker.go`, `cmd/service/rpc.go` TryLock, `agent/scheduler.go` tryLock...) | lock key and leases in etcd, TryLock streams, attempts of the agent | lease grant, transaction, inheriting Put, revoke; heartbeat; first reply, retry, re-lock, UNLOCK | bidirectional stream agent-center, etcd | one execution at a time; given back in the end; re-lock by the owner |
| Execution on the agent (`agent/scheduler.go`, `executer.go`, `micro.go`) | `TaskExecutingTable`, `CancelCtx`, `isClose`, one goroutine per run | TryStartTask, ExecuteTask, report, kill, stop | task lock, StatusReporter, errSignal to the caller | the table tells the truth and empties; the caller hears an answer |
| Status reports (`app/schedule.go`, `sqlStore/task_log_partition.go`) | `gc_task_log_p`, the status key in etcd | SetTaskRunning, CheckOrCreateScheduleLog, SaveTaskLog, HandlerTaskFinished | unary RPC with retries, MySQL, etcd, workflow and webhook | a plan time runs once; a finished run stays finished |
| Workflow runner (`app/workflow.go`, `app/schedule.go`) | plan and task states in etcd, `planState`, `processRecord`, `scheduleEventChan`, the plan mutex of each center | TryStartPlan, scheduleWorkflowPlan, CanSchedule, scheduleTask, results, Finished | etcd transactions, results, dispatch of tasks to agents | a task starts only after its dependencies are done, at most the permitted number of times; nothing is left behind |
| Workflow definitions and members (`app/workflow.go`, `controller/workflow.go`) | `gc_workflow`, `gc_workflow_schedule_plan`, `gc_user_workflow`, `TaskFlow` of each center | create, update, delete, save the task list, refresh, add and remove users | MySQL with replicas, the lock without owner | a list is there as a whole; one who was removed is out |
| Leader and background jobs (`app/app.go`, `temporary_task.go`) | election session, timers, `gc_temporary_task` | campaign, dispatch due temporary tasks, expire, task doctor, clean-up | etcd election, MySQL, stream manager | a temporary task meets one fate; a result is not overwritten by "offline" |
| Stream manager, routing (`app/registry.go`, `app/micro.go`) | agent streams, `responseMap` | save and remove stream, send and wait, dispatch | gRPC streams, timeouts | an answer reaches its waiter or is dropped, and nobody panics |
| Agent registration (`pkg/infra/register`, `agent/watcher.go`, `agent/client.go`) | current stream, `receivingLocker`, `locker`, channel kill, event lock | Register, receive loop, errHandler, reRegister, Close | register stream to a center | the agent never stays deaf and comes back |
| Plan table and definitions (`agent/scheduler.go`, `app/etcd.go`) | tasks in etcd, `PlanTable`, plan hash | SaveTask, DeleteTask, snapshot, events, debounced hash, reload | events on the register stream | an agent's table converges to the stored tasks |
| Projects and permissions (`app/org.go`, `app/app.go`, `app/rbac.go`, `controller/project_func`) | project, members, organisation, what is stored for the project | create, add and remove members, store, delete | MySQL with replicas, etcd | a chief remains; a deleted project is empty |
| Log storage (`sqlStore/task_log_partition.go`) | one partition per day | insert, add partitions, drop the oldest | elected cleaner, every starting center | rows stay for their time; there is a partition for today |
| Webhooks (`app/webhook.go`) | `gc_webhook`, a goroutine per report | create, delete, HandleWebHook with retries | HTTP, MySQL with replicas | each hook that was set hears of the run, or a warning is raised |
| Publication (`app/webpublish.go`), etcd queue (`pkg/queue`), utilities, tokens, HTTP API, storage, login, metrics, command line, generated code | - | - | - | see *Not modelled* |

Hard behaviours: goroutines that outlive the call they served; streams the
agent has forgotten but a center still serves; reports retried after their
effect; centers and agents that die holding lock, key or row; reads of etcd, of
MySQL or of a late replica followed by a write that no longer fits; a lock
without an owner that excludes nobody. `PROJECT.json` lists them as hazards at
their lines, each with the property that watches it.

## Modules

| Module | Models |
|---|---|
| `ExclusiveLock` | what the lock promises: an owner or none; acquire when free, release by the owner |
| `TaskLock` | how it is built: etcd key and leases, stream handler, agent loop |
| `TaskRun` | one task's executions, from TryStartTask to the end of the FINISHED report |
| `WorkflowDag` | what the runner promises: tasks in the order of their dependencies, nothing left when it ends |
| `Workflow` | how it is built: etcd states, runners of several centers, executions, faults |
| `PlanTable` | one task definition from the editor over etcd and the streams to the agents' tables |
| `StreamSession` | what the registration promises: one stream at a time, left before the next is opened |
| `AgentRegister` | how it is built, the agent's streams: register, receive loop, failure, register again |
| `EventReply` | the answer to one event: waiter, closer, deliveries |
| `RunDoctor` | the running record of a task: reports, task doctor, KillTask |
| `TempTask` | temporary tasks: election, dispatch round, expiry, deletion |
| `Projects` | members and roles, and the deletion of a project or of an organisation |
| `WorkflowEdit` | the saved task lists, and the copies the centers run by |
| `WorkflowMembers` | who may edit a workflow |
| `LogTable` | the partitions of the run logs |
| `WebHooks` | the hooks of a project and the calls after a run |
| `MCTaskLock`, `MCTaskRun`, `MCWorkflow`, `MCServices` | instances for TLC; `MCServices` holds the ten modules from `PlanTable` to `WebHooks` |
| `TaskLockProofs`, `TaskRunProofs`, `WorkflowProofs` | theorems about the module each is named for |
| `WorkflowDagProofs` | that `Workflow` implements `WorkflowDag`, and why it ends |
| `StreamProofs` | theorems about `PlanTable`, `EventReply` and `AgentRegister`, that it implements `StreamSession` among them |
| `JobProofs` | theorems about `RunDoctor`, `TempTask`, `LogTable` and `WebHooks` |
| `DefinitionProofs` | theorems about `Projects`, `WorkflowEdit` and `WorkflowMembers` |
| `ServicesProofs` | that `MCServices` implements all of its ten services, and what follows for it |

How they are composed: `TaskRun` uses the lock by its promise (`lock` is the
abstract owner) instead of its implementation: `IsExclusiveLock` of `TaskLock`
justifies it, and the fault `"lose"` stands for the case in which the promise is
not kept. `Workflow` uses the executions of `TaskRun` by what the runner sees of
them (`pc`: accepted, lock, RUNNING, result) and has the failures of `TaskRun`
as faults: a report handled late, a report refused for its own row, a dead
agent. `RunDoctor` uses the same reports at the grain of single statements.
`PlanTable` uses the streams that `AgentRegister` opens and `EventReply`'s
answer, each as one step with a timeout.

A deliberate abstraction of all modules: identity of what is stored is kept,
content is not. A definition is a version, a message its kind, a report its
outcome, a user one of three people.

### TaskLock

`key`, `leases`, `kept` are etcd and the keep-alive goroutines; a stream and
the lease its handler grants share a name, and the value of the key
(`agentIP:tmpID`) is `RunOf` of the lease. `srv` is the line the handler of a
stream has reached (`recv`, `txn`, `put`, `check`, `serve`, or how it
returned). `run`, `cur`, `got`, `tries` are the agent: its state, the stream it
reads, the streams whose first reply it has read, its failed attempts. `log`
is the row that StatusReporter writes, needed because TryLock refuses a run
with a row.

One action is one etcd call with the lines around it: `Grant`, then `TxnWins`,
`TxnFindsOwnKey` or `TxnLoses`, then `PutInherits`, then `Confirm`,
`RefuseLoggedRun` or `LogQueryFails`, at last `ServeEnds`. Every return of the
handler contains its deferred `Unlock` (`DropLease`). The agent's actions are
`Open`, `FirstReply`, `Refused`, `Broken`, `Cut`, `GiveUp`, `SendUnlock`.

The transaction and the inheriting Put are two calls. Nothing in the code keeps
the second from arriving late, when the agent has given the stream up or the
key has changed hands: this is the fault "late", and `InTime` is the
condition that holds without it.

Deliberate abstractions: lease time is nondeterministic (a lease that is not
kept may expire at any later step); a log row is "running" or "ended"; the
5 s for which a lock is held, and the backoff between attempts, only delay.

### TaskRun

`pc` is the place of a run's goroutine in TryStartTask; `table` the entry of
this task in each agent's `TaskExecutingTable`; `cancelled` the runs whose
`CancelCtx` is done; `caller` the other end of `errSignal`; `call` the attempt
of `retry.Do`; `running[r][k]` and `finished[r][k]` the center's handler of the
`k`-th attempt, which continues when the agent has stopped waiting for it; `log`
the rows in `gc_task_log_p` by whether they have an end time; `status` the run
the status key in etcd names; `told` what webhook and workflow were told.

Two calls share a step only when nothing between them can be seen by the
other processes: reading the task before selecting the row, and sending the
first report after entering the table.

### WorkflowDag and Workflow

`plan` is the plan key, `st` and `count` the task states in etcd
(`CurrentStatus`, `ScheduleCount`), `stale` whether `IsRunning` has stopped to
believe the plan key. `elected` is the election key, `leader` the centers whose
`isLeader` is true, which may be two. `busy[c]` is what the holder of the plan
mutex of center `c` does, call by call: the two checks of `scheduleTask`, its
dispatch, `CanSchedule` looking at locks, `Finished` between its deletes.
`events[c]` is `scheduleEventChan`, `inproc[c]` is `processRecord`, `ending[c]`
the calls of `Finished` waiting for the mutex. `task`, `pc`, `lock`, `late` are
executions on the agents as the runner sees them. `clean`, `succeeded` and
`spoilt` are history, for the properties only.

The plan mutex exists in every center's memory and protects against goroutines
of the same center only; etcd transactions are tests of one key. So a step is
one call to etcd with the lines around it, whatever mutex is held.

`WorkflowDag` is the promise: started, tasks tried when their dependencies are
done, ended with nothing left. `Workflow` implements it under the mapping
`active <- clean`, `done` and `tried` the tasks that succeeded and that have a
state while `clean`: the promise is kept for a plan that starts on nothing left
over. A start on leftovers (fault "overlap", or a plan that outlived half its
period) is outside the promise, because the code neither prevents nor
detects it.

### PlanTable, AgentRegister, EventReply

`PlanTable` follows one task: `store` is etcd, `edit` the calls of SaveTask and
DeleteTask (who is still to be told, who was asked, who answered), `stream` and
`load` the handler RegisterAgentV2 and the snapshot it dispatches, `wire` and
`replies` the two directions of a stream. On the agent, `cell` is the variable
`resp` that the receive loop shares with the goroutines it starts, `hands` those
goroutines, `inbox` TaskEventChan, `table` the entry in PlanTable, `hash` what
the last CalcPlanHash saw and `due` its debounce timer. The edit is sent agent
by agent and etcd is written last, as in the code. `sure` and `clean` are
history: an agent is `sure` from an edit or a snapshot that no other one
overlapped until something happens that may set it apart (RemoveAll, a restart,
a lost stream in between).

`AgentRegister` is remoteRegistryV2: `cur` is currentStream, `receiving` the
loop that holds receivingLocker, `killed` the closed channels kill, `hung` the
calls of register() waiting in `<-hang`, `owner` the holder of locker, a *thread*
each goroutine that registers (0 the first one, `s` the one that errHandler of
stream `s` becomes). `chan`, `again`, `asked`, `cancelled` are the handler of a
stream at the center and who waits for the agent's answers.

`OneSession` says that these streams are the one session of `StreamSession`:
opened one after the other, each only when the receive loop of the last has given
back `receivingLocker`, and never taken up again. The promise ends when an event
handler fails (its stream is dropped while the loop still receives) or the
registry is closed. The second of sleep in errHandler is what keeps it: without
it (`WakeAtOnce`) the next stream is opened beside the old loop.

`EventReply` is one event id: `holder` is the entry's mutex, `isClose` its flag,
`gone` the closed channel, `buffered` its one place. Each line of
RecvStreamResponse that another goroutine can get in front of is a step.

### RunDoctor

`row`, `statusKey` are the stores; `report[r]` is the statement a run's report
has reached, `check[c]` the statement of a checker: a round of the task doctor
for one row, or a call of KillTask. `rowLock` is MySQL's lock of rows an open
transaction has updated. `doubted` collects the runs of which the center has a
reason to think wrongly (dead or unlisted agent, overdue, failed statement,
late replica, key deleted by a checker).

### TempTask

Time counts half minutes, since the worker ticks once a minute and compares
truncated minutes. `office[c]` is the election: `former` is a leader whose
session has ended and whose worker has not noticed. `round[c]` is what the
worker does: the list it loaded (`todo`) and the task in its hands. `fate`
records what became of each task; `excused` are the tasks a named mishap
concerned.

### Projects, WorkflowEdit, WorkflowMembers

All three have a database and the same before the last commit; a read takes one
of the two (`Seen`, `Replica`, `FlowView`), because reads go to replicas and no
two reads of a call need agree. An API call is its checks, then its effect, as
two steps at least, with other calls between them.

`Projects` has the members' rows (for each user the sequence of roles, in the
order of the ids, since overlapping additions duplicate rows), `call`, what is
stored (`etcdTasks`, `db.hook`, `db.flow`) and `heldBy`, the transaction that
deleted the project's row, or `"leaked"` for one that DeleteOrg left open.
`WorkflowEdit` has the rows (`wf.rows`, stamped with batch and second), the plan
of every center (`plan[n].flow`, `plan[n].time`) and `job`, a call at a center.
`WorkflowMembers` has a count of rows per user.

### LogTable, WebHooks

`LogTable`: `parts` are the days that have a partition, `PartitionOf` is MySQL's
`VALUES LESS THAN`: a row lies in the first partition that ends with or after
its day. `sweep[c]` is a center's round.

`WebHooks`: `hooks` are the rows, `work[r]` the goroutine of a report, `of` the
hook it found for each type, `tried` the attempts of `retry.Do`. The map that
HandleWebHook builds keeps one row of each type. Which one follows from
create_time, the seconds of several centers' clocks, so it may be any.

## Runs

| Run | What may happen | Shows |
|---|---|---|
| `lock` | crash, cut, etcd, store, deny | key and leases agree, two runs never execute under the lock, the key refines `ExclusiveLock` - when no inheriting Put comes too late (no fault "late"); what executes was confirmed |
| `lock_live` | cut, slow, late | attempts end; a stopped run loses the key for ever, also the key a late Put of a forgotten stream brought back |
| `late_put` (violated) | cut, late | two runs hold the lock: `locker.go:162` writes without a condition |
| `heartbeat` (violated) | slow | `rpc.go:90` sends the reply that means "locked" before the lock was asked for |
| `relock` (violated) | cut | after RUNNING every re-lock is refused (`rpc.go:137`) |
| `once` | slow, kill, crash, deny | two agents, one plan time: one execution |
| `truthful` | stop, close, unreachable | three runs on two agents: the table, the status key, the log, and mutual exclusion |
| `retries` | slow, kill, crash, store, lose | two attempts per report: the table empties, the lock comes back |
| `caller` (violated) | slow | a report refused by its own earlier attempt leaves its caller waiting |
| `workflow` | one of eleven faults | a chain of two tasks: order (`ImplementsDag`), a reason to end, nothing left behind, no dispatch for an ended plan |
| `unlisted` (violated) | nothing | a scheduled workflow task is looked for among the cron tasks (`rpc.go:168`) and never runs |
| `services` | see *Bounds* | the ten services of `MCServices`, each with the others idle, with their safety, action and liveness properties |

The properties of `services` by module: `InSync` (PlanTable: an agent that is
sure has the stored task in table and hash), `NeverDeaf`, `OneSession` and
`AgentComesBack` (AgentRegister), `NoPanic` (EventReply), `OfflineIsOver` and `ResultKept`
(RunDoctor), `OneFate` (TempTask), `GoneIsEmpty` and `ChiefRemains` (Projects),
`DepsListed` (WorkflowEdit), `OutIsOut` (WorkflowMembers), `RowsKept`
(LogTable), `EveryHookTold` (WebHooks).

All runs but `workflow` and `unlisted` set `CHECK_DEADLOCK FALSE`: when every
run is over and every bound used up, the system rests. A workflow can always be
started again.

The mutants named *faulty variant* in the modules are not part of the
specification; each shows that one property notices a plausible bug.

### Bounds

* `TaskLock`: two runs compete; one has two streams, so it can be served by a
  forgotten handler while it opens the next stream, and the other has one,
  so it can take the key in between. `MaxTries = 1` (3 in the code): one
  failure retried, the second final. Streams are not reused, which bounds
  the number of attempts.
* `TaskRun`: `x` and `y` are one plan time on two agents, `z` is a second
  dispatch on the agent of `x`. `Attempts` is 1 or 2 (3 in the code): the
  second attempt meets whatever the first left, a third adds nothing new.
  `Faults` names what may happen in a run, and each run is the largest
  combination that suits its question and the time.
* `Workflow`: tasks `b` after `a`, two executions at a time (a task can be
  dispatched again while its first execution still runs), one center, `Limit = 2`
  (3 in the code: first attempt, retry, exhausted are all there), one event of a
  task in the channel, one fault, which may be any of the eleven. Starts, ends
  and repetitions are not bounded: places of executions are used again.
  Executions are interchangeable (`SYMMETRY`).
* `PlanTable`: one agent, two overlapping edits, and either one break or one
  ping (an event that is not about the task), sent behind an event that it may
  overwrite. Several agents differ only in what they were told, and `InSync` is
  about each by itself.
* `AgentRegister`: two streams (the second one is opened while the first may
  still be alive anywhere), one fault and one pushed event.
* `EventReply`: three answers to one event; two race and a third finds the rest.
* `RunDoctor`: two runs, on one agent or two, one doctor, one killer, one
  reason to doubt.
* `TempTask`: one task (tasks are independent but for the order of a round), two
  centers, two and a half minutes, `Week = 3` half minutes so that the clean-up
  meets live tasks, one mishap.
* `Projects`: an administrator and two users, two calls under way, two rows
  per user.
  Members and deletion are explored separately, as they share only the project's
  row. A behaviour of the members ends with an excused removal and begins none
  whose checks are excused from the start (those of an administrator and of a
  late replica); one account is deleted, and one user at a time has two rows.
* `WorkflowEdit`: three lists (a chain, one task, one that is not valid), two
  jobs at one center, of which one may merely refresh the plan (an update, a
  refresh, a look of the runner), two saved lists, two seconds.
* `WorkflowMembers`: three users, two requests, two rows for a user.
* `LogTable`: two centers, partitions for two days ahead, today up to day 3 (a
  partition is added, filled, aged and dropped), one row, one outage.
* `WebHooks`: two targets, two attempts (5 in the code), one cut. One
  report: reports are independent goroutines. Hooks change until the report has
  read them; afterwards nothing reads them.

In `MCServices` processes that have not begun are interchangeable, and the next
to begin is picked (`NextEditor`, `NextRun`, `NextCall`, `NextJob`, `NextLeader`,
`NextSweeper`); so are targets that nothing names (`NextUrl`), and the first run
of `RunDoctor` is on the agent "here". The theorems hold without any of these
restrictions, which only `MCServices` states, and `ServicesImplement` shows that they
only leave behaviours out.

### Fairness

`TaskLock`: weak fairness of the handlers (each etcd and MySQL call has a
result or times out), of lease expiry, of the delivery of replies and stream
ends by gRPC, of opening a stream, and of `GiveUp` (CancelCtx has a deadline).
No fault is forced. Nothing is assumed of heartbeats nor of the command.

`TaskRun`: weak fairness of a goroutine once started (its command ends, since
CancelCtx has a deadline), of the unlocking goroutine, and of each handler of
the center. A crashed agent owes nothing.

`AgentRegister`: weak fairness of the agent's goroutines (registering, receive
loop, event handlers, errHandler's second of sleep), of the center's handler and
of the timers of those who wait for an answer, and of opening a stream: the
center can be reached except for finitely many times. Losses, pushed events and
Close are never forced.

The other modules claim no liveness: an editor, a user or a report owes nothing.
For `Workflow` none is claimed because the code gives none: a plan whose
leftovers are misread, or with a cyclic dependency, waits for ever.

### Known to fail outside the listed runs

Changing a configuration or a guard shows these, or they are visible in the
model's history variables; they are consequences of the same lines or lie
outside what a comment promises.

Task lock and runs:

* `Noseize = TRUE`: two dispatches on one agent both pass the check of
  `scheduler.go:355` before either enters the table at line 441, so both execute
  and `TablesTruthful` fails when the first one removes the entry of the second.
* `"lose"` added to `once`: `OncePerPlan` fails, since SELECT and INSERT of
  `task_log_partition.go:170` are two statements without a unique index.
  `"store"` added to it: the same, since SetTaskRunning logs and drops the error
  of `CheckOrCreateScheduleLog` and goes on without check or row.
* `"slow"` with `Attempts = 2` added to `truthful`: `NotRefusedForItself` fails,
  the first half of `caller`.
* `"kill"` added to `truthful`: a killed run's FINISHED deletes the status key
  of its successor (`TablesTruthful`), and a RUNNING handler that was cut off
  writes after FINISHED (`EndedStaysEnded`, `NotRefusedForItself`).
* `"crash"`, `"deny"`, `"lose"` or `"slow"` breaks `TablesTruthful`; `"slow"` breaks
  `EndedStaysEnded` and `NotRefusedForItself`; `"deny"`, `"slow"` or `"store"` breaks
  `ReportedBeforeForgotten`. The theorems of `TaskRunProofs` exclude these and no
  others.
* `Locker.TryLock()` is TryLockWithOwner with the owner `""`, so that every second
  caller inherits: it excludes nobody. SaveTask (`etcd.go:499-512`), the agent
  watcher and the members of a workflow use it; they are modelled as unlocked.

Workflow:

* An Aborted RUNNING has no result, and no error is reported as success: a task
  that never ran is DONE (`agent/scheduler.go:617`).
* A task that is STARTING with its count at the limit ends the plan although it
  may be about to run; two events of one task count twice.
* A rescue keeps the count and sets NOT_RUNNING without a condition: a task whose
  lock was free for a moment is run again even when it is DONE by then, and a
  NOT_RUNNING task past its limit is scheduled without end.
* Two centers (`Center = {m, n}`): `DispatchInPlan` fails, the mutex is not shared.
  A task started after the plan ended leaves a state without plan.
* `clearWorkflowKeys` deletes by prefix without a terminator: workflow 1 clears 10.
* `Finished(nil)` kills nothing; `scheduleWorkflowPlan` calls `err.Error()` on nil.

Plan table and registration:

* An agent that connects during an edit may miss it; a snapshot never removes a
  deleted task; a dispatch that fails for one agent leaves the others with the
  new definition and etcd with the old one.
* RemoveAll leaves the hash of the table it emptied (`scheduler.go:200`).
* A malformed task ends its handler with an error: the stream is dropped and the
  loop that still receives keeps `receivingLocker`, so that the next stream has
  no reader (`failed` in `NeverDeaf` and `ComesBack`).
* A registration that arrives while a snapshot is dispatched blocks the goroutine
  that reads the answers (`rpc.go:453`).
* `register()` waits for the first event, so an agent of a project without tasks
  waits in it (`hung`).

Background jobs and stores:

* The doctor's grace of five minutes is only for agents that answered
  (`schedule.go:724`); KillTask dereferences a missing row (`etcd.go:173`) and
  leaves its transaction open when a statement fails (`etcd.go:182-192`).
* A dispatch round that takes more than a minute, or a change of leader, expires
  tasks nobody tried. A lost answer is logged as a failure beside the run. With no
  stream and no old client a temporary task is lost silently
  (`schedule.go:613-616`).
* A partition whose day passes without a working leader is never dropped. The
  CleanLogs API deletes nothing.
* Overlapping additions duplicate rows; members of a deleted project can still
  store; DeleteOrg leaves its transaction open after an error (`org.go:100`).
* Overlapping edits of a workflow, or a late replica, leave the union of two
  lists; two lists of one second leave a center with a stale plan for good.
* With two rows of one hook type only one is called. A repeated FINISHED calls
  the hooks again; a center that dies calls none.

## Proofs

Every theorem holds for every value of the constants that the named assumption
of its module admits, and for every set of faults but those it names. Every
invariant, action property and refinement of a passing run is the subject of a
theorem.

Each proof has the same shape: an inductive invariant that implies the property,
one step per action that preserves it, and a temporal step. The invariants were
checked by TLC on the instances of the runs before they were proved.

`TaskLockProofs`, from `LockAssumption` (`RunOf` maps streams to runs, `NoStream`
is no stream), for any runs, streams and `MaxTries`:

* `TypeCorrect`: `TypeOK` is inductive.
* `LeasesDisciplined`: `LeaseDiscipline` is inductive with `TypeOK`.
* `ExclusiveUnlessLatePut`: `Exclusive`, without the fault "late". `Exclusive` is not
  inductive: it says nothing of the key. The strengthening `CurrentHolds` ties
  a serving handler whose agent still reads its stream and whose lease lives
  to the key; `OwnStreamsOnly` says that the stream a run reads was opened for
  it, so two holders would be one key.
* `KeyIsExclusiveLock`: refinement of `ExclusiveLock`: every step moves the
  key to nobody, leaves it, or gives it to a stream of the owner or, when it
  was free, to any stream (without "late").
* `ConfirmedUnlessSlow`: `ConfirmedBeforeRunning`, without "slow". `SentByServers`
  says that a reply comes from a handler that serves its stream, until the run
  gives the stream up. With "slow" it is false: run `heartbeat`. That nobody but
  its agent moves a run (`OnlyAgentsMoveRuns`) leaves the agent's steps to look at.

`TaskRunProofs`, from `RunAssumption`, for any runs, agents and number of
attempts:

* `TypeCorrect`: `TypeOK` is inductive.
* `OneInCluster` (no "lose"): `AloneInCluster`, from the inductive `HoldersLock`:
  from the lock to its deferred CancelFunc a run that is not cancelled owns the
  lock.
* `OnceIfLockAndRowLast` (no "lose", no "store"): `OncePerPlan`. It needs four
  invariants: `HoldersLock`; `ReportsSent`, no handler runs before its report
  was sent; `RowsBehind`, every command that starts and every handler past its
  INSERT has a row, which never goes; and `FirstOnly`, once a plan time was
  executed no other run of it is executed or *vouched for* (not cancelled, and
  past the center's check or ready). `FirstOnly` is what makes `OncePerPlan`
  inductive: a run becomes vouched for only where no row exists, and it can
  execute only while it has the lock, so no other vouched-for run is left when
  it does.
* `TablesTruthfulIfCalm` (`Calm`: no "kill", "crash", "deny", "lose", "slow", and the
  task seizes its lock): `TablesTruthful`. `Orderly` says that nothing is cancelled
  before it is done with the lock (`Uncut`), that the table names its run from
  SetExecutingTask to DeleteExecutingTask (`Named`), that the center works on a
  report only while the agent waits for the answer (`InPhase`), and that the status
  key names the run once RUNNING was handled (`StatusNamed`). With `HoldersLock` one
  run at a time is in between.
* `EndedStaysEndedIfAwaited`, `NotRefusedForItselfIfAwaited` (no "kill", no "slow"):
  the action properties `EndedStaysEnded` and `NotRefusedForItself`, from `OneAtATime`:
  the center works on one report of a run at a time, the one the agent waits
  for or died waiting for, and a RUNNING report finds no row of its run.
* `ReportedIfAccepted` (no "deny", "slow", "store"): `ReportedBeforeForgotten`, from
  `EndsReported`: each stage of the report of an end leaves what the next one
  finds. A killed run's RUNNING report may still be handled then, but not once
  its command has started.

In all of these the excluded faults are needed: TLC finds a violation with each
of them added to the rest.

`WorkflowProofs`, from `WorkflowAssumption`, for every workflow, any number of
centers and executions, and any limit:

* `WorkflowTypeCorrect`: `TypeOK` is inductive.
* `LeftoversHaveAReason`: `NoLeftovers` is inductive with it. Whoever is between
  the deletion of the plan key and that of the states stays there until its own
  step ends it (`OthersStay`).
* `DispatchesInPlan`: `DispatchInPlan`, for one center. The strengthening `Checked`
  says that what holds the mutex between the check and the dispatch has seen a
  plan that still runs (`spoilt` excuses ends that were cut short
  and keys that another workflow's end took), since only
  the holder can end it. With two centers it is false, as TLC shows.

`WorkflowDagProofs`, from the same assumption:

* `RunnerImplementsDag`: the refinement of `WorkflowDag`, with any number of
  centers. It needs `InOrder` (lemma `StaysOrderly`): in a clean plan whatever is
  on its way to a dispatch (a state in etcd, an event in a channel, a
  goroutine, a scan that has found it ready, the task in the holder's hands)
  has all its dependencies among the tasks that have succeeded. A task's own
  state is not enough: it is written several steps after CanSchedule looked.
* `EndsHaveAReason`: `EndsForAReason`. `Reasoned` adds that a task without a state
  has no attempts counted, and that a scan whose verdict is "ok" means in a clean
  plan that all tasks have succeeded, however old what it read is.

`StreamProofs`, on `PlanTable`, from `PlanAssumption` (an editor is none of the other
sources of events), for any agents, editors, definitions, pings and breaks:

* `PlanTypeCorrect`: `PlanTypeOK` is inductive.
* `InSyncAlways`: `InSync`. `SureIsQuiet` says where a difference between the table of
  an agent that is sure and etcd may hide: nowhere but in the inbox, whose last
  event is the definition in etcd; the wire holds nothing but pings, and what the
  event handlers still have in their hands is the same definition or a ping.
  How an agent becomes sure takes the rest of `PlanInv`: nothing is known of a
  call before it asks (`EditsUnknown`); consecutive snapshots on one stream are
  told apart (`LoadsInTurn`); for an agent that no other call or snapshot
  concerned meanwhile, the event of a call is the last of the wire, and an answer
  to it means that it has been taken (`EditsLast`, `LoadsLast`). This is where the
  shared variable `cell` matters: a handler goroutine that comes late answers
  for, and delivers, a later event than its own. `HashKept` is the part about the
  hash.

`StreamProofs`, on `EventReply` and `AgentRegister`, from `ReplyAssumption` (the closer
is no answer) and `RegAssumption` (the bounds are numbers), for any number of answers, streams, faults and events:

* `ReplyTypeCorrect`, `NobodyPanics`: `NoPanic` (nothing is sent on the closed reply
  channel). The strengthening `MutexAndFlag` says that an answer that saw the flag
  `isClose` unset holds the mutex of the entry until it has sent, and that the flag
  is set whenever the channel is full or gone.
* `RegTypeCorrect`, `NeverDeafAlways`: `NeverDeaf`. `Listening` says that
  `receivingLocker` is held by the one loop that runs; `OneDriver` that, unless a
  handler failed or the registry was closed, there is either a current stream
  with its loop or exactly one thread on its way to open the next one, and every
  other stream was ended.
* `OneSessionAlways`: the refinement of `StreamSession`. While nothing has ended the
  session, `OneDriver` leaves a step four ways to touch it (`SessionMoves`): the
  driver opens a stream, and there is then no current stream and no loop but its
  own, which has ended; the current stream, the only one that is not killed, is
  dropped by its errHandler; the loop of a dropped stream ends; or it stays.

`JobProofs`, from `CheckerAssumption`, `TempAssumption`, `DaysAreSome` and
`HookAssumption` (bounds are numbers, markers are no members of the sets they are
told apart from, there is an attempt and a day):

* `DoctorTypeCorrect`, `OfflineIsOverAlways`, `ResultKeptAlways`: `OfflineIsOver` and the
  action property `ResultKept`, from `Judged`. For a run nobody has a reason to
  doubt, `InStep` ties its report's stage to row and key, and `NotChecked` says that
  a checker reads its row only when it is over and never comes to write it. One
  run executes at a time (`Lonely`), so the key a killer has read is not that of
  one that starts (`KeyIsOld`), and a row lock an open transaction holds is one of
  a doubted run (`RowsDoubted`).
* `TempTypeCorrect`, `OneFateAlways`: `OneFate`, from `InTurn`. There may be several
  former leaders but one leader (`OneLeader`); what a former leader and another
  worker have in hand is excused (`OthersAreExcused`); a task that is waiting, or
  in somebody's hands, has met no fate before (`OpenBefore`).
* `LogTypeCorrect`, `RowsKeptAlways`: the action property `RowsKept`, from `Held`.
  `Promised` says that the partitions reach as far as an undisturbed round has
  promised, `Prepared` how far a round under way has come, `Ordered` that a day
  with a partition at or after it has a first one: no order of the partitions'
  ends is assumed, for partitions come and go one by one.
* `HookTypeCorrect`, `EveryHookToldAlways`: `EveryHookTold`, from `Told`: a hook that is
  owed a call is in MySQL and on every replica before the list is loaded,
  in the goroutine's map after it, and answered or warned of when its turn has
  passed (`OwedToday`); the attempts of one hook do not carry over (`TriedLess`).

`DefinitionProofs`, from `RolesAreKnown`, `ListsAreEdges`, `EditBounds` and
`MemberAssumption`, for any users, calls, tasks, lists, jobs and centers:

* `ProjectsTypeCorrect`, `EditTypeCorrect`, `MemberTypeCorrect`: the type invariants. That the
  latest time of a set of rows is one of them follows from the well-foundedness
  of the natural numbers (`Least`, `Greatest`).
* `GoneLeavesNothing`: `GoneIsEmpty`. The strengthening `Emptying` says what a deletion
  under way knows: no workflow task since it has counted them, no cron task since
  it has cleared them, but for what was stored meanwhile and is excused (`late`).
* `ChiefRemainsAlways`: `ChiefRemains`, from `Ruled`. A removal whose checks are up to
  date was asked for by somebody with at least the role of whom it removes, who
  is another person (`Safe`): so if it removes a chief, another one is left. Any
  deletion in between makes the checks outdated.
* `NoTaskWaitsForNone`: `DepsListed`. The strengthening `Sound` is about every set of
  rows there is, in MySQL, on a late replica and in the hands of an edit: of each
  list that was ever saved it has all rows or none. So whatever overlapping edits
  leave, and whatever replica a refresh reads, is a union of lists that are
  closed each by itself.
* `RemovedIsOut`: `OutIsOut`, which is inductive with the typing.

`ServicesProofs`, from the assumptions of the ten services, about `MCServices`, the
specification that TLC explores in the run `services`:

* `ServicesImplement`: each of its behaviours is a behaviour of every service.
  For each part, a step of it is a step of its module, for whatever a bound or a
  representative may leave out (`PlanMoves` to `HookMoves`; `OneOfThem` says that a
  representative of a set is a member of it), and the variables of the other
  modules stay (`AllMove`).
* `ServicesTypeCorrect`: its `TypeOK`, the conjunction of the ten type invariants.
* `StreamsAreSafe`, `JobsAreSafe`, `DefinitionsAreSafe`: what is proved of the modules
  holds for it. `AgentRegister` takes part with its steps alone (`RegSafety`), for
  the fairness of a module is not part of the refinement; no theorem above uses it.

Model-checked only, because fairness and ENABLED are out of the prover's reach:
the liveness properties `TryingEnds` and `StoppedRunsLetGo` (`lock_live`), `TableCleared`
and `LockReturned` (`retries`), `AgentComesBack` (`services`).

## Plan

In this order; each module with its runs, then its proofs.

1. `TaskLock`, `ExclusiveLock` - done, with proofs.
2. `TaskRun` - done, with proofs.
3. `WorkflowDag`, `Workflow`, and the refinement - done, with proofs.
4. `PlanTable`, `StreamSession`, `AgentRegister`, the refinement, `EventReply` - done,
   with proofs.
5. `RunDoctor`, `TempTask`, `LogTable` - done, with proofs.
6. `Projects`, `WorkflowEdit`, `WorkflowMembers`, `WebHooks` - done, with proofs.
7. `MCServices`, the composition of the modules of 4 to 6 - done, with proofs.

Left: abstract specifications of the other services, to which `PlanTable` (a register
that every sure agent holds a copy of) is the first candidate; and the publication
to the web client, should anything come to depend on it.

## Not modelled

* HTTP controllers as such (their checks and calls are in the modules), SQL
  beyond the statements named in the modules, metrics, warnings, logging, OIDC,
  token cryptography, the command line, generated protobuf code, the built web
  UI, examples.
* `pkg/queue/etcd_driver.go` (no importer), `sqlStore/task_log.go` and
  `register.go`, the first version of the registration (no caller),
  CalcAgentDataConsistency (its start is commented out).
* The publish buffer of `app/webpublish.go`: `app.go:649` compares a length and
  then sends, which can block; nothing in the system depends on what it delivers.
  `scheduleEventChan` is taken as large enough: at 100 events the runner, which
  both reads and writes it, would block itself.
* The window and the timer of the task doctor (two to three hours, a timer that
  drifts and is not reset after a failed query): time, in a module whose other
  steps take milliseconds.
* The choice of a node by weight (`micro.go:359` panics when all weights are
  zero), proxying between regions.
* Daylight saving and differing time zones in the partitions.
* Users who remove each other from a workflow until only the first user is left:
  the code permits it.
