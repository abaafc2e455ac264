------------------------------- MODULE TaskRun -------------------------------
(***************************************************************************)
(* One execution of a task from the moment the agent decides to start it   *)
(* (TryStartTask) to the moment it has been reported and forgotten, with   *)
(* the center's side of the two reports: RUNNING (SetTaskRunning with      *)
(* CheckOrCreateScheduleLog) and FINISHED (SaveTaskLog and                 *)
(* HandlerTaskFinished).                                                   *)
(*                                                                         *)
(* One module instance is one task.  The task lock is the abstract lock of *)
(* ExclusiveLock with two additions: CancelFunc releases it at once, and   *)
(* with the fault "lose" its holder can lose it without being told.        *)
(***************************************************************************)
EXTENDS Naturals

CONSTANTS
    Run,       \* the executions (each with a tmpID of its own)
    Agent,     \* the agents that have the task in their plan table
    AgentOf,   \* the agent of each run
    PlanOf,    \* the plan time of each run
    Active,    \* the runs asked for by a user, who waits for an answer
    Noseize,   \* TRUE when the task is configured to run without the lock
    None,      \* no run
    Attempts,  \* how often a report is tried (retry.Attempts, 3 in the code)
    Faults     \* the faults that may happen

\* "slow": a report is not answered in time, or not answered at all, although
\*   the center may have handled it or may still do so.
\* "store": a statement on the log table fails.   "lose": the lock gets lost.
\* "unreachable": no center answers TryLock.   "kill": a user kills the task.
\* "stop": a user takes the task out of schedule.
\* "close": an agent shuts down.   "crash": an agent process dies.
\* "deny": the agent's token does not cover the project.
FaultKind == {"slow", "store", "lose", "unreachable", "kill", "stop",
              "close", "crash", "deny"}

ASSUME RunAssumption ==
    /\ AgentOf \in [Run -> Agent]
    /\ Active \subseteq Run
    /\ Noseize \in BOOLEAN
    /\ None \notin Run
    /\ Attempts \in Nat \ {0}
    /\ Faults \subseteq FaultKind

VARIABLES
    pc,         \* agent: where the goroutine of the run is
    table,      \* agent: TaskExecutingTable, the entry of this task
    closed,     \* agent: isClose
    cancelled,  \* agent: runs whose CancelCtx is done
    executed,   \* runs whose command was started
    result,     \* agent: the result variable of the goroutine
    caller,     \* who called TryStartTask and waits on errSignal
    call,       \* agent: the attempt of the current report
    running,    \* center: handler of each attempt of the RUNNING report
    finished,   \* center: handler of each attempt of the FINISHED report
    lock,       \* owner of the task lock
    log,        \* gc_task_log_p: the rows of each run, by their end time
    status,     \* etcd: the run the task's status key names
    told,       \* the outcome the center passed on (webhook, workflow)
    scheduling  \* TaskInfo.Status is SCHEDULING

agentVars  == <<pc, table, closed, cancelled, executed, result, caller, call>>
centerVars == <<running, finished, log, status, told>>
vars == <<agentVars, centerVars, lock, scheduling>>

\* "locking": tryLockTaskForExec; "locked": the lock is there, the run is not
\* yet in the table; "reporting": RUNNING; "ready": ExecuteTask is next;
\* "executing"; "telling": FINISHED; "told": DeleteExecutingTask is next;
\* "leaving": CancelFunc is next; "hung": waits on resultChan for ever;
\* "gone": the agent process ended.
PC == {"new", "locking", "locked", "reporting", "ready", "executing",
       "telling", "told", "leaving", "done", "hung", "gone"}
Attempt == 1..Attempts

TypeOK ==
    /\ pc \in [Run -> PC]
    /\ table \in [Agent -> Run \cup {None}]
    /\ closed \subseteq Agent
    /\ cancelled \subseteq Run
    /\ executed \subseteq Run
    /\ result \in [Run -> {"nil", "ok", "err"}]
    /\ caller \in [Run -> {"none", "waiting", "answered"}]
    /\ call \in [Run -> 0..Attempts]
    /\ running \in [Run -> [Attempt -> {"idle", "check", "insert", "put", "ok",
                                        "refused", "denied", "fail"}]]
    /\ finished \in [Run -> [Attempt -> {"idle", "save", "del", "ok", "fail"}]]
    /\ lock \in Run \cup {None}
    /\ log \in [Run -> SUBSET {"open", "closed"}]
    /\ status \in Run \cup {None}
    /\ told \in [Run -> {"none", "done", "fail"}]
    /\ scheduling \in BOOLEAN

Init ==
    /\ pc = [r \in Run |-> "new"]
    /\ table = [a \in Agent |-> None]
    /\ closed = {}
    /\ cancelled = {}
    /\ executed = {}
    /\ result = [r \in Run |-> "nil"]
    /\ caller = [r \in Run |-> "none"]
    /\ call = [r \in Run |-> 0]
    /\ running = [r \in Run |-> [k \in Attempt |-> "idle"]]
    /\ finished = [r \in Run |-> [k \in Attempt |-> "idle"]]
    /\ lock = None
    /\ log = [r \in Run |-> {}]
    /\ status = None
    /\ told = [r \in Run |-> "none"]
    /\ scheduling = TRUE

Goto(r, l) == pc' = [pc EXCEPT ![r] = l]
Answer(r) == caller' = [caller EXCEPT ![r] = "answered"]
Cancel(r) == cancelled' = cancelled \cup {r}

-----------------------------------------------------------------------------
(***************************************************************************)
(* Agent: TryStartTask.                                                    *)
(***************************************************************************)

\* The agent is closing, or the task is in the executing table: an error, of
\* TryStartTask or, for an active plan, of the service that was called.
TurnAway(r) ==
    /\ pc[r] = "new"
    /\ AgentOf[r] \in closed \/ table[AgentOf[r]] # None
    /\ Goto(r, "done")
    /\ Answer(r)
    /\ UNCHANGED <<table, closed, cancelled, executed, result, call,
                   centerVars, lock, scheduling>>

\* A plan whose time has come, or an active one: the goroutine starts.  Only
\* the caller of an active plan waits.
Dispatch(r) ==
    /\ pc[r] = "new"
    /\ AgentOf[r] \notin closed
    /\ table[AgentOf[r]] = None
    /\ Goto(r, IF Noseize THEN "locked" ELSE "locking")
    /\ caller' = [caller EXCEPT ![r] = IF r \in Active THEN "waiting"
                                                      ELSE "answered"]
    /\ UNCHANGED <<table, closed, cancelled, executed, result, call,
                   centerVars, lock, scheduling>>

\* Faulty variant of TakeLock: somebody else's lock does not stop the run.
TakeLockByForce(r) ==
    /\ pc[r] = "locking"
    /\ lock' = r
    /\ Goto(r, "locked")
    /\ UNCHANGED <<table, closed, cancelled, executed, result, caller, call,
                   centerVars, scheduling>>

TakeLock(r) ==
    /\ pc[r] = "locking"
    /\ lock = None
    /\ lock' = r
    /\ Goto(r, "locked")
    /\ UNCHANGED <<table, closed, cancelled, executed, result, caller, call,
                   centerVars, scheduling>>

\* Aborted because somebody owns the lock, or no attempt left.
LockRefused(r) ==
    /\ pc[r] = "locking"
    /\ lock # None \/ "unreachable" \in Faults
    /\ Goto(r, "done")
    /\ Answer(r)
    /\ Cancel(r)
    /\ UNCHANGED <<table, closed, executed, result, call, centerVars, lock,
                   scheduling>>

\* CancelCtx reaches its deadline between two attempts: the locking goroutine
\* returns without a word, and TryStartTask's goroutine waits on resultChan.
LockAbandoned(r) ==
    /\ "unreachable" \in Faults
    /\ pc[r] = "locking"
    /\ Goto(r, "hung")
    /\ Cancel(r)
    /\ UNCHANGED <<table, closed, executed, result, caller, call, centerVars,
                   lock, scheduling>>

\* The attempt k of the RUNNING report goes out.
SendRunning(r, k) ==
    /\ call' = [call EXCEPT ![r] = k]
    /\ running' = [running EXCEPT ![r][k] = "check"]

\* SetExecutingTask, whatever entry is there, and the first RUNNING report.
Register(r) ==
    /\ pc[r] = "locked"
    /\ table' = [table EXCEPT ![AgentOf[r]] = r]
    /\ Goto(r, "reporting")
    /\ SendRunning(r, 1)
    /\ UNCHANGED <<closed, cancelled, executed, result, caller, finished, log,
                   status, told, lock, scheduling>>

\* Faulty variant of RunningAccepted: the command starts while the RUNNING report
\* is under way.
RunningNotAwaited(r) ==
    /\ pc[r] = "reporting"
    /\ Goto(r, "ready")
    /\ UNCHANGED <<table, closed, cancelled, executed, result, caller, call,
                   centerVars, lock, scheduling>>

RunningAccepted(r) ==
    /\ pc[r] = "reporting"
    /\ running[r][call[r]] = "ok"
    /\ Goto(r, "ready")
    /\ UNCHANGED <<table, closed, cancelled, executed, result, caller, call,
                   centerVars, lock, scheduling>>

\* The attempt k of the FINISHED report goes out.
SendFinished(r, k) ==
    /\ call' = [call EXCEPT ![r] = k]
    /\ finished' = [finished EXCEPT ![r][k] = "save"]

\* Aborted: return at once.  errSignal is neither sent to nor closed, result
\* is still nil, and the deferred report follows.
RunningRefused(r) ==
    /\ pc[r] = "reporting"
    /\ running[r][call[r]] = "refused"
    /\ Goto(r, "telling")
    /\ SendFinished(r, 1)
    /\ UNCHANGED <<table, closed, cancelled, executed, result, caller, running,
                   log, status, told, lock, scheduling>>

\* The call came back with another error, timed out, or was cut short by
\* CancelCtx.
CallLost(state) ==
    \/ state = "fail"
    \/ "slow" \in Faults

\* Faulty variant of RunningRetried: one attempt too many.
RunningRetriedOnceMore(r) ==
    /\ pc[r] = "reporting"
    /\ r \notin cancelled
    /\ CallLost(running[r][call[r]])
    /\ call[r] <= Attempts
    /\ SendRunning(r, call[r] + 1)
    /\ UNCHANGED <<pc, table, closed, cancelled, executed, result, caller,
                   finished, log, status, told, lock, scheduling>>

RunningRetried(r) ==
    /\ pc[r] = "reporting"
    /\ r \notin cancelled
    /\ CallLost(running[r][call[r]])
    /\ call[r] < Attempts
    /\ SendRunning(r, call[r] + 1)
    /\ UNCHANGED <<pc, table, closed, cancelled, executed, result, caller,
                   finished, log, status, told, lock, scheduling>>

\* Unauthenticated, or the last attempt failed: CancelFunc, the caller gets the
\* error, and ExecuteTask is entered all the same.
RunningFailed(r) ==
    /\ pc[r] = "reporting"
    /\ \/ r \in cancelled
       \/ running[r][call[r]] = "denied"
       \/ CallLost(running[r][call[r]]) /\ call[r] = Attempts
    /\ Goto(r, "ready")
    /\ Cancel(r)
    /\ Answer(r)
    /\ UNCHANGED <<table, closed, executed, result, call, centerVars, lock,
                   scheduling>>

\* errSignal.Close, then ExecuteTask starts the command.
Execute(r) ==
    /\ pc[r] = "ready"
    /\ r \notin cancelled
    /\ Goto(r, "executing")
    /\ executed' = executed \cup {r}
    /\ Answer(r)
    /\ UNCHANGED <<table, closed, cancelled, result, call, centerVars, lock,
                   scheduling>>

\* ExecuteTask returns without starting the command: CancelCtx is done, or the
\* run is more than 30 s late.
NotExecuted(r) ==
    /\ pc[r] = "ready"
    /\ r \in cancelled \/ "slow" \in Faults
    /\ Goto(r, "telling")
    /\ result' = [result EXCEPT ![r] = "err"]
    /\ Answer(r)
    /\ SendFinished(r, 1)
    /\ UNCHANGED <<table, closed, cancelled, executed, running, log, status,
                   told, lock, scheduling>>

\* The command ends by itself, or is killed because CancelCtx is done.
CommandEnds(r) ==
    /\ pc[r] = "executing"
    /\ \E res \in {"ok", "err"} : result' = [result EXCEPT ![r] = res]
    /\ Goto(r, "telling")
    /\ SendFinished(r, 1)
    /\ UNCHANGED <<table, closed, cancelled, executed, caller, running, log,
                   status, told, lock, scheduling>>

FinishedRetried(r) ==
    /\ pc[r] = "telling"
    /\ CallLost(finished[r][call[r]])
    /\ call[r] < Attempts
    /\ SendFinished(r, call[r] + 1)
    /\ UNCHANGED <<pc, table, closed, cancelled, executed, result, caller,
                   running, log, status, told, lock, scheduling>>

\* Faulty variants of FinishedAnswered: the report is not awaited; the agent keeps
\* the entry until a report got through.
FinishedNotAwaited(r) ==
    /\ pc[r] = "telling"
    /\ Goto(r, "told")
    /\ UNCHANGED <<table, closed, cancelled, executed, result, caller, call,
                   centerVars, lock, scheduling>>

FinishedMustSucceed(r) ==
    /\ pc[r] = "telling"
    /\ finished[r][call[r]] = "ok"
    /\ Goto(r, "told")
    /\ UNCHANGED <<table, closed, cancelled, executed, result, caller, call,
                   centerVars, lock, scheduling>>

FinishedAnswered(r) ==
    /\ pc[r] = "telling"
    /\ \/ finished[r][call[r]] = "ok"
       \/ CallLost(finished[r][call[r]]) /\ call[r] = Attempts
    /\ Goto(r, "told")
    /\ UNCHANGED <<table, closed, cancelled, executed, result, caller, call,
                   centerVars, lock, scheduling>>

\* DeleteExecutingTask deletes the entry of the task, whoever's it is.
Unregister(r) ==
    /\ pc[r] = "told"
    /\ table' = [table EXCEPT ![AgentOf[r]] = None]
    /\ Goto(r, "leaving")
    /\ UNCHANGED <<closed, cancelled, executed, result, caller, call,
                   centerVars, lock, scheduling>>

\* Faulty variant of Leave: the deferred CancelFunc is missing.
LeaveUncancelled(r) ==
    /\ pc[r] = "leaving"
    /\ Goto(r, "done")
    /\ UNCHANGED <<table, closed, cancelled, executed, result, caller, call,
                   centerVars, lock, scheduling>>

Leave(r) ==
    /\ pc[r] = "leaving"
    /\ Cancel(r)
    /\ Goto(r, "done")
    /\ UNCHANGED <<table, closed, executed, result, caller, call, centerVars,
                   lock, scheduling>>

-----------------------------------------------------------------------------
(***************************************************************************)
(* Agent: cancellation, lock, shutdown.                                    *)
(***************************************************************************)

\* Faulty variant of Unlock: the lock is given back when the command has ended,
\* before the end was reported.
UnlockEarly(r) ==
    /\ lock = r
    /\ r \in cancelled \/ pc[r] \in {"telling", "gone"}
    /\ lock' = None
    /\ UNCHANGED <<agentVars, centerVars, scheduling>>

\* The locking goroutine sees CancelCtx done and sends UNLOCK; when the agent
\* process is gone the center sees the stream end.
Unlock(r) ==
    /\ lock = r
    /\ r \in cancelled \/ pc[r] = "gone"
    /\ lock' = None
    /\ UNCHANGED <<agentVars, centerVars, scheduling>>

\* The lease ran out, or another run's late Put took the key (TaskLock).
LoseLock(r) ==
    /\ "lose" \in Faults
    /\ lock = r
    /\ lock' = None
    /\ UNCHANGED <<agentVars, centerVars, scheduling>>

\* KillTask, TASK_STOP and the kill event look the task up in the table.
Kill(a) ==
    /\ "kill" \in Faults
    /\ table[a] # None
    /\ Cancel(table[a])
    /\ UNCHANGED <<pc, table, closed, executed, result, caller, call,
                   centerVars, lock, scheduling>>

\* The deadline of CancelCtx (the task's timeout).
Timeout(r) ==
    /\ "kill" \in Faults
    /\ pc[r] \in {"locked", "reporting", "ready", "executing"}
    /\ Cancel(r)
    /\ UNCHANGED <<pc, table, closed, executed, result, caller, call,
                   centerVars, lock, scheduling>>

Close(a) ==
    /\ "close" \in Faults
    /\ closed' = closed \cup {a}
    /\ UNCHANGED <<pc, table, cancelled, executed, result, caller, call,
                   centerVars, lock, scheduling>>

\* The process is gone and every goroutine with it.
ProcessEnds(a) ==
    /\ pc' = [r \in Run |-> IF AgentOf[r] = a /\ pc[r] \notin {"new", "done"}
                            THEN "gone" ELSE pc[r]]
    /\ table' = [table EXCEPT ![a] = None]
    /\ UNCHANGED <<cancelled, executed, result, caller, call, centerVars, lock,
                   scheduling>>

\* Stop waited until the executing table was empty.
Exit(a) ==
    /\ a \in closed
    /\ table[a] = None
    /\ ProcessEnds(a)
    /\ UNCHANGED closed

\* A crash and a restart, or Stop that gave up after ten minutes.
Crash(a) ==
    /\ "crash" \in Faults
    /\ ProcessEnds(a)
    /\ closed' = closed \ {a}

-----------------------------------------------------------------------------
(***************************************************************************)
(* Center: StatusReporter.                                                 *)
(***************************************************************************)

RunningStep(r, k, from, to) ==
    /\ running[r][k] = from
    /\ running' = [running EXCEPT ![r][k] = to]
    /\ UNCHANGED <<agentVars, finished, told, lock, scheduling>>

\* Faulty variants of RowExists: the run's own tmpID is always part of the WHERE
\* clause; the plan time is not part of it.
OwnRowExists(r) == log[r] # {}
AnyRowExists(r) == \E q \in Run : log[q] # {} /\ (Noseize => q = r)

\* What CheckOrCreateScheduleLog selects: a row of this plan time, for a
\* noseize task one of this very run.
RowExists(r) ==
    \E q \in Run :
        /\ log[q] # {}
        /\ PlanOf[q] = PlanOf[r]
        /\ Noseize => q = r

\* The task is out of schedule, or its plan time has been executed: Aborted.
\* (Reading the task and selecting the row are two calls; the second does not
\* depend on what the first read, so one step stands for both.)
RunningRefusal(r, k) ==
    /\ (r \notin Active /\ ~scheduling) \/ RowExists(r)
    /\ RunningStep(r, k, "check", "refused")
    /\ UNCHANGED <<log, status>>

RunningChecked(r, k) ==
    /\ r \in Active \/ scheduling
    /\ ~RowExists(r)
    /\ RunningStep(r, k, "check", "insert")
    /\ UNCHANGED <<log, status>>

\* The SELECT fails: the error is logged, and there is neither check nor row.
RunningUnchecked(r, k) ==
    /\ "store" \in Faults
    /\ r \in Active \/ scheduling
    /\ RunningStep(r, k, "check", "put")
    /\ UNCHANGED <<log, status>>

\* The INSERT is a statement of its own.  Its error is logged and ignored, the
\* one of a second row for the run and its plan time (a unique key) as well.
RunningInserted(r, k) ==
    /\ RunningStep(r, k, "insert", "put")
    /\ \/ log[r] = {} /\ log' = [log EXCEPT ![r] = {"open"}]
       \/ (log[r] # {} \/ "store" \in Faults) /\ UNCHANGED log
    /\ UNCHANGED status

\* The status key is overwritten and gets a lease of the task's timeout.
RunningStored(r, k) ==
    /\ RunningStep(r, k, "put", "ok")
    /\ status' = r
    /\ UNCHANGED log

\* The token does not allow the project: Unauthenticated, not retried.
RunningDenied(r, k) ==
    /\ "deny" \in Faults
    /\ RunningStep(r, k, "check", "denied")
    /\ UNCHANGED <<log, status>>

\* The request or a call to etcd is lost.
RunningCallFails(r, k) ==
    /\ "slow" \in Faults
    /\ running[r][k] \in {"check", "put"}
    /\ running' = [running EXCEPT ![r][k] = "fail"]
    /\ UNCHANGED <<agentVars, finished, log, status, told, lock, scheduling>>

FinishedStep(r, k, from, to) ==
    /\ finished[r][k] = from
    /\ finished' = [finished EXCEPT ![r][k] = to]
    /\ UNCHANGED <<agentVars, running, lock, scheduling>>

\* CreateOrUpdateTaskLog: the row of the run is updated, or one is created, with
\* the end time of the report, which is zero when the agent had no result.
EndOf(r) == IF result[r] = "nil" THEN "open" ELSE "closed"
RowsUpdated(r) == [log EXCEPT ![r] = {EndOf(r)}]

\* SaveTaskLog; a row that cannot be stored is a warning only.
FinishedSaved(r, k) ==
    /\ FinishedStep(r, k, "save", "del")
    /\ \/ log' = RowsUpdated(r)
       \/ "store" \in Faults /\ UNCHANGED log
    /\ UNCHANGED <<status, told>>

\* HandlerTaskFinished deletes the status key, whatever run it names, and
\* passes the status on: "done" unless the result has an error.
FinishedHandled(r, k) ==
    /\ FinishedStep(r, k, "del", "ok")
    /\ status' = None
    /\ told' = [told EXCEPT ![r] = IF result[r] = "err" THEN "fail" ELSE "done"]
    /\ UNCHANGED log

FinishedCallFails(r, k) ==
    /\ \/ "slow" \in Faults /\ FinishedStep(r, k, "del", "fail")
       \/ {"slow", "deny"} \cap Faults # {} /\ FinishedStep(r, k, "save", "fail")
    /\ UNCHANGED <<log, status, told>>

\* The lease of the status key runs out, not before the run's own deadline.
StatusExpires ==
    /\ status # None
    /\ status \in cancelled \/ pc[status] = "gone"
    /\ status' = None
    /\ UNCHANGED <<agentVars, running, finished, log, told, lock, scheduling>>

\* A user changes the task's schedule status.
SetScheduling ==
    /\ "stop" \in Faults
    /\ scheduling' = ~scheduling
    /\ UNCHANGED <<agentVars, centerVars, lock>>

-----------------------------------------------------------------------------

Goroutine(r) ==
    \/ TurnAway(r) \/ Dispatch(r) \/ TakeLock(r) \/ LockRefused(r)
    \/ LockAbandoned(r) \/ Register(r) \/ RunningAccepted(r)
    \/ RunningRefused(r) \/ RunningRetried(r) \/ RunningFailed(r) \/ Execute(r)
    \/ NotExecuted(r) \/ CommandEnds(r) \/ FinishedRetried(r)
    \/ FinishedAnswered(r) \/ Unregister(r) \/ Leave(r)

Handler(r, k) ==
    \/ RunningRefusal(r, k) \/ RunningChecked(r, k)
    \/ RunningUnchecked(r, k) \/ RunningInserted(r, k)
    \/ RunningStored(r, k) \/ RunningDenied(r, k) \/ RunningCallFails(r, k)
    \/ FinishedSaved(r, k)
    \/ FinishedHandled(r, k) \/ FinishedCallFails(r, k)

Next ==
    \/ \E r \in Run : Goroutine(r) \/ Unlock(r) \/ LoseLock(r) \/ Timeout(r)
    \/ \E r \in Run, k \in Attempt : Handler(r, k)
    \/ \E a \in Agent : Kill(a) \/ Close(a) \/ Exit(a) \/ Crash(a)
    \/ StatusExpires
    \/ SetScheduling

Spec == Init /\ [][Next]_vars

\* The agent's goroutines run, a command ends because CancelCtx has a deadline,
\* the locking goroutine unlocks, and handlers of the center come to an end.  A
\* dead agent's goroutines are not owed anything.
Fairness ==
    /\ \A r \in Run : WF_vars(pc[r] # "new" /\ Goroutine(r)) /\ WF_vars(Unlock(r))
    /\ \A r \in Run, k \in Attempt : WF_vars(Handler(r, k))

FairSpec == Spec /\ Fairness

-----------------------------------------------------------------------------
(***************************************************************************)
(* Properties.                                                             *)
(***************************************************************************)

InForce(r) == pc[r] = "executing" /\ r \notin cancelled

\* A plan time is executed at most once: no two agents, and no repeated
\* dispatch, start the command of the same plan time, whoever dies, is killed or
\* answers late in between.
OncePerPlan ==
    Noseize \/ \A r, q \in executed : PlanOf[r] = PlanOf[q] => r = q

\* A task that seizes its lock runs on one agent at a time.
AloneInCluster == Noseize \/ \A r, q \in Run : InForce(r) /\ InForce(q) => r = q

\* While a command runs, the executing table of its agent names it: KillTask,
\* TASK_STOP, CheckRunning, Stop and the check against a second dispatch find it;
\* and the task's status key in etcd names it, unless it is being killed.
TablesTruthful ==
    \A r \in Run : /\ pc[r] = "executing" => table[AgentOf[r]] = r
                  /\ InForce(r) => status = r

\* When the agent forgets a run whose command it started, the log row is closed
\* and the outcome was passed on: the task doctor and a restarting lock rely on it.
ReportedBeforeForgotten ==
    \A r \in executed :
        pc[r] \in {"told", "leaving", "done"} =>
            log[r] = {"closed"} /\ told[r] # "none"

\* A late RUNNING report does not bring a finished run back to life, neither in
\* the log nor in the status key.
EndedStaysEnded ==
    [][\A r \in Run :
           told[r] # "none" /\ log[r] = {"closed"} =>
               log'[r] = {"closed"} /\ (status # r => status' # r)]_vars

\* A run is refused for a row of another run, never for the row its own earlier
\* attempt of the same report left behind.
NotRefusedForItself ==
    [][\A r \in Run, k \in Attempt :
           running[r][k] = "check" /\ running'[r][k] = "refused"
           /\ (r \in Active \/ scheduling) =>
               \E q \in Run \ {r} : log[q] # {} /\ PlanOf[q] = PlanOf[r]]_vars

\* The agent forgets a run in the end: its entry does not stay in the executing
\* table, where it would turn every later dispatch away.
TableCleared ==
    \A a \in Agent, r \in Run : table[a] = r ~> table[a] # r

\* The lock is given back.
LockReturned == \A r \in Run : lock = r ~> lock # r

\* Who asked for a run hears of it, unless the agent process is gone.
CallerAnswered ==
    \A r \in Run : caller[r] = "waiting" ~> caller[r] = "answered" \/ pc[r] = "gone"
=============================================================================
