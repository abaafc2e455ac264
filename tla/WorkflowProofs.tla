---------------------------- MODULE WorkflowProofs ----------------------------
(***************************************************************************)
(* Proofs about Workflow, for any workflow, any number of centers and of   *)
(* executions, any limits, and any faults.                                 *)
(***************************************************************************)
EXTENDS Workflow, TLAPS

\* What a runner can be doing with its plan mutex.
LEMMA BusyIdle == Idle \in Busy
BY DEF Idle, Busy

\* What a runner does with a task is in Busy,
LEMMA BusyTask ==
    ASSUME NEW t \in Task
    PROVE  Checking(t) \in Busy /\ Dispatching(t) \in Busy
<1>1. Checking(t) \in [job : {"check", "dispatch"}, task : Task]
  BY DEF Checking
<1>2. Dispatching(t) \in [job : {"check", "dispatch"}, task : Task]
  BY DEF Dispatching
<1>3. QED
  BY <1>1, <1>2, Zenon DEF Busy

Scans == [job : {"scan"}, suspects : SUBSET Task, lost : SUBSET Task,
          ready : SUBSET Task, verdict : Verdict]
Ends == [job : {"finish"}, step : {"plan", "states", "kill"},
         kill : SUBSET Task, err : BOOLEAN]

\* and so are the scans, which are all there is with that job,
LEMMA BusyScan ==
    /\ Scans \subseteq Busy
    /\ \A w \in Busy : w.job = "scan" => w \in Scans
<1>1. Scans \subseteq Busy
  BY Zenon DEF Scans, Busy
<1>2. ASSUME NEW w \in Busy, w.job = "scan" PROVE w \in Scans
  <2>1. CASE w \in {Idle}
    BY <1>2, <2>1 DEF Idle
  <2>2. CASE w \in [job : {"check", "dispatch"}, task : Task]
    BY <1>2, <2>2
  <2>3. CASE w \in Ends
    BY <1>2, <2>3 DEF Ends
  <2>4. QED
    BY <1>2, <2>1, <2>2, <2>3, Zenon DEF Busy, Scans, Ends
<1>3. QED
  BY <1>1, <1>2, Zenon

\* and the ends of a plan.
LEMMA BusyEnd ==
    /\ Ends \subseteq Busy
    /\ \A w \in Busy : w.job = "finish" => w \in Ends
<1>1. Ends \subseteq Busy
  BY Zenon DEF Ends, Busy
<1>2. ASSUME NEW w \in Busy, w.job = "finish" PROVE w \in Ends
  <2>1. CASE w \in {Idle}
    BY <1>2, <2>1 DEF Idle
  <2>2. CASE w \in [job : {"check", "dispatch"}, task : Task]
    BY <1>2, <2>2
  <2>3. CASE w \in Scans
    BY <1>2, <2>3 DEF Scans
  <2>4. QED
    BY <1>2, <2>1, <2>2, <2>3, Zenon DEF Busy, Scans, Ends
<1>3. QED
  BY <1>1, <1>2, Zenon

\* A fault is one of the MaxFaults.
LEMMA Spent ==
    ASSUME faults \in 0..MaxFaults, NEW f, Fault(f)
    PROVE  faults' \in 0..MaxFaults
BY WorkflowAssumption DEF Fault

\* Who takes up a job leaves the others theirs.
LEMMA DoTyped ==
    ASSUME busy \in [Center -> Busy], NEW c \in Center, NEW w \in Busy, Do(c,
           w)
    PROVE  busy' \in [Center -> Busy]
BY DEF Do

EventsTyped == events \in [Center -> [Task -> 0..MaxEvents]]

\* One more event of some tasks is at most MaxEvents of each.
LEMMA OneMoreEvent ==
    ASSUME NEW f \in [Task -> 0..MaxEvents], NEW S
    PROVE  [t \in Task |-> IF t \in S /\ f[t] < MaxEvents
                           THEN f[t] + 1 ELSE f[t]]
             \in [Task -> 0..MaxEvents]
BY WorkflowAssumption

\* A judgement is a verdict, and what is ready may be started.
LEMMA Verdicts ==
    /\ Judgement \in Verdict
    /\ \A c \in Center : ReadyNow \cup ReadySoon(c) \subseteq Startable
    /\ Startable \subseteq Task
BY DEF Judgement, Verdict, ReadyNow, ReadySoon, Startable

\* The caller of CanSchedule puts events and ends only where they belong.
LEMMA ConcludeTyped ==
    ASSUME EventsTyped, ending \in [Center -> SUBSET BOOLEAN],
           NEW c \in Center, NEW S, NEW v, Conclude(c, S, v)
    PROVE  EventsTyped' /\ ending' \in [Center -> SUBSET BOOLEAN]
<1>1. EventsTyped'
  <2> DEFINE more == [t \in Task |-> IF t \in S /\ events[c][t] < MaxEvents
                                    THEN events[c][t] + 1 ELSE events[c][t]]
  <2>1. events' = events \/ events' = [events EXCEPT ![c] = more]
    BY Zenon DEF Conclude
  <2>2. more \in [Task -> 0..MaxEvents]
    BY OneMoreEvent DEF EventsTyped
  <2> HIDE DEF more
  <2>3. QED
    BY <2>1, <2>2, Zenon DEF EventsTyped
<1>2. ending' \in [Center -> SUBSET BOOLEAN]
  <2>1. \/ ending' = ending
        \/ \E x \in BOOLEAN :
              ending' = [ending EXCEPT ![c] = ending[c] \cup {x}]
    BY Zenon DEF Conclude
  <2>2. QED
    BY <2>1
<1>3. QED
  BY <1>1, <1>2

\* A task that is started is counted, up to its limit.
LEMMA CountTyped ==
    ASSUME st \in [Task -> Status], count \in [Task -> 0..Limit],
           NEW c \in Center, NEW t \in Task, SetStarting(c, t)
    PROVE  /\ st' \in [Task -> Status]
           /\ count' \in [Task -> 0..Limit]
<1>1. st' \in [Task -> Status]
  BY DEF SetStarting, Status
<1>2. count' \in [Task -> 0..Limit]
  BY WorkflowAssumption DEF SetStarting
<1>3. QED
  BY <1>1, <1>2

\* A result keeps the statuses typed.
LEMMA ResultTyped ==
    ASSUME st \in [Task -> Status], NEW c \in Center, NEW t \in Task,
           NEW o \in {"ok", "err"}, HandleResult(c, t, o)
    PROVE  st' \in [Task -> Status]
<1>1. After(t, o) \in Status
  BY DEF After, Status
<1>2. st' = [st EXCEPT ![t] = After(t, o)]
  BY Zenon DEF HandleResult
<1>3. QED
  BY <1>1, <1>2, Zenon

\* Every variable keeps its type: etcd's plan and task states, the centers'
\* mutexes and channels, the executions of the agents.
THEOREM WorkflowTypeCorrect == Spec => []TypeOK
<1> USE WorkflowAssumption
    DEF TypeOK, PC, Status, etcdVars, centerVars, agentVars, history, leadVars,
        runnerVars, NoFault
<1>1. Init => TypeOK
  <2>1. ASSUME Init
        PROVE  /\ faults \in 0..MaxFaults /\ count \in [Task -> 0..Limit]
               /\ events \in [Center -> [Task -> 0..MaxEvents]]
    BY <2>1 DEF Init
  <2>2. ASSUME Init PROVE busy \in [Center -> Busy]
    BY <2>2, BusyIdle DEF Init
  <2>3. ASSUME Init
        PROVE  /\ st \in [Task -> Status] /\ pc \in [Run -> PC]
               /\ task \in [Run -> Task \cup {None}]
               /\ lock \in [Task -> Run \cup {None}]
               /\ inproc \in [Center -> SUBSET Task]
               /\ ending \in [Center -> SUBSET BOOLEAN]
    BY <2>3 DEF Init
  <2>4. QED
    BY <2>1, <2>2, <2>3, Zenon DEF Init
<1>2. ASSUME TypeOK, [Next]_vars PROVE TypeOK'
  <2> USE <1>2
  <2>1. ASSUME Start PROVE TypeOK'
    <3>1. faults' \in 0..MaxFaults
      BY <2>1, Spent DEF Start
    <3>2. clean' \in BOOLEAN
      BY <2>1, Zenon DEF Start, Digested
    <3>3. plan' \in BOOLEAN /\ stale' \in BOOLEAN
      BY <2>1, Zenon DEF Start, SetRunning
    <3>4. UNCHANGED <<st, count, succeeded, spoilt, centerVars, agentVars>>
      BY <2>1, Zenon DEF Start
    <3>5. QED
      BY <3>1, <3>2, <3>3, <3>4
  <2>2. ASSUME HalfPeriodPasses PROVE TypeOK'
    <3>1. faults' \in 0..MaxFaults
      BY <2>2, Spent DEF HalfPeriodPasses
    <3>2. QED
      BY <2>2, <3>1, Zenon DEF HalfPeriodPasses
  <2>3. ASSUME NeighbourEnds PROVE TypeOK'
    <3>1. faults' \in 0..MaxFaults
      BY <2>3, Spent DEF NeighbourEnds
    <3>2. succeeded' \subseteq Task /\ spoilt' \in BOOLEAN
      BY <2>3 DEF NeighbourEnds, PlanGone
    <3>3. plan' \in BOOLEAN /\ stale' \in BOOLEAN /\ clean' \in BOOLEAN
      BY <2>3 DEF NeighbourEnds, PlanGone
    <3>4. UNCHANGED <<st, count, centerVars, agentVars>>
      BY <2>3 DEF NeighbourEnds
    <3>5. QED
      BY <3>1, <3>2, <3>3, <3>4
  <2>4. ASSUME SessionEnds PROVE TypeOK'
    <3>1. faults' \in 0..MaxFaults
      BY <2>4, Spent DEF SessionEnds
    <3>2. elected' \in Center \cup {None}
      BY <2>4 DEF SessionEnds
    <3>3. QED
      BY <2>4, <3>1, <3>2, Zenon DEF SessionEnds
  <2>5. ASSUME NEW c \in Center, BecomeLeader(c) PROVE TypeOK'
    BY <2>5 DEF BecomeLeader
  <2>6. ASSUME NEW c \in Center, StepDown(c) PROVE TypeOK'
    BY <2>6 DEF StepDown
  <2>7. ASSUME NEW c \in Center, CenterCrash(c) PROVE TypeOK'
    <3>1. faults' \in 0..MaxFaults
      BY <2>7, Spent DEF CenterCrash
    <3>2. busy' \in [Center -> Busy]
      BY <2>7, DoTyped, BusyIdle DEF CenterCrash
    <3>3. events' \in [Center -> [Task -> 0..MaxEvents]]
      BY <2>7 DEF CenterCrash
    <3>4. /\ inproc' \in [Center -> SUBSET Task]
          /\ ending' \in [Center -> SUBSET BOOLEAN]
      BY <2>7 DEF CenterCrash
    <3>5. elected' \in Center \cup {None} /\ leader' \subseteq Center
      BY <2>7 DEF CenterCrash
    <3>6. QED
      BY <2>7, <3>1, <3>2, <3>3, <3>4, <3>5, Zenon DEF CenterCrash
  <2>8. ASSUME NEW c \in Center, Scan(c) PROVE TypeOK'
    <3>1. EventsTyped' /\ ending' \in [Center -> SUBSET BOOLEAN]
      BY <2>8, ConcludeTyped DEF Scan, EventsTyped
    <3>2. QED
      BY <2>8, <3>1, Zenon DEF Scan, EventsTyped
  <2>9. ASSUME NEW c \in Center, ScanSuspects(c) PROVE TypeOK'
    <3>1. PICK S \in SUBSET Task, W \in SUBSET Task :
                 Do(c, Scanning(S, {}, W, Judgement))
      BY <2>9, Verdicts DEF ScanSuspects
    <3>2. Scanning(S, {}, W, Judgement) \in Busy
      BY Verdicts, BusyScan DEF Scanning, Scans
    <3>3. busy' \in [Center -> Busy]
      BY <3>1, <3>2, DoTyped
    <3>4. QED
      BY <2>9, <3>3, Zenon DEF ScanSuspects
  <2>10. ASSUME NEW c \in Center, ScanEnds(c) PROVE TypeOK'
    <3>1. EventsTyped' /\ ending' \in [Center -> SUBSET BOOLEAN]
      BY <2>10, ConcludeTyped DEF ScanEnds, EventsTyped
    <3>2. busy' \in [Center -> Busy]
      BY <2>10, DoTyped, BusyIdle DEF ScanEnds
    <3>3. QED
      BY <2>10, <3>1, <3>2, Zenon DEF ScanEnds, EventsTyped
  <2>11. ASSUME NEW c \in Center, Kill(c) PROVE TypeOK'
    <3>1. faults' \in 0..MaxFaults
      BY <2>11, Spent DEF Kill
    <3>2. ending' \in [Center -> SUBSET BOOLEAN]
      BY <2>11 DEF Kill
    <3>3. QED
      BY <2>11, <3>1, <3>2, Zenon DEF Kill
  <2>12. ASSUME NEW c \in Center, FinishBegins(c) PROVE TypeOK'
    <3>1. PICK e \in BOOLEAN :
            /\ ending' = [ending EXCEPT ![c] = @ \ {e}]
            /\ busy' = IF plan
                       THEN [busy EXCEPT ![c] = Ending("plan",
                         {t \in Task : st[t] \in {"starting", "running"}}, e)]
                       ELSE busy
      <4>1. ending[c] \subseteq BOOLEAN
        OBVIOUS
      <4>2. QED
        BY <2>12, <4>1, Zenon DEF FinishBegins
    <3>2. ending' \in [Center -> SUBSET BOOLEAN]
      BY <3>1
    <3>3. Ending("plan", {t \in Task : st[t] \in {"starting", "running"}}, e)
            \in Busy
      BY BusyEnd DEF Ending, Ends
    <3>4. busy' \in [Center -> Busy]
      BY <3>1, <3>3, Zenon
    <3>5. QED
      BY <2>12, <3>2, <3>4, Zenon DEF FinishBegins
  <2>13. ASSUME NEW c \in Center, ClearPlan(c) PROVE TypeOK'
    <3>1. busy[c] \in Ends
      BY <2>13, BusyEnd DEF ClearPlan
    <3>2. [busy[c] EXCEPT !.step = "states"] \in Busy
      BY <3>1, BusyEnd DEF Ends
    <3>3. busy' \in [Center -> Busy]
      BY <2>13, <3>2, DoTyped DEF ClearPlan
    <3>4. QED
      BY <2>13, <3>3, Zenon DEF ClearPlan, PlanGone
  <2>14. ASSUME NEW c \in Center, ClearStates(c) PROVE TypeOK'
    <3>1. busy[c] \in Ends
      BY <2>14, BusyEnd DEF ClearStates
    <3>2. [busy[c] EXCEPT !.step = "kill"] \in Busy
      BY <3>1, BusyEnd DEF Ends
    <3>3. busy' \in [Center -> Busy]
      BY <2>14, <3>2, DoTyped, BusyIdle, Zenon DEF ClearStates
    <3>4. st' \in [Task -> Status] /\ count' \in [Task -> 0..Limit]
      BY <2>14 DEF ClearStates
    <3>5. QED
      BY <2>14, <3>3, <3>4, Zenon DEF ClearStates
  <2>15. ASSUME NEW c \in Center, KillTasks(c) PROVE TypeOK'
    <3>1. busy' \in [Center -> Busy]
      BY <2>15, DoTyped, BusyIdle DEF KillTasks
    <3>2. pc' \in [Run -> PC]
      BY <2>15 DEF KillTasks, KillRuns
    <3>3. \A q \in Run : task'[q] = None <=> pc'[q] = "free"
      BY <2>15 DEF KillTasks, KillRuns
    <3>4. QED
      BY <2>15, <3>1, <3>2, <3>3, Zenon DEF KillTasks
  <2>16. ASSUME NEW c \in Center, FinishFails(c) PROVE TypeOK'
    <3>1. faults' \in 0..MaxFaults
      BY <2>16, Spent DEF FinishFails
    <3>2. busy' \in [Center -> Busy]
      BY <2>16, DoTyped, BusyIdle DEF FinishFails
    <3>3. QED
      BY <2>16, <3>1, <3>2, Zenon DEF FinishFails
  <2>17. ASSUME NEW c \in Center, NEW t \in Task, LookAtLock(c, t)
        PROVE  TypeOK'
    <3> DEFINE found == IF lock[t] = None THEN busy[c].lost \cup {t}
                        ELSE busy[c].lost
               next == [busy[c] EXCEPT !.suspects = @ \ {t}, !.lost = found]
    <3>1. busy[c] \in Scans
      BY <2>17, BusyScan DEF LookAtLock
    <3>2. found \in SUBSET Task
      BY <3>1 DEF Scans
    <3> HIDE DEF found
    <3>3. next \in Busy
      BY <3>1, <3>2, BusyScan DEF Scans
    <3>4. Do(c, next)
      BY <2>17, Zenon DEF LookAtLock, found
    <3>5. busy' \in [Center -> Busy]
      BY <3>3, <3>4, DoTyped, Zenon
    <3>6. QED
      BY <2>17, <3>5, Zenon DEF LookAtLock
  <2>18. ASSUME NEW c \in Center, NEW t \in Task, Rescue(c, t) PROVE TypeOK'
    <3>1. busy[c] \in Scans
      BY <2>18, BusyScan DEF Rescue
    <3>2. [busy[c] EXCEPT !.lost = @ \ {t}] \in Busy
      BY <3>1, BusyScan DEF Scans
    <3>3. busy' \in [Center -> Busy]
      BY <2>18, <3>2, DoTyped, Zenon DEF Rescue
    <3>4. pc' \in [Run -> PC]
      BY <2>18 DEF Rescue, KillRuns
    <3>5. st' \in [Task -> Status]
      BY <2>18 DEF Rescue, StateNotRunning
    <3>6. \A q \in Run : task'[q] = None <=> pc'[q] = "free"
      BY <2>18 DEF Rescue, KillRuns
    <3>7. QED
      BY <2>18, <3>3, <3>4, <3>5, <3>6, Zenon DEF Rescue
  <2>19. ASSUME NEW c \in Center, NEW t \in Task, RescueSkipped(c, t)
        PROVE  TypeOK'
    <3>1. busy[c] \in Scans
      BY <2>19, BusyScan DEF RescueSkipped
    <3>2. [busy[c] EXCEPT !.lost = @ \ {t}] \in Busy
      BY <3>1, BusyScan DEF Scans
    <3>3. busy' \in [Center -> Busy]
      BY <2>19, <3>2, DoTyped, Zenon DEF RescueSkipped
    <3>4. QED
      BY <2>19, <3>3, Zenon DEF RescueSkipped
  <2>20. ASSUME NEW c \in Center, NEW t \in Task, TakeEvent(c, t)
        PROVE  TypeOK'
    BY <2>20 DEF TakeEvent
  <2>21. ASSUME NEW c \in Center, NEW t \in Task, CheckPlan(c, t)
        PROVE  TypeOK'
    <3>1. busy' \in [Center -> Busy]
      BY <2>21, DoTyped, BusyTask DEF CheckPlan
    <3>2. QED
      BY <2>21, <3>1, Zenon DEF CheckPlan
  <2>22. ASSUME NEW c \in Center, NEW t \in Task, CheckPlanFails(c, t)
        PROVE  TypeOK'
    BY <2>22 DEF CheckPlanFails, Leave
  <2>23. ASSUME NEW c \in Center, NEW t \in Task, CheckState(c, t)
        PROVE  TypeOK'
    <3>1. busy' \in [Center -> Busy]
      BY <2>23, DoTyped, BusyTask DEF CheckState
    <3>2. QED
      BY <2>23, <3>1, Zenon DEF CheckState
  <2>24. ASSUME NEW c \in Center, NEW t \in Task, CheckStateFails(c, t)
        PROVE  TypeOK'
    <3>1. busy' \in [Center -> Busy]
      BY <2>24, DoTyped, BusyIdle DEF CheckStateFails
    <3>2. inproc' \in [Center -> SUBSET Task]
      BY <2>24 DEF CheckStateFails, Leave
    <3>3. QED
      BY <2>24, <3>1, <3>2, Zenon DEF CheckStateFails
  <2>25. ASSUME NEW c \in Center, NEW t \in Task, DispatchTask(c, t)
        PROVE  TypeOK'
    <3>1. st' \in [Task -> Status] /\ count' \in [Task -> 0..Limit]
      BY <2>25, CountTyped DEF DispatchTask
    <3>2. busy' \in [Center -> Busy]
      BY <2>25, DoTyped, BusyIdle DEF DispatchTask, SetStarting
    <3>3. inproc' \in [Center -> SUBSET Task]
      BY <2>25 DEF DispatchTask, SetStarting, Leave
    <3>4. pc' \in [Run -> PC] /\ task' \in [Run -> Task \cup {None}]
      BY <2>25 DEF DispatchTask
    <3>5. \A q \in Run : task'[q] = None <=> pc'[q] = "free"
      BY <2>25 DEF DispatchTask
    <3>6. QED
      BY <2>25, <3>1, <3>2, <3>3, <3>4, <3>5, Zenon
         DEF DispatchTask, SetStarting
  <2>26. ASSUME NEW c \in Center, NEW t \in Task, DispatchFails(c, t)
        PROVE  TypeOK'
    <3>1. st' \in [Task -> Status] /\ count' \in [Task -> 0..Limit]
      BY <2>26, CountTyped DEF DispatchFails
    <3>2. busy' \in [Center -> Busy]
      BY <2>26, DoTyped, BusyIdle DEF DispatchFails, SetStarting
    <3>3. inproc' \in [Center -> SUBSET Task]
      BY <2>26 DEF DispatchFails, SetStarting, Leave
    <3>4. faults' \in 0..MaxFaults
      BY <2>26, Spent DEF DispatchFails
    <3>5. QED
      BY <2>26, <3>1, <3>2, <3>3, <3>4, Zenon DEF DispatchFails, SetStarting
  <2>27. ASSUME NEW t \in Task, LateRunning(t) PROVE TypeOK'
    BY <2>27 DEF LateRunning, StateRunning
  <2>28. ASSUME NEW c \in Center, NEW t \in Task, NEW o \in {"ok", "err"},
                LateResult(c, t, o)
        PROVE  TypeOK'
    BY <2>28 DEF LateResult, HandleResult, After
  <2>29. ASSUME NEW r \in Run, TakeLock(r) PROVE TypeOK'
    BY <2>29 DEF TakeLock, Become
  <2>30. ASSUME NEW r \in Run, LockRefused(r) PROVE TypeOK'
    BY <2>30 DEF LockRefused, Forget, Become
  <2>31. ASSUME NEW r \in Run, RunningReported(r) PROVE TypeOK'
    BY <2>31 DEF RunningReported, StateRunning, Become
  <2>32. ASSUME NEW r \in Run, RunningFails(r) PROVE TypeOK'
    BY <2>32 DEF RunningFails, Become
  <2>33. ASSUME NEW r \in Run, RunningRefused(r) PROVE TypeOK'
    <3>1. faults' \in 0..MaxFaults
      BY <2>33, Spent DEF RunningRefused
    <3>2. pc' \in [Run -> PC]
      BY <2>33 DEF RunningRefused, Become
    <3>3. late' \subseteq Task \X {"running", "ok", "err"}
      BY <2>33 DEF RunningRefused
    <3>4. \A q \in Run : task'[q] = None <=> pc'[q] = "free"
      BY <2>33 DEF RunningRefused, Become
    <3>5. QED
      BY <2>33, <3>1, <3>2, <3>3, <3>4, Zenon DEF RunningRefused
  <2>34. ASSUME NEW r \in Run, RunningGivenUp(r) PROVE TypeOK'
    <3>1. faults' \in 0..MaxFaults
      BY <2>34, Spent DEF RunningGivenUp
    <3>2. pc' \in [Run -> PC]
      BY <2>34 DEF RunningGivenUp, Become
    <3>3. late' \subseteq Task \X {"running", "ok", "err"}
      BY <2>34 DEF RunningGivenUp
    <3>4. \A q \in Run : task'[q] = None <=> pc'[q] = "free"
      BY <2>34 DEF RunningGivenUp, Become
    <3>5. QED
      BY <2>34, <3>1, <3>2, <3>3, <3>4, Zenon DEF RunningGivenUp
  <2>35. ASSUME NEW r \in Run, CommandEnds(r) PROVE TypeOK'
    BY <2>35 DEF CommandEnds, Become
  <2>36. ASSUME NEW r \in Run, ResultGivenUp(r) PROVE TypeOK'
    <3>1. faults' \in 0..MaxFaults
      BY <2>36, Spent DEF ResultGivenUp
    <3>2. pc' \in [Run -> PC]
      BY <2>36 DEF ResultGivenUp, Become
    <3>3. task[r] \in Task
      BY <2>36 DEF ResultGivenUp
    <3>4. late' \subseteq Task \X {"running", "ok", "err"}
      BY <2>36, <3>3 DEF ResultGivenUp
    <3>5. \A q \in Run : task'[q] = None <=> pc'[q] = "free"
      BY <2>36 DEF ResultGivenUp, Become
    <3>6. QED
      BY <2>36, <3>1, <3>2, <3>4, <3>5, Zenon DEF ResultGivenUp
  <2>37. ASSUME NEW r \in Run, Release(r) PROVE TypeOK'
    BY <2>37 DEF Release, Unlock, Forget, Become
  <2>38. ASSUME NEW r \in Run, AgentCrash(r) PROVE TypeOK'
    <3>1. faults' \in 0..MaxFaults
      BY <2>38, Spent DEF AgentCrash
    <3>2. pc' \in [Run -> PC] /\ task' \in [Run -> Task \cup {None}]
      BY <2>38 DEF AgentCrash, Forget, Become
    <3>3. lock' \in [Task -> Run \cup {None}]
      BY <2>38 DEF AgentCrash, Unlock
    <3>4. \A q \in Run : task'[q] = None <=> pc'[q] = "free"
      BY <2>38 DEF AgentCrash, Forget, Become
    <3>5. QED
      BY <2>38, <3>1, <3>2, <3>3, <3>4, Zenon DEF AgentCrash
  <2>39. ASSUME NEW c \in Center, NEW r \in Run, ResultReported(c, r)
        PROVE  TypeOK'
    <3>1. pc' \in [Run -> PC]
      BY <2>39 DEF ResultReported, Become
    <3>2. st' \in [Task -> Status]
      BY <2>39, ResultTyped DEF ResultReported
    <3>3. succeeded' \subseteq Task
      BY <2>39 DEF ResultReported, HandleResult
    <3>4. ending' \in [Center -> SUBSET BOOLEAN]
      BY <2>39 DEF ResultReported, HandleResult
    <3>5. \A q \in Run : task'[q] = None <=> pc'[q] = "free"
      BY <2>39 DEF ResultReported, HandleResult, Become
    <3>6. QED
      BY <2>39, <3>1, <3>2, <3>3, <3>4, <3>5, Zenon
         DEF ResultReported, HandleResult
  <2>40. CASE UNCHANGED vars
    BY <2>40 DEF vars
  <2> HIDE DEF TypeOK, PC, Status, etcdVars, centerVars, agentVars, history,
              leadVars, runnerVars, NoFault
  <2>41. QED
    BY <2>1, <2>2, <2>3, <2>4, <2>5, <2>6, <2>7, <2>8, <2>9, <2>10, <2>11,
       <2>12, <2>13, <2>14, <2>15, <2>16, <2>17, <2>18, <2>19, <2>20,
       <2>21, <2>22, <2>23, <2>24, <2>25, <2>26, <2>27, <2>28, <2>29,
       <2>30, <2>31, <2>32, <2>33, <2>34, <2>35, <2>36, <2>37, <2>38,
       <2>39, <2>40 DEF Next
<1>3. QED
  BY <1>1, <1>2, PTL DEF Spec

\* Whoever is between the two deletes stays there, unless its own step ends it.
LEMMA OthersStay ==
    ASSUME busy \in [Center -> Busy], NEW c \in Center, NEW w, Do(c, w),
           ~HalfCleared(c)
    PROVE  \A d \in Center : HalfCleared(d) => HalfCleared(d)'
BY DEF Do, HalfCleared

\* A step that leaves no task behind keeps NoLeftovers.
LEMMA NothingNewLeft ==
    ASSUME NoLeftovers, plan' = plan \/ plan', spoilt => spoilt',
           \A t \in Task : st'[t] # "absent"
                           => st[t] # "absent" \/ spoilt' \/ plan',
           \A d \in Center : HalfCleared(d) => HalfCleared(d)' \/ spoilt'
    PROVE  NoLeftovers'
BY DEF NoLeftovers

\* Task states outlive their plan only for one of the named reasons
\* (clearWorkflowKeys, setWorkflowTaskStarting), with any number of centers.
THEOREM LeftoversHaveAReason == Spec => []NoLeftovers
<1> USE WorkflowAssumption
    DEF etcdVars, centerVars, agentVars, history, leadVars, runnerVars, NoFault
<1>1. Init => NoLeftovers
  BY DEF Init, NoLeftovers
<1>2. ASSUME NoLeftovers, TypeOK, [Next]_vars PROVE NoLeftovers'
  <2> USE <1>2
  <2>t. busy \in [Center -> Busy] /\ st \in [Task -> Status]
    BY DEF TypeOK
  <2>1. ASSUME Start PROVE NoLeftovers'
    BY <2>1, NothingNewLeft, Zenon DEF Start, SetRunning, HalfCleared
  <2>2. ASSUME HalfPeriodPasses PROVE NoLeftovers'
    BY <2>2, NothingNewLeft, Zenon DEF HalfPeriodPasses, HalfCleared
  <2>3. ASSUME NeighbourEnds PROVE NoLeftovers'
    BY <2>3, Zenon DEF NeighbourEnds, NoLeftovers
  <2>4. ASSUME SessionEnds PROVE NoLeftovers'
    BY <2>4, NothingNewLeft, Zenon DEF SessionEnds, HalfCleared
  <2>5. ASSUME NEW c \in Center, BecomeLeader(c) PROVE NoLeftovers'
    BY <2>5, NothingNewLeft, Zenon DEF BecomeLeader, HalfCleared
  <2>6. ASSUME NEW c \in Center, StepDown(c) PROVE NoLeftovers'
    BY <2>6, NothingNewLeft, Zenon DEF StepDown, HalfCleared
  <2>7. ASSUME NEW c \in Center, CenterCrash(c) PROVE NoLeftovers'
    <3>1. \A d \in Center : HalfCleared(d) => HalfCleared(d)' \/ spoilt'
      BY <2>7, <2>t DEF CenterCrash, HalfCleared, Do
    <3>2. QED
      BY <2>7, <3>1, NothingNewLeft, Zenon DEF CenterCrash
  <2>8. ASSUME NEW c \in Center, Scan(c) PROVE NoLeftovers'
    BY <2>8, NothingNewLeft, Zenon DEF Scan, HalfCleared
  <2>9. ASSUME NEW c \in Center, ScanSuspects(c) PROVE NoLeftovers'
    <3>1. ~HalfCleared(c)
      BY <2>9 DEF ScanSuspects, HalfCleared, Idle
    <3>2. \A d \in Center : HalfCleared(d) => HalfCleared(d)'
      BY <2>9, <2>t, <3>1, OthersStay, Zenon DEF ScanSuspects
    <3>3. QED
      BY <2>9, <3>2, NothingNewLeft, Zenon DEF ScanSuspects
  <2>10. ASSUME NEW c \in Center, ScanEnds(c) PROVE NoLeftovers'
    <3>1. ~HalfCleared(c)
      BY <2>10 DEF ScanEnds, HalfCleared
    <3>2. \A d \in Center : HalfCleared(d) => HalfCleared(d)'
      BY <2>10, <2>t, <3>1, OthersStay, Zenon DEF ScanEnds
    <3>3. QED
      BY <2>10, <3>2, NothingNewLeft, Zenon DEF ScanEnds
  <2>11. ASSUME NEW c \in Center, Kill(c) PROVE NoLeftovers'
    BY <2>11, NothingNewLeft, Zenon DEF Kill, HalfCleared
  <2>12. ASSUME NEW c \in Center, FinishBegins(c) PROVE NoLeftovers'
    <3>1. \A d \in Center : HalfCleared(d) => HalfCleared(d)'
      BY <2>12, <2>t DEF FinishBegins, HalfCleared, Idle
    <3>2. QED
      BY <2>12, <3>1, NothingNewLeft, Zenon DEF FinishBegins
  <2>13. ASSUME NEW c \in Center, ClearPlan(c) PROVE NoLeftovers'
    <3>1. HalfCleared(c)'
      BY <2>13, <2>t DEF ClearPlan, HalfCleared, Do
    <3>2. QED
      BY <3>1, Zenon DEF NoLeftovers
  <2>14. ASSUME NEW c \in Center, ClearStates(c) PROVE NoLeftovers'
    <3>1. \A t \in Task : st'[t] = "absent"
      BY <2>14 DEF ClearStates
    <3>2. QED
      BY <3>1, Zenon DEF NoLeftovers
  <2>15. ASSUME NEW c \in Center, KillTasks(c) PROVE NoLeftovers'
    <3>1. ~HalfCleared(c)
      BY <2>15 DEF KillTasks, HalfCleared
    <3>2. \A d \in Center : HalfCleared(d) => HalfCleared(d)'
      BY <2>15, <2>t, <3>1, OthersStay, Zenon DEF KillTasks
    <3>3. QED
      BY <2>15, <3>2, NothingNewLeft, Zenon DEF KillTasks
  <2>16. ASSUME NEW c \in Center, FinishFails(c) PROVE NoLeftovers'
    <3>1. \A d \in Center : HalfCleared(d) => HalfCleared(d)' \/ spoilt'
      BY <2>16, <2>t DEF FinishFails, HalfCleared, Do
    <3>2. QED
      BY <2>16, <3>1, NothingNewLeft, Zenon DEF FinishFails
  <2>17. ASSUME NEW c \in Center, NEW t \in Task, LookAtLock(c, t)
        PROVE  NoLeftovers'
    <3>1. ~HalfCleared(c)
      BY <2>17 DEF LookAtLock, HalfCleared
    <3>2. \A d \in Center : HalfCleared(d) => HalfCleared(d)'
      BY <2>17, <2>t, <3>1, OthersStay, Zenon DEF LookAtLock
    <3>3. QED
      BY <2>17, <3>2, NothingNewLeft, Zenon DEF LookAtLock
  <2>18. ASSUME NEW c \in Center, NEW t \in Task, Rescue(c, t)
        PROVE  NoLeftovers'
    <3>1. ~HalfCleared(c)
      BY <2>18 DEF Rescue, HalfCleared
    <3>2. \A d \in Center : HalfCleared(d) => HalfCleared(d)'
      BY <2>18, <2>t, <3>1, OthersStay, Zenon DEF Rescue
    <3>3. \A q \in Task : st'[q] # "absent" => st[q] # "absent"
      BY <2>18, <2>t DEF Rescue, StateNotRunning
    <3>4. QED
      BY <2>18, <3>2, <3>3, NothingNewLeft, Zenon DEF Rescue
  <2>19. ASSUME NEW c \in Center, NEW t \in Task, RescueSkipped(c, t)
        PROVE  NoLeftovers'
    <3>1. ~HalfCleared(c)
      BY <2>19 DEF RescueSkipped, HalfCleared
    <3>2. \A d \in Center : HalfCleared(d) => HalfCleared(d)'
      BY <2>19, <2>t, <3>1, OthersStay, Zenon DEF RescueSkipped
    <3>3. QED
      BY <2>19, <3>2, NothingNewLeft, Zenon DEF RescueSkipped
  <2>20. ASSUME NEW c \in Center, NEW t \in Task, TakeEvent(c, t)
        PROVE  NoLeftovers'
    BY <2>20, NothingNewLeft, Zenon DEF TakeEvent, HalfCleared
  <2>21. ASSUME NEW c \in Center, NEW t \in Task, CheckPlan(c, t)
        PROVE  NoLeftovers'
    <3>1. ~HalfCleared(c)
      BY <2>21 DEF CheckPlan, HalfCleared, Idle
    <3>2. \A d \in Center : HalfCleared(d) => HalfCleared(d)'
      BY <2>21, <2>t, <3>1, OthersStay, Zenon DEF CheckPlan
    <3>3. QED
      BY <2>21, <3>2, NothingNewLeft, Zenon DEF CheckPlan
  <2>22. ASSUME NEW c \in Center, NEW t \in Task, CheckPlanFails(c, t)
        PROVE  NoLeftovers'
    BY <2>22, NothingNewLeft, Zenon DEF CheckPlanFails, HalfCleared
  <2>23. ASSUME NEW c \in Center, NEW t \in Task, CheckState(c, t)
        PROVE  NoLeftovers'
    <3>1. ~HalfCleared(c)
      BY <2>23 DEF CheckState, HalfCleared, Checking
    <3>2. \A d \in Center : HalfCleared(d) => HalfCleared(d)'
      BY <2>23, <2>t, <3>1, OthersStay, Zenon DEF CheckState
    <3>3. QED
      BY <2>23, <3>2, NothingNewLeft, Zenon DEF CheckState
  <2>24. ASSUME NEW c \in Center, NEW t \in Task, CheckStateFails(c, t)
        PROVE  NoLeftovers'
    <3>1. ~HalfCleared(c)
      BY <2>24 DEF CheckStateFails, HalfCleared, Checking
    <3>2. \A d \in Center : HalfCleared(d) => HalfCleared(d)'
      BY <2>24, <2>t, <3>1, OthersStay, Zenon DEF CheckStateFails
    <3>3. QED
      BY <2>24, <3>2, NothingNewLeft, Zenon DEF CheckStateFails
  <2>25. ASSUME NEW c \in Center, NEW t \in Task, DispatchTask(c, t)
        PROVE  NoLeftovers'
    <3>1. ~HalfCleared(c)
      BY <2>25 DEF DispatchTask, SetStarting, HalfCleared, Dispatching
    <3>2. \A d \in Center : HalfCleared(d) => HalfCleared(d)'
      BY <2>25, <2>t, <3>1, OthersStay, Zenon DEF DispatchTask, SetStarting
    <3>3. QED
      BY <2>25, <3>2, NothingNewLeft, Zenon DEF DispatchTask, SetStarting
  <2>26. ASSUME NEW c \in Center, NEW t \in Task, DispatchFails(c, t)
        PROVE  NoLeftovers'
    <3>1. ~HalfCleared(c)
      BY <2>26 DEF DispatchFails, SetStarting, HalfCleared, Dispatching
    <3>2. \A d \in Center : HalfCleared(d) => HalfCleared(d)'
      BY <2>26, <2>t, <3>1, OthersStay, Zenon DEF DispatchFails, SetStarting
    <3>3. QED
      BY <2>26, <3>2, NothingNewLeft, Zenon DEF DispatchFails, SetStarting
  <2>27. ASSUME NEW t \in Task, LateRunning(t) PROVE NoLeftovers'
    <3>1. \A q \in Task : st'[q] # "absent" => st[q] # "absent"
      BY <2>27, <2>t DEF LateRunning, StateRunning
    <3>2. QED
      BY <2>27, <3>1, NothingNewLeft, Zenon DEF LateRunning, HalfCleared
  <2>28. ASSUME NEW c \in Center, NEW t \in Task, NEW o \in {"ok", "err"},
                LateResult(c, t, o)
        PROVE  NoLeftovers'
    <3>1. \A q \in Task : st'[q] # "absent" => st[q] # "absent"
      BY <2>28, <2>t DEF LateResult, HandleResult, After
    <3>2. QED
      BY <2>28, <3>1, NothingNewLeft, Zenon
         DEF LateResult, HalfCleared, HandleResult
  <2>29. ASSUME NEW r \in Run, TakeLock(r) PROVE NoLeftovers'
    BY <2>29, NothingNewLeft, Zenon DEF TakeLock, HalfCleared
  <2>30. ASSUME NEW r \in Run, LockRefused(r) PROVE NoLeftovers'
    BY <2>30, NothingNewLeft, Zenon DEF LockRefused, HalfCleared
  <2>31. ASSUME NEW r \in Run, RunningReported(r) PROVE NoLeftovers'
    <3>1. \A q \in Task : st'[q] # "absent" => st[q] # "absent"
      BY <2>31, <2>t DEF RunningReported, StateRunning
    <3>2. QED
      BY <2>31, <3>1, NothingNewLeft, Zenon DEF RunningReported, HalfCleared
  <2>32. ASSUME NEW r \in Run, RunningFails(r) PROVE NoLeftovers'
    BY <2>32, NothingNewLeft, Zenon DEF RunningFails, HalfCleared
  <2>33. ASSUME NEW r \in Run, RunningRefused(r) PROVE NoLeftovers'
    BY <2>33, NothingNewLeft, Zenon DEF RunningRefused, HalfCleared
  <2>34. ASSUME NEW r \in Run, RunningGivenUp(r) PROVE NoLeftovers'
    BY <2>34, NothingNewLeft, Zenon DEF RunningGivenUp, HalfCleared
  <2>35. ASSUME NEW r \in Run, CommandEnds(r) PROVE NoLeftovers'
    BY <2>35, NothingNewLeft, Zenon DEF CommandEnds, HalfCleared
  <2>36. ASSUME NEW r \in Run, ResultGivenUp(r) PROVE NoLeftovers'
    BY <2>36, NothingNewLeft, Zenon DEF ResultGivenUp, HalfCleared
  <2>37. ASSUME NEW r \in Run, Release(r) PROVE NoLeftovers'
    BY <2>37, NothingNewLeft, Zenon DEF Release, HalfCleared
  <2>38. ASSUME NEW r \in Run, AgentCrash(r) PROVE NoLeftovers'
    BY <2>38, NothingNewLeft, Zenon DEF AgentCrash, HalfCleared
  <2>39. ASSUME NEW c \in Center, NEW r \in Run, ResultReported(c, r)
        PROVE  NoLeftovers'
    <3>1. \A q \in Task : st'[q] # "absent" => st[q] # "absent"
      BY <2>39, <2>t DEF ResultReported, HandleResult, After
    <3>2. QED
      BY <2>39, <3>1, NothingNewLeft, Zenon
         DEF ResultReported, HalfCleared, HandleResult
  <2>40. CASE UNCHANGED vars
    BY <2>40 DEF vars, NoLeftovers, HalfCleared
  <2>41. QED
    BY <2>1, <2>2, <2>3, <2>4, <2>5, <2>6, <2>7, <2>8, <2>9, <2>10, <2>11,
       <2>12, <2>13, <2>14, <2>15, <2>16, <2>17, <2>18, <2>19, <2>20,
       <2>21, <2>22, <2>23, <2>24, <2>25, <2>26, <2>27, <2>28, <2>29,
       <2>30, <2>31, <2>32, <2>33, <2>34, <2>35, <2>36, <2>37, <2>38,
       <2>39, <2>40 DEF Next
<1>3. QED
  BY <1>1, <1>2, WorkflowTypeCorrect, PTL DEF Spec

\* What a runner does with the mutex after it has seen that the plan runs.
Trying == {"check", "dispatch"}
Checked == \A c \in Center : busy[c].job \in Trying => plan \/ spoilt

\* A step that begins no attempt without a plan keeps Checked.
LEMMA StillChecked ==
    ASSUME Checked, plan => plan' \/ spoilt', spoilt => spoilt',
           \A d \in Center : busy'[d].job \in Trying
                               => busy[d].job \in Trying \/ plan'
    PROVE  Checked'
BY Zenon DEF Checked

\* Only who takes up a new job begins an attempt.
LEMMA OthersTry ==
    ASSUME busy \in [Center -> Busy], NEW c \in Center, NEW w, Do(c, w),
           w.job \notin Trying \/ busy[c].job \in Trying \/ plan'
    PROVE  \A d \in Center : busy'[d].job \in Trying
                               => busy[d].job \in Trying \/ plan'
<1>1. busy' = [busy EXCEPT ![c] = w]
  BY Zenon DEF Do
<1>2. \A d \in Center : busy'[d] = IF d = c THEN w ELSE busy[d]
  BY <1>1
<1>3. QED
  BY <1>2, Zenon

\* With one center, scheduleTask dispatches for a plan that still runs: only
\* the holder of the mutex can end the plan, and it is the one dispatching.
THEOREM DispatchesInPlan ==
    ASSUME \A c, d \in Center : c = d
    PROVE  Spec => []DispatchInPlan
<1> USE WorkflowAssumption
    DEF etcdVars, centerVars, agentVars, history, leadVars, runnerVars, NoFault
<1>1. Init => Checked
  BY DEF Init, Checked, Trying, Idle
<1>2. ASSUME Checked, TypeOK, [Next]_vars PROVE Checked'
  <2> USE <1>2
  <2>t. busy \in [Center -> Busy]
    BY DEF TypeOK
  <2>1. ASSUME Start PROVE Checked'
    BY <2>1, StillChecked, Zenon DEF Start, SetRunning
  <2>2. ASSUME HalfPeriodPasses PROVE Checked'
    BY <2>2, StillChecked, Zenon DEF HalfPeriodPasses
  <2>3. ASSUME NeighbourEnds PROVE Checked'
    BY <2>3, Zenon DEF NeighbourEnds, Checked
  <2>4. ASSUME SessionEnds PROVE Checked'
    BY <2>4, StillChecked, Zenon DEF SessionEnds
  <2>5. ASSUME NEW c \in Center, BecomeLeader(c) PROVE Checked'
    BY <2>5, StillChecked, Zenon DEF BecomeLeader
  <2>6. ASSUME NEW c \in Center, StepDown(c) PROVE Checked'
    BY <2>6, StillChecked, Zenon DEF StepDown
  <2>7. ASSUME NEW c \in Center, CenterCrash(c) PROVE Checked'
    <3>1. Idle.job \notin Trying
      BY DEF Idle, Trying
    <3>2. Do(c, Idle)
      BY <2>7, Zenon DEF CenterCrash
    <3>3. QED
      BY <2>7, <2>t, <3>1, <3>2, OthersTry, StillChecked, Zenon DEF CenterCrash
  <2>8. ASSUME NEW c \in Center, Scan(c) PROVE Checked'
    BY <2>8, StillChecked, Zenon DEF Scan
  <2>9. ASSUME NEW c \in Center, ScanSuspects(c) PROVE Checked'
    <3>1. PICK w : Do(c, w) /\ w.job = "scan"
      BY <2>9 DEF ScanSuspects, Scanning
    <3>2. w.job \notin Trying
      BY <3>1 DEF Trying
    <3>3. QED
      BY <2>9, <2>t, <3>1, <3>2, OthersTry, StillChecked, Zenon
         DEF ScanSuspects
  <2>10. ASSUME NEW c \in Center, ScanEnds(c) PROVE Checked'
    <3>1. Idle.job \notin Trying
      BY DEF Idle, Trying
    <3>2. Do(c, Idle)
      BY <2>10, Zenon DEF ScanEnds
    <3>3. QED
      BY <2>10, <2>t, <3>1, <3>2, OthersTry, StillChecked, Zenon DEF ScanEnds
  <2>11. ASSUME NEW c \in Center, Kill(c) PROVE Checked'
    BY <2>11, StillChecked, Zenon DEF Kill
  <2>12. ASSUME NEW c \in Center, FinishBegins(c) PROVE Checked'
    <3>1. \A d \in Center : busy'[d].job \in Trying
                               => busy[d].job \in Trying
      BY <2>12, <2>t DEF FinishBegins, Ending, Trying
    <3>2. QED
      BY <2>12, <3>1, StillChecked, Zenon DEF FinishBegins
  <2>13. ASSUME NEW c \in Center, ClearPlan(c) PROVE Checked'
    <3>1. busy[c] \in Ends
      BY <2>13, <2>t, BusyEnd DEF ClearPlan
    <3>2. busy'[c].job \notin Trying
      BY <2>13, <2>t, <3>1 DEF ClearPlan, Do, Ends, Trying
    <3>3. \A d \in Center : d = c
      OBVIOUS
    <3>4. QED
      BY <3>2, <3>3, Zenon DEF Checked
  <2>14. ASSUME NEW c \in Center, ClearStates(c) PROVE Checked'
    <3> DEFINE w == IF busy[c].err THEN [busy[c] EXCEPT !.step = "kill"]
                   ELSE Idle
    <3>1. busy[c] \in Ends
      BY <2>14, <2>t, BusyEnd DEF ClearStates
    <3>2. w.job \notin Trying
      BY <3>1 DEF Ends, Trying, Idle
    <3>3. Do(c, w)
      BY <2>14, Zenon DEF ClearStates
    <3> HIDE DEF w
    <3>4. QED
      BY <2>14, <2>t, <3>2, <3>3, OthersTry, StillChecked, Zenon
         DEF ClearStates
  <2>15. ASSUME NEW c \in Center, KillTasks(c) PROVE Checked'
    <3>1. Idle.job \notin Trying
      BY DEF Idle, Trying
    <3>2. Do(c, Idle)
      BY <2>15, Zenon DEF KillTasks
    <3>3. QED
      BY <2>15, <2>t, <3>1, <3>2, OthersTry, StillChecked, Zenon DEF KillTasks
  <2>16. ASSUME NEW c \in Center, FinishFails(c) PROVE Checked'
    <3>1. Idle.job \notin Trying
      BY DEF Idle, Trying
    <3>2. Do(c, Idle)
      BY <2>16, Zenon DEF FinishFails
    <3>3. QED
      BY <2>16, <2>t, <3>1, <3>2, OthersTry, StillChecked, Zenon
         DEF FinishFails
  <2>17. ASSUME NEW c \in Center, NEW t \in Task, LookAtLock(c, t)
        PROVE  Checked'
    <3> DEFINE w == [busy[c] EXCEPT !.suspects = @ \ {t},
               !.lost = IF lock[t] = None THEN @ \cup {t} ELSE @]
    <3>1. busy[c] \in Scans
      BY <2>17, <2>t, BusyScan DEF LookAtLock
    <3>2. w.job \notin Trying
      BY <3>1 DEF Scans, Trying
    <3>3. Do(c, w)
      BY <2>17, Zenon DEF LookAtLock
    <3> HIDE DEF w
    <3>4. QED
      BY <2>17, <2>t, <3>2, <3>3, OthersTry, StillChecked, Zenon DEF LookAtLock
  <2>18. ASSUME NEW c \in Center, NEW t \in Task, Rescue(c, t) PROVE Checked'
    <3> DEFINE w == [busy[c] EXCEPT !.lost = @ \ {t}]
    <3>1. busy[c] \in Scans
      BY <2>18, <2>t, BusyScan DEF Rescue
    <3>2. w.job \notin Trying
      BY <3>1 DEF Scans, Trying
    <3>3. Do(c, w)
      BY <2>18, Zenon DEF Rescue
    <3> HIDE DEF w
    <3>4. QED
      BY <2>18, <2>t, <3>2, <3>3, OthersTry, StillChecked, Zenon DEF Rescue
  <2>19. ASSUME NEW c \in Center, NEW t \in Task, RescueSkipped(c, t)
        PROVE  Checked'
    <3> DEFINE w == [busy[c] EXCEPT !.lost = @ \ {t}]
    <3>1. busy[c] \in Scans
      BY <2>19, <2>t, BusyScan DEF RescueSkipped
    <3>2. w.job \notin Trying
      BY <3>1 DEF Scans, Trying
    <3>3. Do(c, w)
      BY <2>19, Zenon DEF RescueSkipped
    <3> HIDE DEF w
    <3>4. QED
      BY <2>19, <2>t, <3>2, <3>3, OthersTry, StillChecked, Zenon
         DEF RescueSkipped
  <2>20. ASSUME NEW c \in Center, NEW t \in Task, TakeEvent(c, t)
        PROVE  Checked'
    BY <2>20, StillChecked, Zenon DEF TakeEvent
  <2>21. ASSUME NEW c \in Center, NEW t \in Task, CheckPlan(c, t)
        PROVE  Checked'
    <3>1. Do(c, Checking(t)) /\ plan'
      BY <2>21 DEF CheckPlan, IsRunning
    <3>2. QED
      BY <2>21, <2>t, <3>1, OthersTry, StillChecked, Zenon DEF CheckPlan
  <2>22. ASSUME NEW c \in Center, NEW t \in Task, CheckPlanFails(c, t)
        PROVE  Checked'
    BY <2>22, StillChecked, Zenon DEF CheckPlanFails
  <2>23. ASSUME NEW c \in Center, NEW t \in Task, CheckState(c, t)
        PROVE  Checked'
    <3>1. busy[c].job \in Trying
      BY <2>23 DEF CheckState, Checking, Trying
    <3>2. QED
      BY <2>23, <2>t, <3>1, OthersTry, StillChecked, Zenon DEF CheckState
  <2>24. ASSUME NEW c \in Center, NEW t \in Task, CheckStateFails(c, t)
        PROVE  Checked'
    <3>1. Idle.job \notin Trying
      BY DEF Idle, Trying
    <3>2. Do(c, Idle)
      BY <2>24, Zenon DEF CheckStateFails
    <3>3. QED
      BY <2>24, <2>t, <3>1, <3>2, OthersTry, StillChecked, Zenon
         DEF CheckStateFails
  <2>25. ASSUME NEW c \in Center, NEW t \in Task, DispatchTask(c, t)
        PROVE  Checked'
    <3>1. Idle.job \notin Trying
      BY DEF Idle, Trying
    <3>2. Do(c, Idle)
      BY <2>25, Zenon DEF DispatchTask, SetStarting
    <3>3. QED
      BY <2>25, <2>t, <3>1, <3>2, OthersTry, StillChecked, Zenon
         DEF DispatchTask, SetStarting
  <2>26. ASSUME NEW c \in Center, NEW t \in Task, DispatchFails(c, t)
        PROVE  Checked'
    <3>1. Idle.job \notin Trying
      BY DEF Idle, Trying
    <3>2. Do(c, Idle)
      BY <2>26, Zenon DEF DispatchFails, SetStarting
    <3>3. QED
      BY <2>26, <2>t, <3>1, <3>2, OthersTry, StillChecked, Zenon
         DEF DispatchFails, SetStarting
  <2>27. ASSUME NEW t \in Task, LateRunning(t) PROVE Checked'
    BY <2>27, StillChecked, Zenon DEF LateRunning
  <2>28. ASSUME NEW c \in Center, NEW t \in Task, NEW o \in {"ok", "err"},
                LateResult(c, t, o)
        PROVE  Checked'
    BY <2>28, StillChecked, Zenon DEF LateResult, HandleResult
  <2>29. ASSUME NEW r \in Run, TakeLock(r) PROVE Checked'
    BY <2>29, StillChecked, Zenon DEF TakeLock
  <2>30. ASSUME NEW r \in Run, LockRefused(r) PROVE Checked'
    BY <2>30, StillChecked, Zenon DEF LockRefused
  <2>31. ASSUME NEW r \in Run, RunningReported(r) PROVE Checked'
    BY <2>31, StillChecked, Zenon DEF RunningReported
  <2>32. ASSUME NEW r \in Run, RunningFails(r) PROVE Checked'
    BY <2>32, StillChecked, Zenon DEF RunningFails
  <2>33. ASSUME NEW r \in Run, RunningRefused(r) PROVE Checked'
    BY <2>33, StillChecked, Zenon DEF RunningRefused
  <2>34. ASSUME NEW r \in Run, RunningGivenUp(r) PROVE Checked'
    BY <2>34, StillChecked, Zenon DEF RunningGivenUp
  <2>35. ASSUME NEW r \in Run, CommandEnds(r) PROVE Checked'
    BY <2>35, StillChecked, Zenon DEF CommandEnds
  <2>36. ASSUME NEW r \in Run, ResultGivenUp(r) PROVE Checked'
    BY <2>36, StillChecked, Zenon DEF ResultGivenUp
  <2>37. ASSUME NEW r \in Run, Release(r) PROVE Checked'
    BY <2>37, StillChecked, Zenon DEF Release
  <2>38. ASSUME NEW r \in Run, AgentCrash(r) PROVE Checked'
    BY <2>38, StillChecked, Zenon DEF AgentCrash
  <2>39. ASSUME NEW c \in Center, NEW r \in Run, ResultReported(c, r)
        PROVE  Checked'
    BY <2>39, StillChecked, Zenon DEF ResultReported, HandleResult
  <2>40. CASE UNCHANGED vars
    BY <2>40 DEF vars, Checked
  <2>41. QED
    BY <2>1, <2>2, <2>3, <2>4, <2>5, <2>6, <2>7, <2>8, <2>9, <2>10, <2>11,
       <2>12, <2>13, <2>14, <2>15, <2>16, <2>17, <2>18, <2>19, <2>20,
       <2>21, <2>22, <2>23, <2>24, <2>25, <2>26, <2>27, <2>28, <2>29,
       <2>30, <2>31, <2>32, <2>33, <2>34, <2>35, <2>36, <2>37, <2>38,
       <2>39, <2>40 DEF Next
<1>3. Checked => DispatchInPlan
  BY DEF Checked, DispatchInPlan, Trying
<1>4. QED
  BY <1>1, <1>2, <1>3, WorkflowTypeCorrect, PTL DEF Spec
=============================================================================
