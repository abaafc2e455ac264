--------------------------- MODULE TaskRunProofs ---------------------------
(***************************************************************************)
(* Proofs about TaskRun, for any number of runs, agents and attempts.      *)
(***************************************************************************)
EXTENDS TaskRun, TLAPS

\* Replacing the rows of one run keeps the type of the log.
LEMMA RowsTyped ==
    ASSUME log \in [Run -> SUBSET {"open", "closed"}], NEW r \in Run,
           NEW S \in SUBSET {"open", "closed"},
           log' = log \/ log' = [log EXCEPT ![r] = S]
    PROVE  log' \in [Run -> SUBSET {"open", "closed"}]
<1>1. CASE log' = log
  BY <1>1
<1>2. CASE log' = [log EXCEPT ![r] = S]
  BY <1>2
<1>3. QED
  BY <1>1, <1>2

\* Every variable keeps its type: a run is at a known place of TryStartTask, the
\* table names runs, no report is tried more often than retry.Attempts says.
THEOREM TypeCorrect == Spec => []TypeOK
<1> USE DEF TypeOK, PC, Attempt, agentVars, centerVars
<1>1. Init => TypeOK
  BY RunAssumption DEF Init
<1>2. ASSUME TypeOK, [Next]_vars PROVE TypeOK'
  <2> USE <1>2
  <2>1. ASSUME NEW r \in Run, TurnAway(r) PROVE TypeOK'
    BY <2>1, RunAssumption DEF TurnAway, Answer, Goto
  <2>2. ASSUME NEW r \in Run, Dispatch(r) PROVE TypeOK'
    BY <2>2, RunAssumption DEF Dispatch, Goto
  <2>3. ASSUME NEW r \in Run, TakeLock(r) PROVE TypeOK'
    BY <2>3, RunAssumption DEF TakeLock, Goto
  <2>4. ASSUME NEW r \in Run, LockRefused(r) PROVE TypeOK'
    BY <2>4, RunAssumption DEF LockRefused, Goto, Answer, Cancel
  <2>5. ASSUME NEW r \in Run, LockAbandoned(r) PROVE TypeOK'
    BY <2>5, RunAssumption DEF LockAbandoned, Goto, Cancel
  <2>6. ASSUME NEW r \in Run, Register(r) PROVE TypeOK'
    <3>1. 1 \in 0..Attempts
      BY RunAssumption
    <3>2. call' \in [Run -> 0..Attempts]
      BY <2>6, <3>1 DEF Register, SendRunning
    <3>3. running' \in [Run -> [Attempt -> {"idle", "check", "insert", "put", "ok",
                                            "refused", "denied", "fail"}]]
      BY <2>6 DEF Register, SendRunning
    <3>4. pc' \in [Run -> PC] /\ table' \in [Agent -> Run \cup {None}]
      BY <2>6, RunAssumption DEF Register, Goto
    <3> QED
      BY <2>6, <3>2, <3>3, <3>4 DEF Register
  <2>7. ASSUME NEW r \in Run, RunningAccepted(r) PROVE TypeOK'
    BY <2>7, RunAssumption DEF RunningAccepted, Goto
  <2>8. ASSUME NEW r \in Run, RunningRefused(r) PROVE TypeOK'
    BY <2>8, RunAssumption DEF RunningRefused, Goto, SendFinished
  <2>9. ASSUME NEW r \in Run, RunningRetried(r) PROVE TypeOK'
    BY <2>9, RunAssumption DEF RunningRetried, SendRunning
  <2>10. ASSUME NEW r \in Run, RunningFailed(r) PROVE TypeOK'
    BY <2>10, RunAssumption DEF RunningFailed, Goto, Cancel, Answer
  <2>11. ASSUME NEW r \in Run, Execute(r) PROVE TypeOK'
    BY <2>11, RunAssumption DEF Execute, Goto, Answer
  <2>12. ASSUME NEW r \in Run, NotExecuted(r) PROVE TypeOK'
    BY <2>12, RunAssumption DEF NotExecuted, Goto, Answer, SendFinished
  <2>13. ASSUME NEW r \in Run, CommandEnds(r) PROVE TypeOK'
    BY <2>13, RunAssumption DEF CommandEnds, Goto, SendFinished
  <2>14. ASSUME NEW r \in Run, FinishedRetried(r) PROVE TypeOK'
    BY <2>14, RunAssumption DEF FinishedRetried, SendFinished
  <2>15. ASSUME NEW r \in Run, FinishedAnswered(r) PROVE TypeOK'
    BY <2>15, RunAssumption DEF FinishedAnswered, Goto
  <2>16. ASSUME NEW r \in Run, Unregister(r) PROVE TypeOK'
    BY <2>16, RunAssumption DEF Unregister, Goto
  <2>17. ASSUME NEW r \in Run, Leave(r) PROVE TypeOK'
    BY <2>17, RunAssumption DEF Leave, Goto, Cancel
  <2>18. ASSUME NEW r \in Run, Unlock(r) PROVE TypeOK'
    BY <2>18, RunAssumption DEF Unlock
  <2>19. ASSUME NEW r \in Run, LoseLock(r) PROVE TypeOK'
    BY <2>19, RunAssumption DEF LoseLock
  <2>20. ASSUME NEW r \in Run, Timeout(r) PROVE TypeOK'
    BY <2>20, RunAssumption DEF Timeout, Cancel
  <2>21. ASSUME NEW r \in Run, NEW k \in Attempt, RunningRefusal(r, k)
         PROVE  TypeOK'
    BY <2>21, RunAssumption DEF RunningRefusal, RunningStep
  <2>22. ASSUME NEW r \in Run, NEW k \in Attempt, RunningChecked(r, k)
         PROVE  TypeOK'
    BY <2>22, RunAssumption DEF RunningChecked, RunningStep
  <2>23. ASSUME NEW r \in Run, NEW k \in Attempt, RunningUnchecked(r, k)
         PROVE  TypeOK'
    BY <2>23, RunAssumption DEF RunningUnchecked, RunningStep
  <2>24. ASSUME NEW r \in Run, NEW k \in Attempt, RunningInserted(r, k)
         PROVE  TypeOK'
    <3>1. log' \in [Run -> SUBSET {"open", "closed"}]
      <4>1. log' = log \/ log' = [log EXCEPT ![r] = {"open"}]
        BY <2>24 DEF RunningInserted
      <4>2. {"open"} \in SUBSET {"open", "closed"}
        OBVIOUS
      <4>3. log \in [Run -> SUBSET {"open", "closed"}]
        OBVIOUS
      <4> HIDE DEF TypeOK
      <4> QED
        BY <4>1, <4>2, <4>3, RowsTyped
    <3>2. running' \in [Run -> [Attempt -> {"idle", "check", "insert", "put", "ok",
                                            "refused", "denied", "fail"}]]
      BY <2>24 DEF RunningInserted, RunningStep
    <3>3. UNCHANGED <<agentVars, finished, told, lock, scheduling, status>>
      BY <2>24 DEF RunningInserted, RunningStep
    <3> QED
      BY <3>1, <3>2, <3>3
  <2>25. ASSUME NEW r \in Run, NEW k \in Attempt, RunningStored(r, k)
         PROVE  TypeOK'
    BY <2>25, RunAssumption DEF RunningStored, RunningStep
  <2>26. ASSUME NEW r \in Run, NEW k \in Attempt, RunningDenied(r, k)
         PROVE  TypeOK'
    BY <2>26, RunAssumption DEF RunningDenied, RunningStep
  <2>27. ASSUME NEW r \in Run, NEW k \in Attempt, RunningCallFails(r, k)
         PROVE  TypeOK'
    BY <2>27, RunAssumption DEF RunningCallFails
  <2>28. ASSUME NEW r \in Run, NEW k \in Attempt, FinishedSaved(r, k)
         PROVE  TypeOK'
    <3>1. EndOf(r) \in {"open", "closed"}
      BY DEF EndOf
    <3>2. log' \in [Run -> SUBSET {"open", "closed"}]
      <4>1. log' = log \/ log' = [log EXCEPT ![r] = {EndOf(r)}]
        BY <2>28 DEF FinishedSaved, RowsUpdated
      <4>2. {EndOf(r)} \in SUBSET {"open", "closed"}
        BY <3>1
      <4>3. log \in [Run -> SUBSET {"open", "closed"}]
        OBVIOUS
      <4> HIDE DEF TypeOK
      <4> QED
        BY <4>1, <4>2, <4>3, RowsTyped
    <3>3. finished' \in [Run -> [Attempt -> {"idle", "save", "del", "ok", "fail"}]]
      BY <2>28 DEF FinishedSaved, FinishedStep
    <3>4. UNCHANGED <<agentVars, running, lock, scheduling, status, told>>
      BY <2>28 DEF FinishedSaved, FinishedStep
    <3> QED
      BY <3>2, <3>3, <3>4
  <2>29. ASSUME NEW r \in Run, NEW k \in Attempt, FinishedHandled(r, k)
         PROVE  TypeOK'
    BY <2>29, RunAssumption DEF FinishedHandled, FinishedStep
  <2>30. ASSUME NEW r \in Run, NEW k \in Attempt, FinishedCallFails(r, k)
         PROVE  TypeOK'
    <3>1. finished' = [finished EXCEPT ![r][k] = "fail"]
      BY <2>30 DEF FinishedCallFails, FinishedStep
    <3>2. UNCHANGED <<agentVars, running, lock, scheduling, log, status, told>>
      BY <2>30 DEF FinishedCallFails, FinishedStep
    <3> QED
      BY <3>1, <3>2
  <2>31. ASSUME NEW a \in Agent, Kill(a) PROVE TypeOK'
    BY <2>31, RunAssumption DEF Kill, Cancel
  <2>32. ASSUME NEW a \in Agent, Close(a) PROVE TypeOK'
    BY <2>32, RunAssumption DEF Close
  <2>33. ASSUME NEW a \in Agent, Exit(a) PROVE TypeOK'
    BY <2>33, RunAssumption DEF Exit, ProcessEnds
  <2>34. ASSUME NEW a \in Agent, Crash(a) PROVE TypeOK'
    BY <2>34, RunAssumption DEF Crash, ProcessEnds
  <2>35. CASE StatusExpires
    BY <2>35 DEF StatusExpires
  <2>36. CASE SetScheduling
    BY <2>36 DEF SetScheduling
  <2>37. CASE UNCHANGED vars
    BY <2>37 DEF vars
  <2>38. QED
    BY <2>1, <2>2, <2>3, <2>4, <2>5, <2>6, <2>7, <2>8, <2>9, <2>10,
       <2>11, <2>12, <2>13, <2>14, <2>15, <2>16, <2>17, <2>18, <2>19,
       <2>20, <2>21, <2>22, <2>23, <2>24, <2>25, <2>26, <2>27, <2>28,
       <2>29, <2>30, <2>31, <2>32, <2>33, <2>34, <2>35, <2>36, <2>37
       DEF Next, Goroutine, Handler
<1>3. QED
  BY <1>1, <1>2, PTL DEF Spec
-----------------------------------------------------------------------------
(***************************************************************************)
(* Mutual exclusion and "once per plan time".                              *)
(***************************************************************************)

\* From the lock to the deferred CancelFunc a run has the lock, until it is
\* cancelled.
Held == {"locked", "reporting", "ready", "executing", "telling", "told",
         "leaving"}
HoldersLock ==
    Noseize \/ \A r \in Run : pc[r] \in Held /\ r \notin cancelled => lock = r

\* What may still lead to Execute: the center found no row for the run.
Vouched(r) ==
    /\ r \notin cancelled
    /\ \/ pc[r] = "ready"
       \/ /\ pc[r] = "reporting"
          /\ \E k \in Attempt : running[r][k] \in {"insert", "put", "ok"}

\* A report is handled only after it was sent.
ReportsSent ==
    \A r \in Run :
        /\ pc[r] \in {"new", "locking", "locked"} =>
               \A k \in Attempt : running[r][k] = "idle"
        /\ pc[r] = "reporting" => call[r] \in Attempt

\* Whatever lets a command start has its row in the log.
RowsBehind ==
    \A r \in Run :
        /\ r \in executed => log[r] # {}
        /\ \A k \in Attempt : running[r][k] \in {"put", "ok"} => log[r] # {}
        /\ pc[r] = "ready" /\ r \notin cancelled => log[r] # {}

\* When a plan time was executed, no other run of it is executed or vouched for.
FirstOnly ==
    Noseize \/ \A r, q \in Run :
                   /\ r \in executed
                   /\ PlanOf[r] = PlanOf[q]
                   /\ q \in executed \/ Vouched(q)
                   => r = q

\* The lock invariant is inductive, as long as a lock is never lost.
LEMMA HoldersLockStep ==
    ASSUME "lose" \notin Faults, TypeOK, HoldersLock, [Next]_vars
    PROVE  HoldersLock'
<1> USE DEF HoldersLock, Held, TypeOK, agentVars, centerVars
<1>1. QED
  <2>1. ASSUME NEW r \in Run, TurnAway(r) PROVE HoldersLock'
    BY <2>1, RunAssumption DEF TurnAway, Answer, Goto
  <2>2. ASSUME NEW r \in Run, Dispatch(r) PROVE HoldersLock'
    BY <2>2, RunAssumption DEF Dispatch, Goto
  <2>3. ASSUME NEW r \in Run, TakeLock(r) PROVE HoldersLock'
    BY <2>3, RunAssumption DEF TakeLock, Goto
  <2>4. ASSUME NEW r \in Run, LockRefused(r) PROVE HoldersLock'
    BY <2>4, RunAssumption DEF LockRefused, Goto, Answer, Cancel
  <2>5. ASSUME NEW r \in Run, LockAbandoned(r) PROVE HoldersLock'
    BY <2>5, RunAssumption DEF LockAbandoned, Goto, Cancel
  <2>6. ASSUME NEW r \in Run, Register(r) PROVE HoldersLock'
    BY <2>6, RunAssumption DEF Register, Goto, SendRunning
  <2>7. ASSUME NEW r \in Run, RunningAccepted(r) PROVE HoldersLock'
    BY <2>7, RunAssumption DEF RunningAccepted, Goto
  <2>8. ASSUME NEW r \in Run, RunningRefused(r) PROVE HoldersLock'
    BY <2>8, RunAssumption DEF RunningRefused, Goto, SendFinished
  <2>9. ASSUME NEW r \in Run, RunningRetried(r) PROVE HoldersLock'
    BY <2>9, RunAssumption DEF RunningRetried, SendRunning
  <2>10. ASSUME NEW r \in Run, RunningFailed(r) PROVE HoldersLock'
    BY <2>10, RunAssumption DEF RunningFailed, Goto, Cancel, Answer
  <2>11. ASSUME NEW r \in Run, Execute(r) PROVE HoldersLock'
    BY <2>11, RunAssumption DEF Execute, Goto, Answer
  <2>12. ASSUME NEW r \in Run, NotExecuted(r) PROVE HoldersLock'
    BY <2>12, RunAssumption DEF NotExecuted, Goto, Answer, SendFinished
  <2>13. ASSUME NEW r \in Run, CommandEnds(r) PROVE HoldersLock'
    BY <2>13, RunAssumption DEF CommandEnds, Goto, SendFinished
  <2>14. ASSUME NEW r \in Run, FinishedRetried(r) PROVE HoldersLock'
    BY <2>14, RunAssumption DEF FinishedRetried, SendFinished
  <2>15. ASSUME NEW r \in Run, FinishedAnswered(r) PROVE HoldersLock'
    BY <2>15, RunAssumption DEF FinishedAnswered, Goto
  <2>16. ASSUME NEW r \in Run, Unregister(r) PROVE HoldersLock'
    BY <2>16, RunAssumption DEF Unregister, Goto
  <2>17. ASSUME NEW r \in Run, Leave(r) PROVE HoldersLock'
    BY <2>17, RunAssumption DEF Leave, Goto, Cancel
  <2>18. ASSUME NEW r \in Run, Unlock(r) PROVE HoldersLock'
    BY <2>18, RunAssumption DEF Unlock
  <2>19. ASSUME NEW r \in Run, LoseLock(r) PROVE HoldersLock'
    BY <2>19, RunAssumption DEF LoseLock
  <2>20. ASSUME NEW r \in Run, Timeout(r) PROVE HoldersLock'
    BY <2>20, RunAssumption DEF Timeout, Cancel
  <2>21. ASSUME NEW r \in Run, NEW k \in Attempt, RunningRefusal(r, k)
         PROVE  HoldersLock'
    BY <2>21, RunAssumption DEF RunningRefusal, RunningStep
  <2>22. ASSUME NEW r \in Run, NEW k \in Attempt, RunningChecked(r, k)
         PROVE  HoldersLock'
    BY <2>22, RunAssumption DEF RunningChecked, RunningStep
  <2>23. ASSUME NEW r \in Run, NEW k \in Attempt, RunningUnchecked(r, k)
         PROVE  HoldersLock'
    BY <2>23, RunAssumption DEF RunningUnchecked, RunningStep
  <2>24. ASSUME NEW r \in Run, NEW k \in Attempt, RunningInserted(r, k)
         PROVE  HoldersLock'
    BY <2>24, RunAssumption DEF RunningInserted, RunningStep
  <2>25. ASSUME NEW r \in Run, NEW k \in Attempt, RunningStored(r, k)
         PROVE  HoldersLock'
    BY <2>25, RunAssumption DEF RunningStored, RunningStep
  <2>26. ASSUME NEW r \in Run, NEW k \in Attempt, RunningDenied(r, k)
         PROVE  HoldersLock'
    BY <2>26, RunAssumption DEF RunningDenied, RunningStep
  <2>27. ASSUME NEW r \in Run, NEW k \in Attempt, RunningCallFails(r, k)
         PROVE  HoldersLock'
    BY <2>27, RunAssumption DEF RunningCallFails
  <2>28. ASSUME NEW r \in Run, NEW k \in Attempt, FinishedSaved(r, k)
         PROVE  HoldersLock'
    BY <2>28, RunAssumption DEF FinishedSaved, FinishedStep, RowsUpdated, EndOf
  <2>29. ASSUME NEW r \in Run, NEW k \in Attempt, FinishedHandled(r, k)
         PROVE  HoldersLock'
    BY <2>29, RunAssumption DEF FinishedHandled, FinishedStep
  <2>30. ASSUME NEW r \in Run, NEW k \in Attempt, FinishedCallFails(r, k)
         PROVE  HoldersLock'
    BY <2>30, RunAssumption DEF FinishedCallFails, FinishedStep
  <2>31. ASSUME NEW a \in Agent, Kill(a) PROVE HoldersLock'
    BY <2>31, RunAssumption DEF Kill, Cancel
  <2>32. ASSUME NEW a \in Agent, Close(a) PROVE HoldersLock'
    BY <2>32, RunAssumption DEF Close
  <2>33. ASSUME NEW a \in Agent, Exit(a) PROVE HoldersLock'
    BY <2>33, RunAssumption DEF Exit, ProcessEnds
  <2>34. ASSUME NEW a \in Agent, Crash(a) PROVE HoldersLock'
    BY <2>34, RunAssumption DEF Crash, ProcessEnds
  <2>35. CASE StatusExpires
    BY <2>35 DEF StatusExpires
  <2>36. CASE SetScheduling
    BY <2>36 DEF SetScheduling
  <2>37. CASE UNCHANGED vars
    BY <2>37 DEF vars
  <2>38. QED
    BY <2>1, <2>2, <2>3, <2>4, <2>5, <2>6, <2>7, <2>8, <2>9, <2>10,
       <2>11, <2>12, <2>13, <2>14, <2>15, <2>16, <2>17, <2>18, <2>19,
       <2>20, <2>21, <2>22, <2>23, <2>24, <2>25, <2>26, <2>27, <2>28,
       <2>29, <2>30, <2>31, <2>32, <2>33, <2>34, <2>35, <2>36, <2>37
       DEF Next, Goroutine, Handler

\* What works on a run under the lock has it, unless the lock was lost.
LEMMA HoldersHaveTheLock ==
    ASSUME "lose" \notin Faults
    PROVE  Spec => []HoldersLock
<1>1. Init => HoldersLock
  BY DEF Init, HoldersLock, Held
<1>2. QED
  BY <1>1, HoldersLockStep, TypeCorrect, PTL DEF Spec

\* A task that seizes its lock runs on one agent at a time (TryStartTask holds
\* the lock from tryLockTaskForExec to its deferred CancelFunc), unless a lock
\* gets lost.
THEOREM OneInCluster ==
    ASSUME "lose" \notin Faults
    PROVE  Spec => []AloneInCluster
<1>1. HoldersLock => AloneInCluster
  BY DEF HoldersLock, Held, AloneInCluster, InForce
<1>2. QED
  BY <1>1, HoldersHaveTheLock, PTL

\* A handler of a report never runs before the report was sent.
LEMMA ReportsSentStep ==
    ASSUME TypeOK, ReportsSent, [Next]_vars
    PROVE  ReportsSent'
<1> USE DEF ReportsSent, TypeOK, Attempt, agentVars, centerVars
<1>1. QED
  <2>1. ASSUME NEW r \in Run, TurnAway(r) PROVE ReportsSent'
    BY <2>1, RunAssumption DEF TurnAway, Answer, Goto
  <2>2. ASSUME NEW r \in Run, Dispatch(r) PROVE ReportsSent'
    BY <2>2, RunAssumption DEF Dispatch, Goto
  <2>3. ASSUME NEW r \in Run, TakeLock(r) PROVE ReportsSent'
    BY <2>3, RunAssumption DEF TakeLock, Goto
  <2>4. ASSUME NEW r \in Run, LockRefused(r) PROVE ReportsSent'
    BY <2>4, RunAssumption DEF LockRefused, Goto, Answer, Cancel
  <2>5. ASSUME NEW r \in Run, LockAbandoned(r) PROVE ReportsSent'
    BY <2>5, RunAssumption DEF LockAbandoned, Goto, Cancel
  <2>6. ASSUME NEW r \in Run, Register(r) PROVE ReportsSent'
    BY <2>6, RunAssumption DEF Register, Goto, SendRunning
  <2>7. ASSUME NEW r \in Run, RunningAccepted(r) PROVE ReportsSent'
    BY <2>7, RunAssumption DEF RunningAccepted, Goto
  <2>8. ASSUME NEW r \in Run, RunningRefused(r) PROVE ReportsSent'
    BY <2>8, RunAssumption DEF RunningRefused, Goto, SendFinished
  <2>9. ASSUME NEW r \in Run, RunningRetried(r) PROVE ReportsSent'
    BY <2>9, RunAssumption DEF RunningRetried, SendRunning
  <2>10. ASSUME NEW r \in Run, RunningFailed(r) PROVE ReportsSent'
    BY <2>10, RunAssumption DEF RunningFailed, Goto, Cancel, Answer
  <2>11. ASSUME NEW r \in Run, Execute(r) PROVE ReportsSent'
    BY <2>11, RunAssumption DEF Execute, Goto, Answer
  <2>12. ASSUME NEW r \in Run, NotExecuted(r) PROVE ReportsSent'
    BY <2>12, RunAssumption DEF NotExecuted, Goto, Answer, SendFinished
  <2>13. ASSUME NEW r \in Run, CommandEnds(r) PROVE ReportsSent'
    BY <2>13, RunAssumption DEF CommandEnds, Goto, SendFinished
  <2>14. ASSUME NEW r \in Run, FinishedRetried(r) PROVE ReportsSent'
    BY <2>14, RunAssumption DEF FinishedRetried, SendFinished
  <2>15. ASSUME NEW r \in Run, FinishedAnswered(r) PROVE ReportsSent'
    BY <2>15, RunAssumption DEF FinishedAnswered, Goto
  <2>16. ASSUME NEW r \in Run, Unregister(r) PROVE ReportsSent'
    BY <2>16, RunAssumption DEF Unregister, Goto
  <2>17. ASSUME NEW r \in Run, Leave(r) PROVE ReportsSent'
    BY <2>17, RunAssumption DEF Leave, Goto, Cancel
  <2>18. ASSUME NEW r \in Run, Unlock(r) PROVE ReportsSent'
    BY <2>18, RunAssumption DEF Unlock
  <2>19. ASSUME NEW r \in Run, LoseLock(r) PROVE ReportsSent'
    BY <2>19, RunAssumption DEF LoseLock
  <2>20. ASSUME NEW r \in Run, Timeout(r) PROVE ReportsSent'
    BY <2>20, RunAssumption DEF Timeout, Cancel
  <2>21. ASSUME NEW r \in Run, NEW k \in Attempt, RunningRefusal(r, k)
         PROVE  ReportsSent'
    BY <2>21, RunAssumption DEF RunningRefusal, RunningStep
  <2>22. ASSUME NEW r \in Run, NEW k \in Attempt, RunningChecked(r, k)
         PROVE  ReportsSent'
    BY <2>22, RunAssumption DEF RunningChecked, RunningStep
  <2>23. ASSUME NEW r \in Run, NEW k \in Attempt, RunningUnchecked(r, k)
         PROVE  ReportsSent'
    BY <2>23, RunAssumption DEF RunningUnchecked, RunningStep
  <2>24. ASSUME NEW r \in Run, NEW k \in Attempt, RunningInserted(r, k)
         PROVE  ReportsSent'
    BY <2>24, RunAssumption DEF RunningInserted, RunningStep
  <2>25. ASSUME NEW r \in Run, NEW k \in Attempt, RunningStored(r, k)
         PROVE  ReportsSent'
    BY <2>25, RunAssumption DEF RunningStored, RunningStep
  <2>26. ASSUME NEW r \in Run, NEW k \in Attempt, RunningDenied(r, k)
         PROVE  ReportsSent'
    BY <2>26, RunAssumption DEF RunningDenied, RunningStep
  <2>27. ASSUME NEW r \in Run, NEW k \in Attempt, RunningCallFails(r, k)
         PROVE  ReportsSent'
    BY <2>27, RunAssumption DEF RunningCallFails
  <2>28. ASSUME NEW r \in Run, NEW k \in Attempt, FinishedSaved(r, k)
         PROVE  ReportsSent'
    BY <2>28, RunAssumption DEF FinishedSaved, FinishedStep, RowsUpdated, EndOf
  <2>29. ASSUME NEW r \in Run, NEW k \in Attempt, FinishedHandled(r, k)
         PROVE  ReportsSent'
    BY <2>29, RunAssumption DEF FinishedHandled, FinishedStep
  <2>30. ASSUME NEW r \in Run, NEW k \in Attempt, FinishedCallFails(r, k)
         PROVE  ReportsSent'
    BY <2>30, RunAssumption DEF FinishedCallFails, FinishedStep
  <2>31. ASSUME NEW a \in Agent, Kill(a) PROVE ReportsSent'
    BY <2>31, RunAssumption DEF Kill, Cancel
  <2>32. ASSUME NEW a \in Agent, Close(a) PROVE ReportsSent'
    BY <2>32, RunAssumption DEF Close
  <2>33. ASSUME NEW a \in Agent, Exit(a) PROVE ReportsSent'
    BY <2>33, RunAssumption DEF Exit, ProcessEnds
  <2>34. ASSUME NEW a \in Agent, Crash(a) PROVE ReportsSent'
    BY <2>34, RunAssumption DEF Crash, ProcessEnds
  <2>35. CASE StatusExpires
    BY <2>35 DEF StatusExpires
  <2>36. CASE SetScheduling
    BY <2>36 DEF SetScheduling
  <2>37. CASE UNCHANGED vars
    BY <2>37 DEF vars
  <2>38. QED
    BY <2>1, <2>2, <2>3, <2>4, <2>5, <2>6, <2>7, <2>8, <2>9, <2>10,
       <2>11, <2>12, <2>13, <2>14, <2>15, <2>16, <2>17, <2>18, <2>19,
       <2>20, <2>21, <2>22, <2>23, <2>24, <2>25, <2>26, <2>27, <2>28,
       <2>29, <2>30, <2>31, <2>32, <2>33, <2>34, <2>35, <2>36, <2>37
       DEF Next, Goroutine, Handler

\* An answer to a report is one to a report that was sent.
LEMMA ReportsAreSent == Spec => []ReportsSent
<1>1. ASSUME Init PROVE ReportsSent
  <2>1. \A r \in Run, k \in Attempt : running[r][k] = "idle"
    BY <1>1 DEF Init
  <2>2. \A r \in Run : pc[r] = "new"
    BY <1>1 DEF Init
  <2> QED
    BY <2>1, <2>2 DEF ReportsSent
<1>2. QED
  BY <1>1, ReportsSentStep, TypeCorrect, PTL DEF Spec

\* No row ever goes, and each row is there before the step that relies on it.
LEMMA RowsBehindStep ==
    ASSUME "store" \notin Faults, TypeOK, ReportsSent, RowsBehind, [Next]_vars
    PROVE  RowsBehind'
<1> USE DEF RowsBehind, TypeOK, ReportsSent, agentVars, centerVars
<1>1. QED
  <2>1. ASSUME NEW r \in Run, TurnAway(r) PROVE RowsBehind'
    BY <2>1, RunAssumption DEF TurnAway, Answer, Goto
  <2>2. ASSUME NEW r \in Run, Dispatch(r) PROVE RowsBehind'
    BY <2>2, RunAssumption DEF Dispatch, Goto
  <2>3. ASSUME NEW r \in Run, TakeLock(r) PROVE RowsBehind'
    BY <2>3, RunAssumption DEF TakeLock, Goto
  <2>4. ASSUME NEW r \in Run, LockRefused(r) PROVE RowsBehind'
    BY <2>4, RunAssumption DEF LockRefused, Goto, Answer, Cancel
  <2>5. ASSUME NEW r \in Run, LockAbandoned(r) PROVE RowsBehind'
    BY <2>5, RunAssumption DEF LockAbandoned, Goto, Cancel
  <2>6. ASSUME NEW r \in Run, Register(r) PROVE RowsBehind'
    BY <2>6, RunAssumption DEF Register, Goto, SendRunning
  <2>7. ASSUME NEW r \in Run, RunningAccepted(r) PROVE RowsBehind'
    BY <2>7, RunAssumption DEF RunningAccepted, Goto
  <2>8. ASSUME NEW r \in Run, RunningRefused(r) PROVE RowsBehind'
    BY <2>8, RunAssumption DEF RunningRefused, Goto, SendFinished
  <2>9. ASSUME NEW r \in Run, RunningRetried(r) PROVE RowsBehind'
    BY <2>9, RunAssumption DEF RunningRetried, SendRunning
  <2>10. ASSUME NEW r \in Run, RunningFailed(r) PROVE RowsBehind'
    BY <2>10, RunAssumption DEF RunningFailed, Goto, Cancel, Answer
  <2>11. ASSUME NEW r \in Run, Execute(r) PROVE RowsBehind'
    BY <2>11, RunAssumption DEF Execute, Goto, Answer
  <2>12. ASSUME NEW r \in Run, NotExecuted(r) PROVE RowsBehind'
    BY <2>12, RunAssumption DEF NotExecuted, Goto, Answer, SendFinished
  <2>13. ASSUME NEW r \in Run, CommandEnds(r) PROVE RowsBehind'
    BY <2>13, RunAssumption DEF CommandEnds, Goto, SendFinished
  <2>14. ASSUME NEW r \in Run, FinishedRetried(r) PROVE RowsBehind'
    BY <2>14, RunAssumption DEF FinishedRetried, SendFinished
  <2>15. ASSUME NEW r \in Run, FinishedAnswered(r) PROVE RowsBehind'
    BY <2>15, RunAssumption DEF FinishedAnswered, Goto
  <2>16. ASSUME NEW r \in Run, Unregister(r) PROVE RowsBehind'
    BY <2>16, RunAssumption DEF Unregister, Goto
  <2>17. ASSUME NEW r \in Run, Leave(r) PROVE RowsBehind'
    BY <2>17, RunAssumption DEF Leave, Goto, Cancel
  <2>18. ASSUME NEW r \in Run, Unlock(r) PROVE RowsBehind'
    BY <2>18, RunAssumption DEF Unlock
  <2>19. ASSUME NEW r \in Run, LoseLock(r) PROVE RowsBehind'
    BY <2>19, RunAssumption DEF LoseLock
  <2>20. ASSUME NEW r \in Run, Timeout(r) PROVE RowsBehind'
    BY <2>20, RunAssumption DEF Timeout, Cancel
  <2>21. ASSUME NEW r \in Run, NEW k \in Attempt, RunningRefusal(r, k)
         PROVE  RowsBehind'
    BY <2>21, RunAssumption DEF RunningRefusal, RunningStep
  <2>22. ASSUME NEW r \in Run, NEW k \in Attempt, RunningChecked(r, k)
         PROVE  RowsBehind'
    BY <2>22, RunAssumption DEF RunningChecked, RunningStep
  <2>23. ASSUME NEW r \in Run, NEW k \in Attempt, RunningUnchecked(r, k)
         PROVE  RowsBehind'
    BY <2>23, RunAssumption DEF RunningUnchecked, RunningStep
  <2>24. ASSUME NEW r \in Run, NEW k \in Attempt, RunningInserted(r, k)
         PROVE  RowsBehind'
    <3>1. \/ log' = [log EXCEPT ![r] = {"open"}]
          \/ log[r] # {} /\ log' = log
      BY <2>24 DEF RunningInserted
    <3>2. log'[r] # {} /\ \A q \in Run : log[q] # {} => log'[q] # {}
      <4>1. CASE log' = [log EXCEPT ![r] = {"open"}]
        BY <4>1
      <4>2. CASE log[r] # {} /\ log' = log
        BY <4>2
      <4> QED
        BY <3>1, <4>1, <4>2
    <3>3. \A q \in Run, i \in Attempt :
              running'[q][i] \in {"put", "ok"} =>
                q = r \/ running[q][i] \in {"put", "ok"}
      BY <2>24 DEF RunningInserted, RunningStep
    <3>4. UNCHANGED <<executed, pc, cancelled>>
      BY <2>24 DEF RunningInserted, RunningStep
    <3> QED
      BY <3>2, <3>3, <3>4
  <2>25. ASSUME NEW r \in Run, NEW k \in Attempt, RunningStored(r, k)
         PROVE  RowsBehind'
    BY <2>25, RunAssumption DEF RunningStored, RunningStep
  <2>26. ASSUME NEW r \in Run, NEW k \in Attempt, RunningDenied(r, k)
         PROVE  RowsBehind'
    BY <2>26, RunAssumption DEF RunningDenied, RunningStep
  <2>27. ASSUME NEW r \in Run, NEW k \in Attempt, RunningCallFails(r, k)
         PROVE  RowsBehind'
    BY <2>27, RunAssumption DEF RunningCallFails
  <2>28. ASSUME NEW r \in Run, NEW k \in Attempt, FinishedSaved(r, k)
         PROVE  RowsBehind'
    <3>1. log' = [log EXCEPT ![r] = {EndOf(r)}]
      BY <2>28 DEF FinishedSaved, RowsUpdated
    <3>2. \A q \in Run : log[q] # {} => log'[q] # {}
      BY <3>1
    <3>3. UNCHANGED <<executed, pc, cancelled, running>>
      BY <2>28 DEF FinishedSaved, FinishedStep
    <3> QED
      BY <3>2, <3>3
  <2>29. ASSUME NEW r \in Run, NEW k \in Attempt, FinishedHandled(r, k)
         PROVE  RowsBehind'
    BY <2>29, RunAssumption DEF FinishedHandled, FinishedStep
  <2>30. ASSUME NEW r \in Run, NEW k \in Attempt, FinishedCallFails(r, k)
         PROVE  RowsBehind'
    BY <2>30, RunAssumption DEF FinishedCallFails, FinishedStep
  <2>31. ASSUME NEW a \in Agent, Kill(a) PROVE RowsBehind'
    BY <2>31, RunAssumption DEF Kill, Cancel
  <2>32. ASSUME NEW a \in Agent, Close(a) PROVE RowsBehind'
    BY <2>32, RunAssumption DEF Close
  <2>33. ASSUME NEW a \in Agent, Exit(a) PROVE RowsBehind'
    BY <2>33, RunAssumption DEF Exit, ProcessEnds
  <2>34. ASSUME NEW a \in Agent, Crash(a) PROVE RowsBehind'
    BY <2>34, RunAssumption DEF Crash, ProcessEnds
  <2>35. CASE StatusExpires
    BY <2>35 DEF StatusExpires
  <2>36. CASE SetScheduling
    BY <2>36 DEF SetScheduling
  <2>37. CASE UNCHANGED vars
    BY <2>37 DEF vars
  <2>38. QED
    BY <2>1, <2>2, <2>3, <2>4, <2>5, <2>6, <2>7, <2>8, <2>9, <2>10,
       <2>11, <2>12, <2>13, <2>14, <2>15, <2>16, <2>17, <2>18, <2>19,
       <2>20, <2>21, <2>22, <2>23, <2>24, <2>25, <2>26, <2>27, <2>28,
       <2>29, <2>30, <2>31, <2>32, <2>33, <2>34, <2>35, <2>36, <2>37
       DEF Next, Goroutine, Handler

\* The log is never ahead of what was reported.
LEMMA RowsAreBehind ==
    ASSUME "store" \notin Faults
    PROVE  Spec => []RowsBehind
<1>1. ASSUME Init PROVE RowsBehind
  <2>1. \A r \in Run, k \in Attempt : running[r][k] = "idle"
    BY <1>1 DEF Init
  <2>2. executed = {} /\ \A r \in Run : pc[r] = "new"
    BY <1>1 DEF Init
  <2> QED
    BY <2>1, <2>2 DEF RowsBehind
<1>2. QED
  BY <1>1, RowsBehindStep, ReportsAreSent, TypeCorrect, PTL DEF Spec

\* Steps that start no command and let no further run past the check.
LEMMA FirstOnlyKept ==
    ASSUME FirstOnly, UNCHANGED executed,
           \A q \in Run : Vouched(q)' => Vouched(q)
    PROVE  FirstOnly'
BY DEF FirstOnly

\* A plan time that was executed stays the only one: the row of the first run
\* is in the log before any other run gets past the center's check, and two runs
\* past the check would both have the lock.
LEMMA FirstOnlyStep ==
    ASSUME {"lose", "store"} \cap Faults = {}, TypeOK, HoldersLock, ReportsSent,
           RowsBehind, FirstOnly, [Next]_vars
    PROVE  FirstOnly'
<1> USE DEF FirstOnly, Vouched, TypeOK, Attempt, agentVars, centerVars
<1>1. CASE Noseize
  BY <1>1
<1>2. CASE ~Noseize
  <2> USE <1>2
  <2>1. ASSUME NEW r \in Run, TurnAway(r) PROVE FirstOnly'
    BY <2>1, RunAssumption DEF TurnAway, Answer, Goto
  <2>2. ASSUME NEW r \in Run, Dispatch(r) PROVE FirstOnly'
    BY <2>2, RunAssumption DEF Dispatch, Goto
  <2>3. ASSUME NEW r \in Run, TakeLock(r) PROVE FirstOnly'
    BY <2>3, RunAssumption DEF TakeLock, Goto
  <2>4. ASSUME NEW r \in Run, LockRefused(r) PROVE FirstOnly'
    BY <2>4, RunAssumption DEF LockRefused, Goto, Answer, Cancel
  <2>5. ASSUME NEW r \in Run, LockAbandoned(r) PROVE FirstOnly'
    BY <2>5, RunAssumption DEF LockAbandoned, Goto, Cancel
  <2>6. ASSUME NEW r \in Run, Register(r) PROVE FirstOnly'
    <3>1. \A k \in Attempt : running[r][k] = "idle"
      BY <2>6 DEF Register, ReportsSent
    <3>2. running' = [running EXCEPT ![r][1] = "check"]
      BY <2>6 DEF Register, SendRunning
    <3>3. \A k \in Attempt : running'[r][k] \in {"idle", "check"}
      BY <3>1, <3>2
    <3>4. \A q \in Run : q # r => running'[q] = running[q] /\ pc'[q] = pc[q]
      BY <2>6, <3>2 DEF Register, Goto
    <3>5. pc'[r] = "reporting" /\ UNCHANGED <<executed, cancelled>>
      BY <2>6 DEF Register, Goto
    <3>6. \A q \in Run : Vouched(q)' => Vouched(q)
      BY <3>3, <3>4, <3>5
    <3> QED
      BY <3>5, <3>6, FirstOnlyKept
  <2>7. ASSUME NEW r \in Run, RunningAccepted(r) PROVE FirstOnly'
    <3>1. call[r] \in Attempt /\ running[r][call[r]] = "ok" /\ pc[r] = "reporting"
      BY <2>7 DEF RunningAccepted, ReportsSent
    <3>2. UNCHANGED <<running, executed, cancelled>>
      BY <2>7 DEF RunningAccepted
    <3>3. \A q \in Run : q # r => pc'[q] = pc[q]
      BY <2>7 DEF RunningAccepted, Goto
    <3>4. \A q \in Run : Vouched(q)' => Vouched(q)
      BY <3>1, <3>2, <3>3
    <3> QED
      BY <3>2, <3>4, FirstOnlyKept
  <2>8. ASSUME NEW r \in Run, RunningRefused(r) PROVE FirstOnly'
    <3>1. UNCHANGED <<executed, cancelled, running>>
      BY <2>8 DEF RunningRefused
    <3>2. pc'[r] = "telling" /\ \A q \in Run : q # r => pc'[q] = pc[q]
      BY <2>8 DEF RunningRefused, Goto
    <3>3. \A q \in Run : Vouched(q)' => Vouched(q)
      BY <3>1, <3>2
    <3> QED
      BY <3>1, <3>3, FirstOnlyKept
  <2>9. ASSUME NEW r \in Run, RunningRetried(r) PROVE FirstOnly'
    BY <2>9, RunAssumption DEF RunningRetried, SendRunning
  <2>10. ASSUME NEW r \in Run, RunningFailed(r) PROVE FirstOnly'
    BY <2>10, RunAssumption DEF RunningFailed, Goto, Cancel, Answer
  <2>11. ASSUME NEW r \in Run, Execute(r) PROVE FirstOnly'
    <3>1. pc[r] = "ready" /\ r \notin cancelled
      BY <2>11 DEF Execute
    <3>2. executed' = executed \cup {r} /\ UNCHANGED <<running, cancelled>>
      BY <2>11 DEF Execute
    <3>3. \A q \in Run : q # r => pc'[q] = pc[q]
      BY <2>11 DEF Execute, Goto
    <3>4. pc'[r] = "executing"
      BY <2>11 DEF Execute, Goto
    <3>5. \A q \in Run : Vouched(q)' => Vouched(q)
      BY <3>2, <3>3, <3>4
    <3>6. \A q \in Run : Vouched(q) => q = r
      BY <3>1 DEF HoldersLock, Held
    <3>7. \A q \in executed : PlanOf[q] = PlanOf[r] => q = r
      BY <3>1
    <3> QED
      BY <3>2, <3>5, <3>6, <3>7
  <2>12. ASSUME NEW r \in Run, NotExecuted(r) PROVE FirstOnly'
    BY <2>12, RunAssumption DEF NotExecuted, Goto, Answer, SendFinished
  <2>13. ASSUME NEW r \in Run, CommandEnds(r) PROVE FirstOnly'
    BY <2>13, RunAssumption DEF CommandEnds, Goto, SendFinished
  <2>14. ASSUME NEW r \in Run, FinishedRetried(r) PROVE FirstOnly'
    BY <2>14, RunAssumption DEF FinishedRetried, SendFinished
  <2>15. ASSUME NEW r \in Run, FinishedAnswered(r) PROVE FirstOnly'
    BY <2>15, RunAssumption DEF FinishedAnswered, Goto
  <2>16. ASSUME NEW r \in Run, Unregister(r) PROVE FirstOnly'
    BY <2>16, RunAssumption DEF Unregister, Goto
  <2>17. ASSUME NEW r \in Run, Leave(r) PROVE FirstOnly'
    BY <2>17, RunAssumption DEF Leave, Goto, Cancel
  <2>18. ASSUME NEW r \in Run, Unlock(r) PROVE FirstOnly'
    BY <2>18, RunAssumption DEF Unlock
  <2>19. ASSUME NEW r \in Run, LoseLock(r) PROVE FirstOnly'
    BY <2>19, RunAssumption DEF LoseLock
  <2>20. ASSUME NEW r \in Run, Timeout(r) PROVE FirstOnly'
    BY <2>20, RunAssumption DEF Timeout, Cancel
  <2>21. ASSUME NEW r \in Run, NEW k \in Attempt, RunningRefusal(r, k)
         PROVE  FirstOnly'
    BY <2>21, RunAssumption DEF RunningRefusal, RunningStep
  <2>22. ASSUME NEW r \in Run, NEW k \in Attempt, RunningChecked(r, k)
         PROVE  FirstOnly'
    <3>1. \A q \in Run : PlanOf[q] = PlanOf[r] => log[q] = {}
      BY <2>22 DEF RunningChecked, RowExists
    <3>2. \A q \in executed : PlanOf[q] # PlanOf[r]
      BY <3>1 DEF RowsBehind
    <3>3. running' = [running EXCEPT ![r][k] = "insert"]
      BY <2>22 DEF RunningChecked, RunningStep
    <3>4. UNCHANGED <<pc, executed, cancelled>>
      BY <2>22 DEF RunningChecked, RunningStep
    <3>5. \A q \in Run : q # r => running'[q] = running[q]
      BY <3>3
    <3>6. \A q \in Run : Vouched(q)' => Vouched(q) \/ q = r
      BY <3>4, <3>5
    <3> QED
      BY <3>2, <3>4, <3>6
  <2>23. ASSUME NEW r \in Run, NEW k \in Attempt, RunningUnchecked(r, k)
         PROVE  FirstOnly'
    BY <2>23, RunAssumption DEF RunningUnchecked, RunningStep
  <2>24. ASSUME NEW r \in Run, NEW k \in Attempt, RunningInserted(r, k)
         PROVE  FirstOnly'
    BY <2>24, RunAssumption DEF RunningInserted, RunningStep
  <2>25. ASSUME NEW r \in Run, NEW k \in Attempt, RunningStored(r, k)
         PROVE  FirstOnly'
    BY <2>25, RunAssumption DEF RunningStored, RunningStep
  <2>26. ASSUME NEW r \in Run, NEW k \in Attempt, RunningDenied(r, k)
         PROVE  FirstOnly'
    BY <2>26, RunAssumption DEF RunningDenied, RunningStep
  <2>27. ASSUME NEW r \in Run, NEW k \in Attempt, RunningCallFails(r, k)
         PROVE  FirstOnly'
    BY <2>27, RunAssumption DEF RunningCallFails
  <2>28. ASSUME NEW r \in Run, NEW k \in Attempt, FinishedSaved(r, k)
         PROVE  FirstOnly'
    BY <2>28, RunAssumption DEF FinishedSaved, FinishedStep, RowsUpdated, EndOf
  <2>29. ASSUME NEW r \in Run, NEW k \in Attempt, FinishedHandled(r, k)
         PROVE  FirstOnly'
    BY <2>29, RunAssumption DEF FinishedHandled, FinishedStep
  <2>30. ASSUME NEW r \in Run, NEW k \in Attempt, FinishedCallFails(r, k)
         PROVE  FirstOnly'
    BY <2>30, RunAssumption DEF FinishedCallFails, FinishedStep
  <2>31. ASSUME NEW a \in Agent, Kill(a) PROVE FirstOnly'
    BY <2>31, RunAssumption DEF Kill, Cancel
  <2>32. ASSUME NEW a \in Agent, Close(a) PROVE FirstOnly'
    BY <2>32, RunAssumption DEF Close
  <2>33. ASSUME NEW a \in Agent, Exit(a) PROVE FirstOnly'
    BY <2>33, RunAssumption DEF Exit, ProcessEnds
  <2>34. ASSUME NEW a \in Agent, Crash(a) PROVE FirstOnly'
    BY <2>34, RunAssumption DEF Crash, ProcessEnds
  <2>35. CASE StatusExpires
    BY <2>35 DEF StatusExpires
  <2>36. CASE SetScheduling
    BY <2>36 DEF SetScheduling
  <2>37. CASE UNCHANGED vars
    BY <2>37 DEF vars
  <2>38. QED
    BY <2>1, <2>2, <2>3, <2>4, <2>5, <2>6, <2>7, <2>8, <2>9, <2>10,
       <2>11, <2>12, <2>13, <2>14, <2>15, <2>16, <2>17, <2>18, <2>19,
       <2>20, <2>21, <2>22, <2>23, <2>24, <2>25, <2>26, <2>27, <2>28,
       <2>29, <2>30, <2>31, <2>32, <2>33, <2>34, <2>35, <2>36, <2>37
       DEF Next, Goroutine, Handler
<1>3. QED
  BY <1>1, <1>2

\* A plan time is executed at most once (CheckOrCreateScheduleLog under the task
\* lock), whatever reports are slow or lost and whoever is killed or crashes,
\* unless the lock gets lost or the log row is not stored.
THEOREM OnceIfLockAndRowLast ==
    ASSUME {"lose", "store"} \cap Faults = {}
    PROVE  Spec => []OncePerPlan
<1>1. "lose" \notin Faults /\ "store" \notin Faults
  OBVIOUS
<1>2. Init => FirstOnly
  BY DEF Init, FirstOnly
<1>3. TypeOK /\ FirstOnly => OncePerPlan
  BY DEF FirstOnly, OncePerPlan, TypeOK
<1>4. Spec => []HoldersLock
  BY <1>1, HoldersHaveTheLock
<1>5. Spec => []RowsBehind
  BY <1>1, RowsAreBehind
<1>6. QED
  BY <1>2, <1>3, <1>4, <1>5, FirstOnlyStep, ReportsAreSent, TypeCorrect, PTL
     DEF Spec
-----------------------------------------------------------------------------
(***************************************************************************)
(* The tables, when no lock gets lost, no answer is late, no token is      *)
(* refused, and neither a user nor a crash cuts a run short.               *)
(***************************************************************************)

Calm == ~Noseize /\ Faults \subseteq {"store", "unreachable", "stop", "close"}

\* Nothing is cancelled before it is done with the lock, and no call of a report
\* fails.
Uncut ==
    \A r \in Run :
        /\ pc[r] \notin {"done", "hung", "gone"} => r \notin cancelled
        /\ \A k \in Attempt : /\ running[r][k] \notin {"fail", "denied"}
                              /\ finished[r][k] # "fail"

\* From SetExecutingTask to DeleteExecutingTask the table names the run.
Working == {"reporting", "ready", "executing", "telling", "told"}
Named == \A r \in Run : pc[r] \in Working => table[AgentOf[r]] = r

\* The center works on a report only while the agent waits for its answer.
InPhase ==
    \A r \in Run :
        /\ pc[r] = "telling" => call[r] \in Attempt
        /\ \A k \in Attempt :
             /\ running[r][k] \in {"check", "insert", "put"} =>
                    pc[r] = "reporting" /\ k = call[r]
             /\ finished[r][k] \in {"save", "del"} =>
                    pc[r] = "telling" /\ k = call[r]

\* Since RUNNING was handled the status key names the run.
StatusNamed ==
    \A r \in Run :
        \/ pc[r] \in {"ready", "executing"}
        \/ pc[r] = "reporting" /\ running[r][call[r]] = "ok"
        => status = r

\* One run at a time has the lock.
LEMMA Alone ==
    ASSUME Calm, HoldersLock, Uncut, NEW r \in Run, NEW q \in Run,
           pc[r] \in Held, pc[q] \in Held
    PROVE  q = r
<1>1. r \notin cancelled /\ q \notin cancelled
  BY DEF Uncut, Held
<1>2. QED
  BY <1>1 DEF Calm, HoldersLock

\* The faults that do not happen.
LEMMA NoFault ==
    ASSUME Calm
    PROVE  /\ \A r \in Run : ~LoseLock(r) /\ ~Timeout(r)
           /\ \A a \in Agent : ~Kill(a) /\ ~Crash(a)
           /\ \A r \in Run, k \in Attempt :
                ~RunningDenied(r, k) /\ ~RunningCallFails(r, k)
                /\ ~FinishedCallFails(r, k)
<1>1. {"lose", "kill", "crash", "deny", "slow"} \cap Faults = {}
  BY DEF Calm
<1>2. QED
  BY <1>1 DEF LoseLock, Timeout, Kill, Crash, RunningDenied,
              RunningCallFails, FinishedCallFails

\* A RUNNING report has one attempt and is accepted or refused.
LEMMA RunningNeverFails ==
    ASSUME Calm, ReportsSent, Uncut, NEW r \in Run
    PROVE  ~RunningRetried(r) /\ ~RunningFailed(r)
<1>1. pc[r] = "reporting" =>
        /\ r \notin cancelled
        /\ running[r][call[r]] \notin {"fail", "denied"}
  BY DEF ReportsSent, Uncut
<1>2. "slow" \notin Faults
  BY DEF Calm
<1>3. ~RunningRetried(r)
  BY <1>1, <1>2 DEF RunningRetried, CallLost
<1>4. ~RunningFailed(r)
  BY <1>1, <1>2 DEF RunningFailed, CallLost
<1>5. QED
  BY <1>3, <1>4

\* The report of an end is answered at its first attempt.
LEMMA FinishedNeverFails ==
    ASSUME Calm, InPhase, Uncut, NEW r \in Run
    PROVE  ~FinishedRetried(r)
           /\ (FinishedAnswered(r) => finished[r][call[r]] = "ok")
<1>1. pc[r] = "telling" =>
        call[r] \in Attempt /\ finished[r][call[r]] # "fail"
  BY DEF InPhase, Uncut
<1>2. "slow" \notin Faults
  BY DEF Calm
<1>3. ~FinishedRetried(r)
  BY <1>1, <1>2 DEF FinishedRetried, CallLost
<1>4. FinishedAnswered(r) => finished[r][call[r]] = "ok"
  BY <1>1, <1>2 DEF FinishedAnswered, CallLost
<1>5. QED
  BY <1>3, <1>4

\* No step cancels a run that has not left yet.
LEMMA UncutStep ==
    ASSUME Calm, TypeOK, ReportsSent, InPhase, Uncut, [Next]_vars
    PROVE  Uncut'
<1> USE DEF Calm, Uncut, ReportsSent, TypeOK, agentVars, centerVars
<1>1. QED
  <2>1. ASSUME NEW r \in Run, TurnAway(r) PROVE Uncut'
    BY <2>1, RunAssumption DEF TurnAway, Answer, Goto
  <2>2. ASSUME NEW r \in Run, Dispatch(r) PROVE Uncut'
    BY <2>2, RunAssumption DEF Dispatch, Goto
  <2>3. ASSUME NEW r \in Run, TakeLock(r) PROVE Uncut'
    BY <2>3, RunAssumption DEF TakeLock, Goto
  <2>4. ASSUME NEW r \in Run, LockRefused(r) PROVE Uncut'
    BY <2>4, RunAssumption DEF LockRefused, Goto, Answer, Cancel
  <2>5. ASSUME NEW r \in Run, LockAbandoned(r) PROVE Uncut'
    BY <2>5, RunAssumption DEF LockAbandoned, Goto, Cancel
  <2>6. ASSUME NEW r \in Run, Register(r) PROVE Uncut'
    BY <2>6, RunAssumption DEF Register, Goto, SendRunning
  <2>7. ASSUME NEW r \in Run, RunningAccepted(r) PROVE Uncut'
    BY <2>7, RunAssumption DEF RunningAccepted, Goto
  <2>8. ASSUME NEW r \in Run, RunningRefused(r) PROVE Uncut'
    BY <2>8, RunAssumption DEF RunningRefused, Goto, SendFinished
  <2>9. ASSUME NEW r \in Run, RunningRetried(r) PROVE Uncut'
    BY <2>9, RunningNeverFails
  <2>10. ASSUME NEW r \in Run, RunningFailed(r) PROVE Uncut'
    BY <2>10, RunningNeverFails
  <2>11. ASSUME NEW r \in Run, Execute(r) PROVE Uncut'
    BY <2>11, RunAssumption DEF Execute, Goto, Answer
  <2>12. ASSUME NEW r \in Run, NotExecuted(r) PROVE Uncut'
    BY <2>12, RunAssumption DEF NotExecuted, Goto, Answer, SendFinished
  <2>13. ASSUME NEW r \in Run, CommandEnds(r) PROVE Uncut'
    BY <2>13, RunAssumption DEF CommandEnds, Goto, SendFinished
  <2>14. ASSUME NEW r \in Run, FinishedRetried(r) PROVE Uncut'
    BY <2>14, FinishedNeverFails
  <2>15. ASSUME NEW r \in Run, FinishedAnswered(r) PROVE Uncut'
    <3>1. UNCHANGED <<cancelled, running, finished>>
      BY <2>15 DEF FinishedAnswered
    <3>2. \A q \in Run : pc'[q] \notin {"done", "hung", "gone"} =>
                         pc[q] \notin {"done", "hung", "gone"}
      BY <2>15 DEF FinishedAnswered, Goto
    <3>3. QED
      BY <3>1, <3>2
  <2>16. ASSUME NEW r \in Run, Unregister(r) PROVE Uncut'
    BY <2>16, RunAssumption DEF Unregister, Goto
  <2>17. ASSUME NEW r \in Run, Leave(r) PROVE Uncut'
    BY <2>17, RunAssumption DEF Leave, Goto, Cancel
  <2>18. ASSUME NEW r \in Run, Unlock(r) PROVE Uncut'
    BY <2>18, RunAssumption DEF Unlock
  <2>19. ASSUME NEW r \in Run, LoseLock(r) PROVE Uncut'
    BY <2>19, NoFault
  <2>20. ASSUME NEW r \in Run, Timeout(r) PROVE Uncut'
    BY <2>20, NoFault
  <2>21. ASSUME NEW r \in Run, NEW k \in Attempt, RunningRefusal(r, k)
        PROVE  Uncut'
    BY <2>21, RunAssumption DEF RunningRefusal, RunningStep
  <2>22. ASSUME NEW r \in Run, NEW k \in Attempt, RunningChecked(r, k)
        PROVE  Uncut'
    BY <2>22, RunAssumption DEF RunningChecked, RunningStep
  <2>23. ASSUME NEW r \in Run, NEW k \in Attempt, RunningUnchecked(r, k)
        PROVE  Uncut'
    BY <2>23, RunAssumption DEF RunningUnchecked, RunningStep
  <2>24. ASSUME NEW r \in Run, NEW k \in Attempt, RunningInserted(r, k)
        PROVE  Uncut'
    BY <2>24, RunAssumption DEF RunningInserted, RunningStep
  <2>25. ASSUME NEW r \in Run, NEW k \in Attempt, RunningStored(r, k)
        PROVE  Uncut'
    BY <2>25, RunAssumption DEF RunningStored, RunningStep
  <2>26. ASSUME NEW r \in Run, NEW k \in Attempt, RunningDenied(r, k)
        PROVE  Uncut'
    BY <2>26, NoFault
  <2>27. ASSUME NEW r \in Run, NEW k \in Attempt, RunningCallFails(r, k)
        PROVE  Uncut'
    BY <2>27, NoFault
  <2>28. ASSUME NEW r \in Run, NEW k \in Attempt, FinishedSaved(r, k)
        PROVE  Uncut'
    BY <2>28, RunAssumption DEF FinishedSaved, FinishedStep, RowsUpdated, EndOf
  <2>29. ASSUME NEW r \in Run, NEW k \in Attempt, FinishedHandled(r, k)
        PROVE  Uncut'
    BY <2>29, RunAssumption DEF FinishedHandled, FinishedStep
  <2>30. ASSUME NEW r \in Run, NEW k \in Attempt, FinishedCallFails(r, k)
        PROVE  Uncut'
    BY <2>30, NoFault
  <2>31. ASSUME NEW a \in Agent, Kill(a) PROVE Uncut'
    BY <2>31, NoFault
  <2>32. ASSUME NEW a \in Agent, Close(a) PROVE Uncut'
    BY <2>32, RunAssumption DEF Close
  <2>33. ASSUME NEW a \in Agent, Exit(a) PROVE Uncut'
    BY <2>33, RunAssumption DEF Exit, ProcessEnds
  <2>34. ASSUME NEW a \in Agent, Crash(a) PROVE Uncut'
    BY <2>34, NoFault
  <2>35. CASE StatusExpires
    BY <2>35, RunAssumption DEF StatusExpires
  <2>36. CASE SetScheduling
    BY <2>36, RunAssumption DEF SetScheduling
  <2>37. CASE UNCHANGED vars
    BY <2>37, RunAssumption DEF vars
  <2>38. QED
    BY <2>1, <2>2, <2>3, <2>4, <2>5, <2>6, <2>7, <2>8, <2>9, <2>10,
       <2>11, <2>12, <2>13, <2>14, <2>15, <2>16, <2>17, <2>18, <2>19,
       <2>20, <2>21, <2>22, <2>23, <2>24, <2>25, <2>26, <2>27, <2>28,
       <2>29, <2>30, <2>31, <2>32, <2>33, <2>34, <2>35, <2>36, <2>37
       DEF Next, Goroutine, Handler

\* Another run of the agent is not in the table as long as this one is.
LEMMA NamedStep ==
    ASSUME Calm, TypeOK, HoldersLock, ReportsSent, InPhase, Uncut, Named,
           [Next]_vars
    PROVE  Named'
<1> USE DEF Calm, HoldersLock, Held, Named, Working, TypeOK, agentVars,
            centerVars
<1>1. QED
  <2>1. ASSUME NEW r \in Run, TurnAway(r) PROVE Named'
    BY <2>1, RunAssumption DEF TurnAway, Answer, Goto
  <2>2. ASSUME NEW r \in Run, Dispatch(r) PROVE Named'
    BY <2>2, RunAssumption DEF Dispatch, Goto
  <2>3. ASSUME NEW r \in Run, TakeLock(r) PROVE Named'
    BY <2>3, RunAssumption DEF TakeLock, Goto
  <2>4. ASSUME NEW r \in Run, LockRefused(r) PROVE Named'
    BY <2>4, RunAssumption DEF LockRefused, Goto, Answer, Cancel
  <2>5. ASSUME NEW r \in Run, LockAbandoned(r) PROVE Named'
    BY <2>5, RunAssumption DEF LockAbandoned, Goto, Cancel
  <2>6. ASSUME NEW r \in Run, Register(r) PROVE Named'
    <3>1. lock = r /\ \A q \in Run : pc[q] \in Held => q = r
      BY <2>6 DEF Register, Uncut
    <3>2. table' = [table EXCEPT ![AgentOf[r]] = r]
          /\ pc' = [pc EXCEPT ![r] = "reporting"]
      BY <2>6 DEF Register, Goto
    <3>3. QED
      BY <3>1, <3>2, RunAssumption
  <2>7. ASSUME NEW r \in Run, RunningAccepted(r) PROVE Named'
    BY <2>7, RunAssumption DEF RunningAccepted, Goto
  <2>8. ASSUME NEW r \in Run, RunningRefused(r) PROVE Named'
    BY <2>8, RunAssumption DEF RunningRefused, Goto, SendFinished
  <2>9. ASSUME NEW r \in Run, RunningRetried(r) PROVE Named'
    BY <2>9, RunningNeverFails
  <2>10. ASSUME NEW r \in Run, RunningFailed(r) PROVE Named'
    BY <2>10, RunningNeverFails
  <2>11. ASSUME NEW r \in Run, Execute(r) PROVE Named'
    BY <2>11, RunAssumption DEF Execute, Goto, Answer
  <2>12. ASSUME NEW r \in Run, NotExecuted(r) PROVE Named'
    BY <2>12, RunAssumption DEF NotExecuted, Goto, Answer, SendFinished
  <2>13. ASSUME NEW r \in Run, CommandEnds(r) PROVE Named'
    BY <2>13, RunAssumption DEF CommandEnds, Goto, SendFinished
  <2>14. ASSUME NEW r \in Run, FinishedRetried(r) PROVE Named'
    BY <2>14, FinishedNeverFails
  <2>15. ASSUME NEW r \in Run, FinishedAnswered(r) PROVE Named'
    BY <2>15, RunAssumption DEF FinishedAnswered, Goto
  <2>16. ASSUME NEW r \in Run, Unregister(r) PROVE Named'
    <3>1. lock = r /\ \A q \in Run : pc[q] \in Held => q = r
      BY <2>16 DEF Unregister, Uncut
    <3>2. pc' = [pc EXCEPT ![r] = "leaving"]
      BY <2>16 DEF Unregister, Goto
    <3>3. QED
      BY <3>1, <3>2
  <2>17. ASSUME NEW r \in Run, Leave(r) PROVE Named'
    BY <2>17, RunAssumption DEF Leave, Goto, Cancel
  <2>18. ASSUME NEW r \in Run, Unlock(r) PROVE Named'
    BY <2>18, RunAssumption DEF Unlock
  <2>19. ASSUME NEW r \in Run, LoseLock(r) PROVE Named'
    BY <2>19, NoFault
  <2>20. ASSUME NEW r \in Run, Timeout(r) PROVE Named'
    BY <2>20, NoFault
  <2>21. ASSUME NEW r \in Run, NEW k \in Attempt, RunningRefusal(r, k)
        PROVE  Named'
    BY <2>21, RunAssumption DEF RunningRefusal, RunningStep
  <2>22. ASSUME NEW r \in Run, NEW k \in Attempt, RunningChecked(r, k)
        PROVE  Named'
    BY <2>22, RunAssumption DEF RunningChecked, RunningStep
  <2>23. ASSUME NEW r \in Run, NEW k \in Attempt, RunningUnchecked(r, k)
        PROVE  Named'
    BY <2>23, RunAssumption DEF RunningUnchecked, RunningStep
  <2>24. ASSUME NEW r \in Run, NEW k \in Attempt, RunningInserted(r, k)
        PROVE  Named'
    BY <2>24, RunAssumption DEF RunningInserted, RunningStep
  <2>25. ASSUME NEW r \in Run, NEW k \in Attempt, RunningStored(r, k)
        PROVE  Named'
    BY <2>25, RunAssumption DEF RunningStored, RunningStep
  <2>26. ASSUME NEW r \in Run, NEW k \in Attempt, RunningDenied(r, k)
        PROVE  Named'
    BY <2>26, NoFault
  <2>27. ASSUME NEW r \in Run, NEW k \in Attempt, RunningCallFails(r, k)
        PROVE  Named'
    BY <2>27, NoFault
  <2>28. ASSUME NEW r \in Run, NEW k \in Attempt, FinishedSaved(r, k)
        PROVE  Named'
    BY <2>28, RunAssumption DEF FinishedSaved, FinishedStep, RowsUpdated, EndOf
  <2>29. ASSUME NEW r \in Run, NEW k \in Attempt, FinishedHandled(r, k)
        PROVE  Named'
    BY <2>29, RunAssumption DEF FinishedHandled, FinishedStep
  <2>30. ASSUME NEW r \in Run, NEW k \in Attempt, FinishedCallFails(r, k)
        PROVE  Named'
    BY <2>30, NoFault
  <2>31. ASSUME NEW a \in Agent, Kill(a) PROVE Named'
    BY <2>31, NoFault
  <2>32. ASSUME NEW a \in Agent, Close(a) PROVE Named'
    BY <2>32, RunAssumption DEF Close
  <2>33. ASSUME NEW a \in Agent, Exit(a) PROVE Named'
    BY <2>33, RunAssumption DEF Exit, ProcessEnds
  <2>34. ASSUME NEW a \in Agent, Crash(a) PROVE Named'
    BY <2>34, NoFault
  <2>35. CASE StatusExpires
    BY <2>35, RunAssumption DEF StatusExpires
  <2>36. CASE SetScheduling
    BY <2>36, RunAssumption DEF SetScheduling
  <2>37. CASE UNCHANGED vars
    BY <2>37, RunAssumption DEF vars
  <2>38. QED
    BY <2>1, <2>2, <2>3, <2>4, <2>5, <2>6, <2>7, <2>8, <2>9, <2>10,
       <2>11, <2>12, <2>13, <2>14, <2>15, <2>16, <2>17, <2>18, <2>19,
       <2>20, <2>21, <2>22, <2>23, <2>24, <2>25, <2>26, <2>27, <2>28,
       <2>29, <2>30, <2>31, <2>32, <2>33, <2>34, <2>35, <2>36, <2>37
       DEF Next, Goroutine, Handler

\* Who is told of an end waits for the answer before anything else.
LEMMA InPhaseStep ==
    ASSUME Calm, TypeOK, ReportsSent, Uncut, Named, InPhase, [Next]_vars
    PROVE  InPhase'
<1> USE DEF Calm, Uncut, Named, Working, ReportsSent, InPhase, Attempt, TypeOK,
            agentVars, centerVars
<1>1. QED
  <2>1. ASSUME NEW r \in Run, TurnAway(r) PROVE InPhase'
    BY <2>1, RunAssumption DEF TurnAway, Answer, Goto
  <2>2. ASSUME NEW r \in Run, Dispatch(r) PROVE InPhase'
    BY <2>2, RunAssumption DEF Dispatch, Goto
  <2>3. ASSUME NEW r \in Run, TakeLock(r) PROVE InPhase'
    BY <2>3, RunAssumption DEF TakeLock, Goto
  <2>4. ASSUME NEW r \in Run, LockRefused(r) PROVE InPhase'
    BY <2>4, RunAssumption DEF LockRefused, Goto, Answer, Cancel
  <2>5. ASSUME NEW r \in Run, LockAbandoned(r) PROVE InPhase'
    BY <2>5, RunAssumption DEF LockAbandoned, Goto, Cancel
  <2>6. ASSUME NEW r \in Run, Register(r) PROVE InPhase'
    <3>1. \A k \in Attempt : running[r][k] = "idle"
      BY <2>6 DEF Register
    <3>2. /\ pc' = [pc EXCEPT ![r] = "reporting"]
          /\ call' = [call EXCEPT ![r] = 1] /\ finished' = finished
          /\ running' = [running EXCEPT ![r][1] = "check"]
      BY <2>6 DEF Register, Goto, SendRunning
    <3>3. QED
      BY <2>6, <3>1, <3>2 DEF Register
  <2>7. ASSUME NEW r \in Run, RunningAccepted(r) PROVE InPhase'
    BY <2>7, RunAssumption DEF RunningAccepted, Goto
  <2>8. ASSUME NEW r \in Run, RunningRefused(r) PROVE InPhase'
    BY <2>8, RunAssumption DEF RunningRefused, Goto, SendFinished
  <2>9. ASSUME NEW r \in Run, RunningRetried(r) PROVE InPhase'
    BY <2>9, RunningNeverFails
  <2>10. ASSUME NEW r \in Run, RunningFailed(r) PROVE InPhase'
    BY <2>10, RunningNeverFails
  <2>11. ASSUME NEW r \in Run, Execute(r) PROVE InPhase'
    BY <2>11, RunAssumption DEF Execute, Goto, Answer
  <2>12. ASSUME NEW r \in Run, NotExecuted(r) PROVE InPhase'
    BY <2>12, RunAssumption DEF NotExecuted, Goto, Answer, SendFinished
  <2>13. ASSUME NEW r \in Run, CommandEnds(r) PROVE InPhase'
    BY <2>13, RunAssumption DEF CommandEnds, Goto, SendFinished
  <2>14. ASSUME NEW r \in Run, FinishedRetried(r) PROVE InPhase'
    BY <2>14, FinishedNeverFails
  <2>15. ASSUME NEW r \in Run, FinishedAnswered(r) PROVE InPhase'
    <3>1. /\ pc[r] = "telling" /\ UNCHANGED <<running, finished, call>>
          /\ pc' = [pc EXCEPT ![r] = "told"]
      BY <2>15 DEF FinishedAnswered, Goto
    <3>2. \A k \in Attempt : finished[r][k] \notin {"save", "del"}
      BY <2>15, <3>1, FinishedNeverFails
    <3>3. \A k \in Attempt : running[r][k] \notin {"check", "insert", "put"}
      BY <3>1
    <3>4. QED
      BY <3>1, <3>2, <3>3
  <2>16. ASSUME NEW r \in Run, Unregister(r) PROVE InPhase'
    BY <2>16, RunAssumption DEF Unregister, Goto
  <2>17. ASSUME NEW r \in Run, Leave(r) PROVE InPhase'
    BY <2>17, RunAssumption DEF Leave, Goto, Cancel
  <2>18. ASSUME NEW r \in Run, Unlock(r) PROVE InPhase'
    BY <2>18, RunAssumption DEF Unlock
  <2>19. ASSUME NEW r \in Run, LoseLock(r) PROVE InPhase'
    BY <2>19, NoFault
  <2>20. ASSUME NEW r \in Run, Timeout(r) PROVE InPhase'
    BY <2>20, NoFault
  <2>21. ASSUME NEW r \in Run, NEW k \in Attempt, RunningRefusal(r, k)
        PROVE  InPhase'
    BY <2>21, RunAssumption DEF RunningRefusal, RunningStep
  <2>22. ASSUME NEW r \in Run, NEW k \in Attempt, RunningChecked(r, k)
        PROVE  InPhase'
    BY <2>22, RunAssumption DEF RunningChecked, RunningStep
  <2>23. ASSUME NEW r \in Run, NEW k \in Attempt, RunningUnchecked(r, k)
        PROVE  InPhase'
    BY <2>23, RunAssumption DEF RunningUnchecked, RunningStep
  <2>24. ASSUME NEW r \in Run, NEW k \in Attempt, RunningInserted(r, k)
        PROVE  InPhase'
    BY <2>24, RunAssumption DEF RunningInserted, RunningStep
  <2>25. ASSUME NEW r \in Run, NEW k \in Attempt, RunningStored(r, k)
        PROVE  InPhase'
    BY <2>25, RunAssumption DEF RunningStored, RunningStep
  <2>26. ASSUME NEW r \in Run, NEW k \in Attempt, RunningDenied(r, k)
        PROVE  InPhase'
    BY <2>26, NoFault
  <2>27. ASSUME NEW r \in Run, NEW k \in Attempt, RunningCallFails(r, k)
        PROVE  InPhase'
    BY <2>27, NoFault
  <2>28. ASSUME NEW r \in Run, NEW k \in Attempt, FinishedSaved(r, k)
        PROVE  InPhase'
    BY <2>28, RunAssumption DEF FinishedSaved, FinishedStep, RowsUpdated, EndOf
  <2>29. ASSUME NEW r \in Run, NEW k \in Attempt, FinishedHandled(r, k)
        PROVE  InPhase'
    BY <2>29, RunAssumption DEF FinishedHandled, FinishedStep
  <2>30. ASSUME NEW r \in Run, NEW k \in Attempt, FinishedCallFails(r, k)
        PROVE  InPhase'
    BY <2>30, NoFault
  <2>31. ASSUME NEW a \in Agent, Kill(a) PROVE InPhase'
    BY <2>31, NoFault
  <2>32. ASSUME NEW a \in Agent, Close(a) PROVE InPhase'
    BY <2>32, RunAssumption DEF Close
  <2>33. ASSUME NEW a \in Agent, Exit(a) PROVE InPhase'
    BY <2>33, RunAssumption DEF Exit, ProcessEnds
  <2>34. ASSUME NEW a \in Agent, Crash(a) PROVE InPhase'
    BY <2>34, NoFault
  <2>35. CASE StatusExpires
    BY <2>35, RunAssumption DEF StatusExpires
  <2>36. CASE SetScheduling
    BY <2>36, RunAssumption DEF SetScheduling
  <2>37. CASE UNCHANGED vars
    BY <2>37, RunAssumption DEF vars
  <2>38. QED
    BY <2>1, <2>2, <2>3, <2>4, <2>5, <2>6, <2>7, <2>8, <2>9, <2>10,
       <2>11, <2>12, <2>13, <2>14, <2>15, <2>16, <2>17, <2>18, <2>19,
       <2>20, <2>21, <2>22, <2>23, <2>24, <2>25, <2>26, <2>27, <2>28,
       <2>29, <2>30, <2>31, <2>32, <2>33, <2>34, <2>35, <2>36, <2>37
       DEF Next, Goroutine, Handler

\* The status key changes hands only with the lock.
LEMMA StatusNamedStep ==
    ASSUME Calm, TypeOK, HoldersLock, ReportsSent, Uncut, Named, InPhase,
           StatusNamed, [Next]_vars
    PROVE  StatusNamed'
<1> USE DEF Calm, Uncut, HoldersLock, Held, ReportsSent, InPhase, StatusNamed,
            TypeOK, agentVars, centerVars
<1>1. QED
  <2>1. ASSUME NEW r \in Run, TurnAway(r) PROVE StatusNamed'
    BY <2>1, RunAssumption DEF TurnAway, Answer, Goto
  <2>2. ASSUME NEW r \in Run, Dispatch(r) PROVE StatusNamed'
    BY <2>2, RunAssumption DEF Dispatch, Goto
  <2>3. ASSUME NEW r \in Run, TakeLock(r) PROVE StatusNamed'
    BY <2>3, RunAssumption DEF TakeLock, Goto
  <2>4. ASSUME NEW r \in Run, LockRefused(r) PROVE StatusNamed'
    BY <2>4, RunAssumption DEF LockRefused, Goto, Answer, Cancel
  <2>5. ASSUME NEW r \in Run, LockAbandoned(r) PROVE StatusNamed'
    BY <2>5, RunAssumption DEF LockAbandoned, Goto, Cancel
  <2>6. ASSUME NEW r \in Run, Register(r) PROVE StatusNamed'
    <3>1. /\ pc' = [pc EXCEPT ![r] = "reporting"] /\ status' = status
          /\ call' = [call EXCEPT ![r] = 1]
          /\ running' = [running EXCEPT ![r][1] = "check"]
      BY <2>6 DEF Register, Goto, SendRunning
    <3>2. 1 \in Attempt
      BY RunAssumption DEF Attempt
    <3>3. call'[r] = 1 /\ running'[r][1] = "check" /\ pc'[r] = "reporting"
      <4>1. 1 \in 0..Attempts
        BY RunAssumption
      <4>2. QED
        BY <3>1, <3>2, <4>1
    <3>4. QED
      BY <3>1, <3>3
  <2>7. ASSUME NEW r \in Run, RunningAccepted(r) PROVE StatusNamed'
    BY <2>7, RunAssumption DEF RunningAccepted, Goto
  <2>8. ASSUME NEW r \in Run, RunningRefused(r) PROVE StatusNamed'
    BY <2>8, RunAssumption DEF RunningRefused, Goto, SendFinished
  <2>9. ASSUME NEW r \in Run, RunningRetried(r) PROVE StatusNamed'
    BY <2>9, RunningNeverFails
  <2>10. ASSUME NEW r \in Run, RunningFailed(r) PROVE StatusNamed'
    BY <2>10, RunningNeverFails
  <2>11. ASSUME NEW r \in Run, Execute(r) PROVE StatusNamed'
    BY <2>11, RunAssumption DEF Execute, Goto, Answer
  <2>12. ASSUME NEW r \in Run, NotExecuted(r) PROVE StatusNamed'
    BY <2>12, RunAssumption DEF NotExecuted, Goto, Answer, SendFinished
  <2>13. ASSUME NEW r \in Run, CommandEnds(r) PROVE StatusNamed'
    BY <2>13, RunAssumption DEF CommandEnds, Goto, SendFinished
  <2>14. ASSUME NEW r \in Run, FinishedRetried(r) PROVE StatusNamed'
    BY <2>14, FinishedNeverFails
  <2>15. ASSUME NEW r \in Run, FinishedAnswered(r) PROVE StatusNamed'
    BY <2>15, RunAssumption DEF FinishedAnswered, Goto
  <2>16. ASSUME NEW r \in Run, Unregister(r) PROVE StatusNamed'
    BY <2>16, RunAssumption DEF Unregister, Goto
  <2>17. ASSUME NEW r \in Run, Leave(r) PROVE StatusNamed'
    BY <2>17, RunAssumption DEF Leave, Goto, Cancel
  <2>18. ASSUME NEW r \in Run, Unlock(r) PROVE StatusNamed'
    BY <2>18, RunAssumption DEF Unlock
  <2>19. ASSUME NEW r \in Run, LoseLock(r) PROVE StatusNamed'
    BY <2>19, NoFault
  <2>20. ASSUME NEW r \in Run, Timeout(r) PROVE StatusNamed'
    BY <2>20, NoFault
  <2>21. ASSUME NEW r \in Run, NEW k \in Attempt, RunningRefusal(r, k)
        PROVE  StatusNamed'
    BY <2>21, RunAssumption DEF RunningRefusal, RunningStep
  <2>22. ASSUME NEW r \in Run, NEW k \in Attempt, RunningChecked(r, k)
        PROVE  StatusNamed'
    BY <2>22, RunAssumption DEF RunningChecked, RunningStep
  <2>23. ASSUME NEW r \in Run, NEW k \in Attempt, RunningUnchecked(r, k)
        PROVE  StatusNamed'
    BY <2>23, RunAssumption DEF RunningUnchecked, RunningStep
  <2>24. ASSUME NEW r \in Run, NEW k \in Attempt, RunningInserted(r, k)
        PROVE  StatusNamed'
    BY <2>24, RunAssumption DEF RunningInserted, RunningStep
  <2>25. ASSUME NEW r \in Run, NEW k \in Attempt, RunningStored(r, k)
        PROVE  StatusNamed'
    <3>1. /\ running[r][k] = "put" /\ status' = r
          /\ running' = [running EXCEPT ![r][k] = "ok"]
          /\ UNCHANGED <<pc, call>>
      BY <2>25 DEF RunningStored, RunningStep
    <3>2. pc[r] = "reporting"
      BY <3>1
    <3>3. \A q \in Run : pc[q] \in Held => q = r
      BY <3>2, Alone
    <3>4. QED
      BY <3>1, <3>2, <3>3
  <2>26. ASSUME NEW r \in Run, NEW k \in Attempt, RunningDenied(r, k)
        PROVE  StatusNamed'
    BY <2>26, NoFault
  <2>27. ASSUME NEW r \in Run, NEW k \in Attempt, RunningCallFails(r, k)
        PROVE  StatusNamed'
    BY <2>27, NoFault
  <2>28. ASSUME NEW r \in Run, NEW k \in Attempt, FinishedSaved(r, k)
        PROVE  StatusNamed'
    BY <2>28, RunAssumption DEF FinishedSaved, FinishedStep, RowsUpdated, EndOf
  <2>29. ASSUME NEW r \in Run, NEW k \in Attempt, FinishedHandled(r, k)
        PROVE  StatusNamed'
    <3>1. finished[r][k] = "del" /\ UNCHANGED <<pc, call, running>>
      BY <2>29 DEF FinishedHandled, FinishedStep
    <3>2. pc[r] = "telling"
      BY <3>1
    <3>3. \A q \in Run : pc[q] \in Held => q = r
      BY <3>2, Alone
    <3>4. QED
      BY <3>1, <3>2, <3>3
  <2>30. ASSUME NEW r \in Run, NEW k \in Attempt, FinishedCallFails(r, k)
        PROVE  StatusNamed'
    BY <2>30, NoFault
  <2>31. ASSUME NEW a \in Agent, Kill(a) PROVE StatusNamed'
    BY <2>31, NoFault
  <2>32. ASSUME NEW a \in Agent, Close(a) PROVE StatusNamed'
    BY <2>32, RunAssumption DEF Close
  <2>33. ASSUME NEW a \in Agent, Exit(a) PROVE StatusNamed'
    BY <2>33, RunAssumption DEF Exit, ProcessEnds
  <2>34. ASSUME NEW a \in Agent, Crash(a) PROVE StatusNamed'
    BY <2>34, NoFault
  <2>35. CASE StatusExpires
    BY <2>35, RunAssumption DEF StatusExpires
  <2>36. CASE SetScheduling
    BY <2>36, RunAssumption DEF SetScheduling
  <2>37. CASE UNCHANGED vars
    BY <2>37, RunAssumption DEF vars
  <2>38. QED
    BY <2>1, <2>2, <2>3, <2>4, <2>5, <2>6, <2>7, <2>8, <2>9, <2>10,
       <2>11, <2>12, <2>13, <2>14, <2>15, <2>16, <2>17, <2>18, <2>19,
       <2>20, <2>21, <2>22, <2>23, <2>24, <2>25, <2>26, <2>27, <2>28,
       <2>29, <2>30, <2>31, <2>32, <2>33, <2>34, <2>35, <2>36, <2>37
       DEF Next, Goroutine, Handler

Orderly == Uncut /\ Named /\ InPhase /\ StatusNamed

\* In a calm system the statuses of a run come in their order, at the agent, in
\* the reports and in both tables.
LEMMA OrderlyAlways ==
    ASSUME Calm
    PROVE  Spec => [](TypeOK /\ HoldersLock /\ ReportsSent /\ Orderly)
<1>1. ASSUME Init PROVE Orderly
  <2>1. /\ cancelled = {} /\ \A r \in Run : /\ pc[r] = "new" /\ log[r] = {}
                                            /\ told[r] = "none"
        /\ \A r \in Run, k \in Attempt :
             running[r][k] = "idle" /\ finished[r][k] = "idle"
    BY <1>1 DEF Init
  <2>2. Uncut /\ Named /\ InPhase
    BY <2>1 DEF Uncut, Named, Working, InPhase
  <2>3. StatusNamed
    BY <2>1 DEF StatusNamed
  <2>4. QED
    BY <2>2, <2>3 DEF Orderly
<1>2. ASSUME TypeOK, HoldersLock, ReportsSent, Orderly, [Next]_vars
      PROVE  Orderly'
  <2>1. Uncut /\ Named /\ InPhase /\ StatusNamed
    BY <1>2 DEF Orderly
  <2>2. Uncut'
    BY <1>2, <2>1, UncutStep
  <2>3. Named'
    BY <1>2, <2>1, NamedStep
  <2>4. InPhase'
    BY <1>2, <2>1, InPhaseStep
  <2>5. StatusNamed'
    BY <1>2, <2>1, StatusNamedStep
  <2>6. QED
    BY <2>2, <2>3, <2>4, <2>5 DEF Orderly
<1>3. "lose" \notin Faults
  BY DEF Calm
<1>4. Spec => []HoldersLock
  BY <1>3, HoldersHaveTheLock
<1>5. QED
  BY <1>1, <1>2, <1>4, ReportsAreSent, TypeCorrect, PTL DEF Spec

\* While a command runs the executing table and the status key name its run
\* (SetExecutingTask, SetTaskRunning), unless a lock gets lost, a report fails,
\* or a user or a crash cuts a run short.
THEOREM TablesTruthfulIfCalm ==
    ASSUME Calm
    PROVE  Spec => []TablesTruthful
<1>1. Orderly => TablesTruthful
  BY DEF Orderly, Named, Working, StatusNamed, TablesTruthful, InForce
<1>2. QED
  BY <1>1, OrderlyAlways, PTL

-----------------------------------------------------------------------------
(***************************************************************************)
(* Reports in their order, which few faults can disturb.                   *)
(***************************************************************************)

\* The center works on a report of a start, on one of an end.
Starting(r, k) == running[r][k] \in {"check", "insert", "put"}
Closing(r, k) == finished[r][k] \in {"save", "del"}
Early == {"new", "locking", "locked", "reporting", "ready", "executing"}

\* Without "kill" and "slow" the center works on one report of a run at a time,
\* the one the agent waits for, unless the process died; a RUNNING report finds
\* no row of its run, and whoever was told of an end hears of no other one.
OneAtATime ==
    \A r \in Run :
        /\ pc[r] \in {"new", "locking", "locked", "reporting"} => r \notin cancelled
        /\ pc[r] \in {"new", "locking", "locked"} => log[r] = {}
        /\ pc[r] \in Early => \A k \in Attempt : finished[r][k] = "idle"
        /\ pc[r] = "telling" => call[r] \in Attempt
        /\ \A k \in Attempt :
               /\ running[r][k] # "fail"
               /\ running[r][k] \in {"check", "insert"} => log[r] = {}
               /\ Starting(r, k) =>
                      /\ pc[r] \in {"reporting", "gone"} /\ k = call[r]
                      /\ \A i \in Attempt : finished[r][i] = "idle"
               /\ Closing(r, k) => pc[r] \in {"telling", "gone"} /\ k = call[r]
        /\ told[r] # "none" =>
               /\ pc[r] \notin Early
               /\ \A k \in Attempt : ~Starting(r, k) /\ ~Closing(r, k)
               /\ pc[r] = "telling" => finished[r][call[r]] = "ok"

\* No RUNNING report is sent twice when no answer is late.
LEMMA NotRetried ==
    ASSUME "slow" \notin Faults, ReportsSent, NEW r \in Run,
           \A k \in Attempt : running[r][k] # "fail"
    PROVE  ~RunningRetried(r)
BY DEF ReportsSent, RunningRetried, CallLost

\* No step has the center work on two reports of a run.
LEMMA OneAtATimeStep ==
    ASSUME "kill" \notin Faults, "slow" \notin Faults, TypeOK, ReportsSent,
           OneAtATime, [Next]_vars
    PROVE  OneAtATime'
<1> USE DEF ReportsSent, OneAtATime, Starting, Closing, Early, TypeOK,
            agentVars, centerVars
<1>1. QED
  <2>1. ASSUME NEW r \in Run, TurnAway(r) PROVE OneAtATime'
    BY <2>1, RunAssumption DEF TurnAway, Answer, Goto
  <2>2. ASSUME NEW r \in Run, Dispatch(r) PROVE OneAtATime'
    BY <2>2, RunAssumption DEF Dispatch, Goto
  <2>3. ASSUME NEW r \in Run, TakeLock(r) PROVE OneAtATime'
    BY <2>3, RunAssumption DEF TakeLock, Goto
  <2>4. ASSUME NEW r \in Run, LockRefused(r) PROVE OneAtATime'
    BY <2>4, RunAssumption DEF LockRefused, Goto, Answer, Cancel
  <2>5. ASSUME NEW r \in Run, LockAbandoned(r) PROVE OneAtATime'
    BY <2>5, RunAssumption DEF LockAbandoned, Goto, Cancel
  <2>6. ASSUME NEW r \in Run, Register(r) PROVE OneAtATime'
    BY <2>6, RunAssumption DEF Register, Goto, SendRunning
  <2>7. ASSUME NEW r \in Run, RunningAccepted(r) PROVE OneAtATime'
    BY <2>7, RunAssumption DEF RunningAccepted, Goto
  <2>8. ASSUME NEW r \in Run, RunningRefused(r) PROVE OneAtATime'
    <3>1. /\ pc[r] = "reporting" /\ told[r] = "none" /\ 1 \in Attempt
          /\ \A k \in Attempt : finished[r][k] = "idle" /\ ~Starting(r, k)
      BY <2>8, RunAssumption DEF RunningRefused, Attempt
    <3>2. /\ pc' = [pc EXCEPT ![r] = "telling"] /\ call' = [call EXCEPT ![r] = 1]
          /\ finished' = [finished EXCEPT ![r][1] = "save"]
          /\ UNCHANGED <<running, log, told, cancelled>>
      BY <2>8 DEF RunningRefused, Goto, SendFinished
    <3>3. QED
      BY <3>1, <3>2
  <2>9. ASSUME NEW r \in Run, RunningRetried(r) PROVE OneAtATime'
    BY <2>9, NotRetried
  <2>10. ASSUME NEW r \in Run, RunningFailed(r) PROVE OneAtATime'
    BY <2>10, RunAssumption DEF RunningFailed, CallLost, Goto, Cancel, Answer
  <2>11. ASSUME NEW r \in Run, Execute(r) PROVE OneAtATime'
    BY <2>11, RunAssumption DEF Execute, Goto, Answer
  <2>12. ASSUME NEW r \in Run, NotExecuted(r) PROVE OneAtATime'
    <3>1. /\ pc[r] = "ready" /\ told[r] = "none" /\ 1 \in Attempt
          /\ \A k \in Attempt : finished[r][k] = "idle" /\ ~Starting(r, k)
      BY <2>12, RunAssumption DEF NotExecuted, Attempt
    <3>2. /\ pc' = [pc EXCEPT ![r] = "telling"] /\ call' = [call EXCEPT ![r] = 1]
          /\ finished' = [finished EXCEPT ![r][1] = "save"]
          /\ UNCHANGED <<running, log, told, cancelled>>
      BY <2>12 DEF NotExecuted, Goto, SendFinished
    <3>3. QED
      BY <3>1, <3>2
  <2>13. ASSUME NEW r \in Run, CommandEnds(r) PROVE OneAtATime'
    <3>1. pc[r] = "executing"
      BY <2>13 DEF CommandEnds
    <3>2. 1 \in Attempt
      BY RunAssumption DEF Attempt
    <3>3. /\ told[r] = "none"
          /\ \A k \in Attempt : finished[r][k] = "idle" /\ ~Starting(r, k)
      BY <3>1
    <3>4. /\ pc' = [pc EXCEPT ![r] = "telling"] /\ call' = [call EXCEPT ![r] = 1]
          /\ finished' = [finished EXCEPT ![r][1] = "save"]
          /\ UNCHANGED <<running, log, told, cancelled>>
      BY <2>13 DEF CommandEnds, Goto, SendFinished
    <3>5. QED
      BY <3>1, <3>2, <3>3, <3>4
  <2>14. ASSUME NEW r \in Run, FinishedRetried(r) PROVE OneAtATime'
    <3>1. /\ pc[r] = "telling" /\ finished[r][call[r]] = "fail"
          /\ told[r] = "none" /\ call[r] + 1 \in Attempt
          /\ \A k \in Attempt : ~Starting(r, k) /\ ~Closing(r, k)
      BY <2>14, RunAssumption DEF FinishedRetried, CallLost, Attempt
    <3>2. /\ call' = [call EXCEPT ![r] = call[r] + 1]
          /\ finished' = [finished EXCEPT ![r][call[r] + 1] = "save"]
          /\ UNCHANGED <<pc, running, log, told, cancelled>>
      BY <2>14 DEF FinishedRetried, SendFinished
    <3>3. QED
      BY <3>1, <3>2
  <2>15. ASSUME NEW r \in Run, FinishedAnswered(r) PROVE OneAtATime'
    BY <2>15, RunAssumption DEF FinishedAnswered, CallLost, Goto
  <2>16. ASSUME NEW r \in Run, Unregister(r) PROVE OneAtATime'
    BY <2>16, RunAssumption DEF Unregister, Goto
  <2>17. ASSUME NEW r \in Run, Leave(r) PROVE OneAtATime'
    BY <2>17, RunAssumption DEF Leave, Goto, Cancel
  <2>18. ASSUME NEW r \in Run, Unlock(r) PROVE OneAtATime'
    BY <2>18, RunAssumption DEF Unlock
  <2>19. ASSUME NEW r \in Run, LoseLock(r) PROVE OneAtATime'
    BY <2>19, RunAssumption DEF LoseLock
  <2>20. ASSUME NEW r \in Run, Timeout(r) PROVE OneAtATime'
    BY <2>20 DEF Timeout
  <2>21. ASSUME NEW r \in Run, NEW k \in Attempt, RunningRefusal(r, k)
        PROVE  OneAtATime'
    BY <2>21, RunAssumption DEF RunningRefusal, RunningStep
  <2>22. ASSUME NEW r \in Run, NEW k \in Attempt, RunningChecked(r, k)
        PROVE  OneAtATime'
    BY <2>22, RunAssumption DEF RunningChecked, RunningStep
  <2>23. ASSUME NEW r \in Run, NEW k \in Attempt, RunningUnchecked(r, k)
        PROVE  OneAtATime'
    BY <2>23, RunAssumption DEF RunningUnchecked, RunningStep
  <2>24. ASSUME NEW r \in Run, NEW k \in Attempt, RunningInserted(r, k)
        PROVE  OneAtATime'
    BY <2>24, RunAssumption DEF RunningInserted, RunningStep
  <2>25. ASSUME NEW r \in Run, NEW k \in Attempt, RunningStored(r, k)
        PROVE  OneAtATime'
    BY <2>25, RunAssumption DEF RunningStored, RunningStep
  <2>26. ASSUME NEW r \in Run, NEW k \in Attempt, RunningDenied(r, k)
        PROVE  OneAtATime'
    BY <2>26, RunAssumption DEF RunningDenied, RunningStep
  <2>27. ASSUME NEW r \in Run, NEW k \in Attempt, RunningCallFails(r, k)
        PROVE  OneAtATime'
    BY <2>27 DEF RunningCallFails
  <2>28. ASSUME NEW r \in Run, NEW k \in Attempt, FinishedSaved(r, k)
        PROVE  OneAtATime'
    BY <2>28, RunAssumption DEF FinishedSaved, FinishedStep, RowsUpdated, EndOf
  <2>29. ASSUME NEW r \in Run, NEW k \in Attempt, FinishedHandled(r, k)
        PROVE  OneAtATime'
    BY <2>29, RunAssumption DEF FinishedHandled, FinishedStep
  <2>30. ASSUME NEW r \in Run, NEW k \in Attempt, FinishedCallFails(r, k)
        PROVE  OneAtATime'
    <3>1. /\ Closing(r, k) /\ told[r] = "none"
          /\ finished' = [finished EXCEPT ![r][k] = "fail"]
          /\ UNCHANGED <<pc, call, running, log, told, cancelled>>
      BY <2>30 DEF FinishedCallFails, FinishedStep
    <3>2. QED
      BY <3>1
  <2>31. ASSUME NEW a \in Agent, Kill(a) PROVE OneAtATime'
    BY <2>31 DEF Kill
  <2>32. ASSUME NEW a \in Agent, Close(a) PROVE OneAtATime'
    BY <2>32, RunAssumption DEF Close
  <2>33. ASSUME NEW a \in Agent, Exit(a) PROVE OneAtATime'
    BY <2>33, RunAssumption DEF Exit, ProcessEnds
  <2>34. ASSUME NEW a \in Agent, Crash(a) PROVE OneAtATime'
    BY <2>34, RunAssumption DEF Crash, ProcessEnds
  <2>35. CASE StatusExpires
    BY <2>35, RunAssumption DEF StatusExpires
  <2>36. CASE SetScheduling
    BY <2>36, RunAssumption DEF SetScheduling
  <2>37. CASE UNCHANGED vars
    BY <2>37, RunAssumption DEF vars
  <2>38. QED
    BY <2>1, <2>2, <2>3, <2>4, <2>5, <2>6, <2>7, <2>8, <2>9, <2>10,
       <2>11, <2>12, <2>13, <2>14, <2>15, <2>16, <2>17, <2>18, <2>19,
       <2>20, <2>21, <2>22, <2>23, <2>24, <2>25, <2>26, <2>27, <2>28,
       <2>29, <2>30, <2>31, <2>32, <2>33, <2>34, <2>35, <2>36, <2>37
       DEF Next, Goroutine, Handler

\* In such a system the reports of a run are handled one at a time.
LEMMA OneAtATimeAlways ==
    ASSUME {"kill", "slow"} \cap Faults = {}
    PROVE  Spec => [](TypeOK /\ OneAtATime)
<1>1. "kill" \notin Faults /\ "slow" \notin Faults
  OBVIOUS
<1>2. Init => OneAtATime
  <2> SUFFICES ASSUME Init PROVE OneAtATime
    OBVIOUS
  <2>1. /\ cancelled = {} /\ executed = {}
        /\ \A r \in Run : pc[r] = "new" /\ log[r] = {} /\ told[r] = "none"
        /\ \A r \in Run, k \in Attempt :
             running[r][k] = "idle" /\ finished[r][k] = "idle"
    BY DEF Init
  <2>2. QED
    BY <2>1 DEF OneAtATime, Starting, Closing, Early
<1>3. TypeOK /\ ReportsSent /\ OneAtATime /\ [Next]_vars => OneAtATime'
  BY <1>1, OneAtATimeStep
<1>4. QED
  BY <1>2, <1>3, ReportsAreSent, TypeCorrect, PTL DEF Spec

\* A finished run is not brought back to life by a RUNNING report, in its row or
\* in the status key.
THEOREM EndedStaysEndedIfAwaited ==
    ASSUME {"kill", "slow"} \cap Faults = {}
    PROVE  Spec => EndedStaysEnded
<1>1. ASSUME TypeOK, OneAtATime, [Next]_vars, NEW r \in Run,
             told[r] # "none", log[r] = {"closed"}
      PROVE  log'[r] = {"closed"} /\ (status # r => status' # r)
  <2> DEFINE Kept == log'[r] = {"closed"} /\ (status # r => status' # r)
  <2> USE <1>1 DEF TypeOK, agentVars, centerVars
  <2>1. ASSUME NEW q \in Run, TurnAway(q) PROVE Kept
    BY <2>1 DEF TurnAway, Answer, Goto
  <2>2. ASSUME NEW q \in Run, Dispatch(q) PROVE Kept
    BY <2>2 DEF Dispatch, Goto
  <2>3. ASSUME NEW q \in Run, TakeLock(q) PROVE Kept
    BY <2>3 DEF TakeLock, Goto
  <2>4. ASSUME NEW q \in Run, LockRefused(q) PROVE Kept
    BY <2>4 DEF LockRefused, Goto, Answer, Cancel
  <2>5. ASSUME NEW q \in Run, LockAbandoned(q) PROVE Kept
    BY <2>5 DEF LockAbandoned, Goto, Cancel
  <2>6. ASSUME NEW q \in Run, Register(q) PROVE Kept
    BY <2>6 DEF Register, Goto, SendRunning
  <2>7. ASSUME NEW q \in Run, RunningAccepted(q) PROVE Kept
    BY <2>7 DEF RunningAccepted, Goto
  <2>8. ASSUME NEW q \in Run, RunningRefused(q) PROVE Kept
    BY <2>8 DEF RunningRefused, Goto, SendFinished
  <2>9. ASSUME NEW q \in Run, RunningRetried(q) PROVE Kept
    BY <2>9 DEF RunningRetried, SendRunning
  <2>10. ASSUME NEW q \in Run, RunningFailed(q) PROVE Kept
    BY <2>10 DEF RunningFailed, CallLost, Goto, Cancel, Answer
  <2>11. ASSUME NEW q \in Run, Execute(q) PROVE Kept
    BY <2>11 DEF Execute, Goto, Answer
  <2>12. ASSUME NEW q \in Run, NotExecuted(q) PROVE Kept
    BY <2>12 DEF NotExecuted, Goto, Answer, SendFinished
  <2>13. ASSUME NEW q \in Run, CommandEnds(q) PROVE Kept
    BY <2>13 DEF CommandEnds, Goto, SendFinished
  <2>14. ASSUME NEW q \in Run, FinishedRetried(q) PROVE Kept
    BY <2>14 DEF FinishedRetried, CallLost, SendFinished
  <2>15. ASSUME NEW q \in Run, FinishedAnswered(q) PROVE Kept
    BY <2>15 DEF FinishedAnswered, Goto
  <2>16. ASSUME NEW q \in Run, Unregister(q) PROVE Kept
    BY <2>16 DEF Unregister, Goto
  <2>17. ASSUME NEW q \in Run, Leave(q) PROVE Kept
    BY <2>17 DEF Leave, Goto, Cancel
  <2>18. ASSUME NEW q \in Run, Unlock(q) PROVE Kept
    BY <2>18 DEF Unlock
  <2>19. ASSUME NEW q \in Run, LoseLock(q) PROVE Kept
    BY <2>19 DEF LoseLock
  <2>20. ASSUME NEW q \in Run, Timeout(q) PROVE Kept
    BY <2>20 DEF Timeout
  <2>21. ASSUME NEW q \in Run, NEW i \in Attempt, RunningRefusal(q, i)
        PROVE  Kept
    BY <2>21 DEF RunningRefusal, RunningStep
  <2>22. ASSUME NEW q \in Run, NEW i \in Attempt, RunningChecked(q, i)
        PROVE  Kept
    BY <2>22 DEF RunningChecked, RunningStep
  <2>23. ASSUME NEW q \in Run, NEW i \in Attempt, RunningUnchecked(q, i)
        PROVE  Kept
    BY <2>23 DEF RunningUnchecked, RunningStep
  <2>24. ASSUME NEW q \in Run, NEW i \in Attempt, RunningInserted(q, i)
        PROVE  Kept
    <3>1. q # r
      BY <2>24 DEF RunningInserted, RunningStep, OneAtATime, Starting, Closing, Early
    <3>2. QED
      BY <2>24, <3>1 DEF RunningInserted, RunningStep
  <2>25. ASSUME NEW q \in Run, NEW i \in Attempt, RunningStored(q, i)
        PROVE  Kept
    <3>1. q # r
      BY <2>25 DEF RunningStored, RunningStep, OneAtATime, Starting, Closing, Early
    <3>2. QED
      BY <2>25, <3>1 DEF RunningStored, RunningStep
  <2>26. ASSUME NEW q \in Run, NEW i \in Attempt, RunningDenied(q, i)
        PROVE  Kept
    BY <2>26 DEF RunningDenied, RunningStep
  <2>27. ASSUME NEW q \in Run, NEW i \in Attempt, RunningCallFails(q, i)
        PROVE  Kept
    BY <2>27 DEF RunningCallFails
  <2>28. ASSUME NEW q \in Run, NEW i \in Attempt, FinishedSaved(q, i)
        PROVE  Kept
    <3>1. q # r
      BY <2>28 DEF FinishedSaved, FinishedStep, OneAtATime, Starting, Closing, Early
    <3>2. QED
      BY <2>28, <3>1 DEF FinishedSaved, FinishedStep, RowsUpdated
  <2>29. ASSUME NEW q \in Run, NEW i \in Attempt, FinishedHandled(q, i)
        PROVE  Kept
    BY <2>29, RunAssumption DEF FinishedHandled, FinishedStep
  <2>30. ASSUME NEW q \in Run, NEW i \in Attempt, FinishedCallFails(q, i)
        PROVE  Kept
    BY <2>30 DEF FinishedCallFails, FinishedStep
  <2>31. ASSUME NEW a \in Agent, Kill(a) PROVE Kept
    BY <2>31 DEF Kill
  <2>32. ASSUME NEW a \in Agent, Close(a) PROVE Kept
    BY <2>32 DEF Close
  <2>33. ASSUME NEW a \in Agent, Exit(a) PROVE Kept
    BY <2>33 DEF Exit, ProcessEnds
  <2>34. ASSUME NEW a \in Agent, Crash(a) PROVE Kept
    BY <2>34 DEF Crash, ProcessEnds
  <2>35. CASE StatusExpires
    BY <2>35, RunAssumption DEF StatusExpires
  <2>36. CASE SetScheduling
    BY <2>36 DEF SetScheduling
  <2>37. CASE UNCHANGED vars
    BY <2>37 DEF vars
  <2>38. QED
    BY <2>1, <2>2, <2>3, <2>4, <2>5, <2>6, <2>7, <2>8, <2>9, <2>10,
       <2>11, <2>12, <2>13, <2>14, <2>15, <2>16, <2>17, <2>18, <2>19,
       <2>20, <2>21, <2>22, <2>23, <2>24, <2>25, <2>26, <2>27, <2>28,
       <2>29, <2>30, <2>31, <2>32, <2>33, <2>34, <2>35, <2>36, <2>37
       DEF Next, Goroutine, Handler
<1>2. ASSUME TypeOK, OneAtATime, [Next]_vars
      PROVE  [\A r \in Run : told[r] # "none" /\ log[r] = {"closed"} =>
                log'[r] = {"closed"} /\ (status # r => status' # r)]_vars
  BY <1>1, <1>2
<1>3. QED
  BY <1>2, OneAtATimeAlways, PTL DEF Spec, EndedStaysEnded

\* CheckOrCreateScheduleLog refuses no run for a row of its own.
THEOREM NotRefusedForItselfIfAwaited ==
    ASSUME {"kill", "slow"} \cap Faults = {}
    PROVE  Spec => NotRefusedForItself
<1>1. ASSUME TypeOK, OneAtATime, [Next]_vars,
             NEW r \in Run, NEW k \in Attempt,
             running[r][k] = "check", running'[r][k] = "refused",
             r \in Active \/ scheduling
      PROVE  \E q \in Run \ {r} : log[q] # {} /\ PlanOf[q] = PlanOf[r]
  <2> DEFINE Goal == \E q \in Run \ {r} : log[q] # {} /\ PlanOf[q] = PlanOf[r]
  <2> USE <1>1 DEF TypeOK, agentVars, centerVars
  <2>1. ASSUME NEW q \in Run, TurnAway(q) PROVE Goal
    BY <2>1 DEF TurnAway, Answer, Goto
  <2>2. ASSUME NEW q \in Run, Dispatch(q) PROVE Goal
    BY <2>2 DEF Dispatch, Goto
  <2>3. ASSUME NEW q \in Run, TakeLock(q) PROVE Goal
    BY <2>3 DEF TakeLock, Goto
  <2>4. ASSUME NEW q \in Run, LockRefused(q) PROVE Goal
    BY <2>4 DEF LockRefused, Goto, Answer, Cancel
  <2>5. ASSUME NEW q \in Run, LockAbandoned(q) PROVE Goal
    BY <2>5 DEF LockAbandoned, Goto, Cancel
  <2>6. ASSUME NEW q \in Run, Register(q) PROVE Goal
    BY <2>6 DEF Register, Goto, SendRunning
  <2>7. ASSUME NEW q \in Run, RunningAccepted(q) PROVE Goal
    BY <2>7 DEF RunningAccepted, Goto
  <2>8. ASSUME NEW q \in Run, RunningRefused(q) PROVE Goal
    BY <2>8 DEF RunningRefused, Goto, SendFinished
  <2>9. ASSUME NEW q \in Run, RunningRetried(q) PROVE Goal
    BY <2>9 DEF RunningRetried, SendRunning
  <2>10. ASSUME NEW q \in Run, RunningFailed(q) PROVE Goal
    BY <2>10 DEF RunningFailed, CallLost, Goto, Cancel, Answer
  <2>11. ASSUME NEW q \in Run, Execute(q) PROVE Goal
    BY <2>11 DEF Execute, Goto, Answer
  <2>12. ASSUME NEW q \in Run, NotExecuted(q) PROVE Goal
    BY <2>12 DEF NotExecuted, Goto, Answer, SendFinished
  <2>13. ASSUME NEW q \in Run, CommandEnds(q) PROVE Goal
    BY <2>13 DEF CommandEnds, Goto, SendFinished
  <2>14. ASSUME NEW q \in Run, FinishedRetried(q) PROVE Goal
    BY <2>14 DEF FinishedRetried, CallLost, SendFinished
  <2>15. ASSUME NEW q \in Run, FinishedAnswered(q) PROVE Goal
    BY <2>15 DEF FinishedAnswered, Goto
  <2>16. ASSUME NEW q \in Run, Unregister(q) PROVE Goal
    BY <2>16 DEF Unregister, Goto
  <2>17. ASSUME NEW q \in Run, Leave(q) PROVE Goal
    BY <2>17 DEF Leave, Goto, Cancel
  <2>18. ASSUME NEW q \in Run, Unlock(q) PROVE Goal
    BY <2>18 DEF Unlock
  <2>19. ASSUME NEW q \in Run, LoseLock(q) PROVE Goal
    BY <2>19 DEF LoseLock
  <2>20. ASSUME NEW q \in Run, Timeout(q) PROVE Goal
    BY <2>20 DEF Timeout
  <2>21. ASSUME NEW q \in Run, NEW i \in Attempt, RunningRefusal(q, i)
        PROVE  Goal
    <3>1. running' = [running EXCEPT ![q][i] = "refused"]
      BY <2>21 DEF RunningRefusal, RunningStep
    <3>2. q = r
      BY <3>1
    <3>3. RowExists(q)
      BY <2>21, <3>2 DEF RunningRefusal
    <3>4. log[r] = {}
      BY DEF OneAtATime, Starting, Closing, Early
    <3>5. PICK p \in Run : log[p] # {} /\ PlanOf[p] = PlanOf[r]
      BY <3>2, <3>3 DEF RowExists
    <3>6. p # r
      BY <3>4, <3>5
    <3>7. QED
      BY <3>5, <3>6
  <2>22. ASSUME NEW q \in Run, NEW i \in Attempt, RunningChecked(q, i)
        PROVE  Goal
    BY <2>22 DEF RunningChecked, RunningStep
  <2>23. ASSUME NEW q \in Run, NEW i \in Attempt, RunningUnchecked(q, i)
        PROVE  Goal
    BY <2>23 DEF RunningUnchecked, RunningStep
  <2>24. ASSUME NEW q \in Run, NEW i \in Attempt, RunningInserted(q, i)
        PROVE  Goal
    BY <2>24 DEF RunningInserted, RunningStep
  <2>25. ASSUME NEW q \in Run, NEW i \in Attempt, RunningStored(q, i)
        PROVE  Goal
    BY <2>25 DEF RunningStored, RunningStep
  <2>26. ASSUME NEW q \in Run, NEW i \in Attempt, RunningDenied(q, i)
        PROVE  Goal
    BY <2>26 DEF RunningDenied, RunningStep
  <2>27. ASSUME NEW q \in Run, NEW i \in Attempt, RunningCallFails(q, i)
        PROVE  Goal
    BY <2>27 DEF RunningCallFails
  <2>28. ASSUME NEW q \in Run, NEW i \in Attempt, FinishedSaved(q, i)
        PROVE  Goal
    BY <2>28 DEF FinishedSaved, FinishedStep, RowsUpdated, EndOf
  <2>29. ASSUME NEW q \in Run, NEW i \in Attempt, FinishedHandled(q, i)
        PROVE  Goal
    BY <2>29 DEF FinishedHandled, FinishedStep
  <2>30. ASSUME NEW q \in Run, NEW i \in Attempt, FinishedCallFails(q, i)
        PROVE  Goal
    BY <2>30 DEF FinishedCallFails, FinishedStep
  <2>31. ASSUME NEW a \in Agent, Kill(a) PROVE Goal
    BY <2>31 DEF Kill
  <2>32. ASSUME NEW a \in Agent, Close(a) PROVE Goal
    BY <2>32 DEF Close
  <2>33. ASSUME NEW a \in Agent, Exit(a) PROVE Goal
    BY <2>33 DEF Exit, ProcessEnds
  <2>34. ASSUME NEW a \in Agent, Crash(a) PROVE Goal
    BY <2>34 DEF Crash, ProcessEnds
  <2>35. CASE StatusExpires
    BY <2>35, RunAssumption DEF StatusExpires
  <2>36. CASE SetScheduling
    BY <2>36 DEF SetScheduling
  <2>37. CASE UNCHANGED vars
    BY <2>37 DEF vars
  <2>38. QED
    BY <2>1, <2>2, <2>3, <2>4, <2>5, <2>6, <2>7, <2>8, <2>9, <2>10,
       <2>11, <2>12, <2>13, <2>14, <2>15, <2>16, <2>17, <2>18, <2>19,
       <2>20, <2>21, <2>22, <2>23, <2>24, <2>25, <2>26, <2>27, <2>28,
       <2>29, <2>30, <2>31, <2>32, <2>33, <2>34, <2>35, <2>36, <2>37
       DEF Next, Goroutine, Handler
<1>2. ASSUME TypeOK, OneAtATime, [Next]_vars
      PROVE  [\A r \in Run, k \in Attempt :
                running[r][k] = "check" /\ running'[r][k] = "refused"
                /\ (r \in Active \/ scheduling) =>
                  \E q \in Run \ {r} : log[q] # {} /\ PlanOf[q] = PlanOf[r]]_vars
  BY <1>1, <1>2
<1>3. QED
  BY <1>2, OneAtATimeAlways, PTL DEF Spec, NotRefusedForItself

\* Without "deny", "slow" and "store" a command starts when the center is done
\* with its RUNNING report, and the one report of its end closes its row and is
\* passed on before it is answered.
EndsReported ==
    \A r \in Run :
        /\ pc[r] \in Early => \A k \in Attempt : finished[r][k] = "idle"
        /\ pc[r] = "telling" => call[r] \in Attempt
        /\ \A k \in Attempt :
               /\ running[r][k] # "fail" /\ finished[r][k] # "fail"
               /\ Starting(r, k) =>
                      /\ pc[r] = "reporting" => k = call[r]
                      /\ pc[r] = "ready" => r \in cancelled
                      /\ r \notin executed
               /\ Closing(r, k) => pc[r] \in {"telling", "gone"} /\ k = call[r]
        /\ r \in executed =>
               /\ pc[r] \notin {"new", "locking", "locked", "reporting", "ready",
                                "hung"}
               /\ pc[r] \in {"telling", "told", "leaving", "done"} =>
                      result[r] # "nil"
               /\ pc[r] \in {"told", "leaving", "done"} =>
                      log[r] = {"closed"} /\ told[r] # "none"
               /\ \A k \in Attempt :
                      /\ finished[r][k] # "idle" => result[r] # "nil"
                      /\ finished[r][k] \in {"del", "ok"} => log[r] = {"closed"}
                      /\ finished[r][k] = "ok" => told[r] # "none"

\* Each stage of the report of an end leaves what the next one finds.
LEMMA EndsReportedStep ==
    ASSUME "deny" \notin Faults, "slow" \notin Faults, "store" \notin Faults,
           TypeOK, ReportsSent, EndsReported, [Next]_vars
    PROVE  EndsReported'
<1> USE DEF ReportsSent, EndsReported, Starting, Closing, Early, TypeOK,
            agentVars, centerVars
<1>1. QED
  <2>1. ASSUME NEW r \in Run, TurnAway(r) PROVE EndsReported'
    BY <2>1, RunAssumption DEF TurnAway, Answer, Goto
  <2>2. ASSUME NEW r \in Run, Dispatch(r) PROVE EndsReported'
    BY <2>2, RunAssumption DEF Dispatch, Goto
  <2>3. ASSUME NEW r \in Run, TakeLock(r) PROVE EndsReported'
    BY <2>3, RunAssumption DEF TakeLock, Goto
  <2>4. ASSUME NEW r \in Run, LockRefused(r) PROVE EndsReported'
    BY <2>4, RunAssumption DEF LockRefused, Goto, Answer, Cancel
  <2>5. ASSUME NEW r \in Run, LockAbandoned(r) PROVE EndsReported'
    BY <2>5, RunAssumption DEF LockAbandoned, Goto, Cancel
  <2>6. ASSUME NEW r \in Run, Register(r) PROVE EndsReported'
    BY <2>6, RunAssumption DEF Register, Goto, SendRunning
  <2>7. ASSUME NEW r \in Run, RunningAccepted(r) PROVE EndsReported'
    BY <2>7, RunAssumption DEF RunningAccepted, Goto
  <2>8. ASSUME NEW r \in Run, RunningRefused(r) PROVE EndsReported'
    <3>1. pc[r] = "reporting" /\ running[r][call[r]] = "refused"
      BY <2>8 DEF RunningRefused
    <3>2. 1 \in Attempt
      BY RunAssumption DEF Attempt
    <3>3. /\ r \notin executed
          /\ \A k \in Attempt : finished[r][k] = "idle" /\ ~Starting(r, k)
      BY <3>1
    <3>4. /\ pc' = [pc EXCEPT ![r] = "telling"] /\ call' = [call EXCEPT ![r] = 1]
          /\ finished' = [finished EXCEPT ![r][1] = "save"]
          /\ UNCHANGED <<running, log, told, cancelled, executed>>
      BY <2>8 DEF RunningRefused, Goto, SendFinished
    <3>5. result' = result
      BY <2>8 DEF RunningRefused
    <3>6. QED
      BY <3>2, <3>3, <3>4, <3>5
  <2>9. ASSUME NEW r \in Run, RunningRetried(r) PROVE EndsReported'
    BY <2>9, NotRetried
  <2>10. ASSUME NEW r \in Run, RunningFailed(r) PROVE EndsReported'
    BY <2>10, RunAssumption DEF RunningFailed, CallLost, Goto, Cancel, Answer
  <2>11. ASSUME NEW r \in Run, Execute(r) PROVE EndsReported'
    <3>1. pc[r] = "ready" /\ r \notin executed /\ r \notin cancelled
      BY <2>11 DEF Execute
    <3>2. \A k \in Attempt : finished[r][k] = "idle" /\ ~Starting(r, k)
      BY <3>1
    <3>3. /\ pc' = [pc EXCEPT ![r] = "executing"]
          /\ executed' = executed \cup {r}
          /\ UNCHANGED <<result, running, finished, call, cancelled, log, told>>
      BY <2>11 DEF Execute, Goto
    <3>4. QED
      BY <3>1, <3>2, <3>3
  <2>12. ASSUME NEW r \in Run, NotExecuted(r) PROVE EndsReported'
    <3>1. pc[r] = "ready"
      BY <2>12 DEF NotExecuted
    <3>2. 1 \in Attempt
      BY RunAssumption DEF Attempt
    <3>3. /\ r \notin executed
          /\ \A k \in Attempt : finished[r][k] = "idle"
      BY <3>1
    <3>4. /\ pc' = [pc EXCEPT ![r] = "telling"] /\ call' = [call EXCEPT ![r] = 1]
          /\ finished' = [finished EXCEPT ![r][1] = "save"]
          /\ UNCHANGED <<running, log, told, cancelled, executed>>
      BY <2>12 DEF NotExecuted, Goto, SendFinished
    <3>5. \A q \in Run \ {r} : result'[q] = result[q]
      BY <2>12 DEF NotExecuted
    <3>6. QED
      BY <3>1, <3>2, <3>3, <3>4, <3>5
  <2>13. ASSUME NEW r \in Run, CommandEnds(r) PROVE EndsReported'
    <3>1. pc[r] = "executing"
      BY <2>13 DEF CommandEnds
    <3>2. 1 \in Attempt
      BY RunAssumption DEF Attempt
    <3>3. /\ pc[r] = "executing"
          /\ \A k \in Attempt : finished[r][k] = "idle"
      BY <3>1
    <3>4. /\ pc' = [pc EXCEPT ![r] = "telling"] /\ call' = [call EXCEPT ![r] = 1]
          /\ finished' = [finished EXCEPT ![r][1] = "save"]
          /\ UNCHANGED <<running, log, told, cancelled, executed>>
      BY <2>13 DEF CommandEnds, Goto, SendFinished
    <3>5. /\ \A q \in Run \ {r} : result'[q] = result[q]
          /\ result'[r] # "nil"
      BY <2>13 DEF CommandEnds
    <3>6. QED
      BY <3>2, <3>3, <3>4, <3>5
  <2>14. ASSUME NEW r \in Run, FinishedRetried(r) PROVE EndsReported'
    BY <2>14, RunAssumption DEF FinishedRetried, CallLost, SendFinished
  <2>15. ASSUME NEW r \in Run, FinishedAnswered(r) PROVE EndsReported'
    <3>1. finished[r][call[r]] = "ok" /\ pc[r] = "telling"
      BY <2>15 DEF FinishedAnswered, CallLost
    <3>2. /\ pc' = [pc EXCEPT ![r] = "told"]
          /\ UNCHANGED <<executed, cancelled, call, result, running, finished, log,
                         told>>
      BY <2>15 DEF FinishedAnswered, Goto
    <3>3. QED
      BY <3>1, <3>2
  <2>16. ASSUME NEW r \in Run, Unregister(r) PROVE EndsReported'
    BY <2>16, RunAssumption DEF Unregister, Goto
  <2>17. ASSUME NEW r \in Run, Leave(r) PROVE EndsReported'
    BY <2>17, RunAssumption DEF Leave, Goto, Cancel
  <2>18. ASSUME NEW r \in Run, Unlock(r) PROVE EndsReported'
    BY <2>18, RunAssumption DEF Unlock
  <2>19. ASSUME NEW r \in Run, LoseLock(r) PROVE EndsReported'
    BY <2>19, RunAssumption DEF LoseLock
  <2>20. ASSUME NEW r \in Run, Timeout(r) PROVE EndsReported'
    BY <2>20, RunAssumption DEF Timeout, Cancel
  <2>21. ASSUME NEW r \in Run, NEW k \in Attempt, RunningRefusal(r, k)
        PROVE  EndsReported'
    BY <2>21, RunAssumption DEF RunningRefusal, RunningStep
  <2>22. ASSUME NEW r \in Run, NEW k \in Attempt, RunningChecked(r, k)
        PROVE  EndsReported'
    BY <2>22, RunAssumption DEF RunningChecked, RunningStep
  <2>23. ASSUME NEW r \in Run, NEW k \in Attempt, RunningUnchecked(r, k)
        PROVE  EndsReported'
    BY <2>23, RunAssumption DEF RunningUnchecked, RunningStep
  <2>24. ASSUME NEW r \in Run, NEW k \in Attempt, RunningInserted(r, k)
        PROVE  EndsReported'
    <3>1. r \notin executed
      BY <2>24 DEF RunningInserted, RunningStep
    <3>2. /\ \A q \in Run \ {r} : log'[q] = log[q]
          /\ running' = [running EXCEPT ![r][k] = "put"]
          /\ UNCHANGED <<pc, call, cancelled, executed, result, finished, told>>
      BY <2>24 DEF RunningInserted, RunningStep
    <3>3. \A q \in executed : log'[q] = log[q]
      BY <3>1, <3>2
    <3>4. \A q \in Run, i \in Attempt :
             /\ Starting(q, i)' => Starting(q, i)
             /\ running'[q][i] # "fail"
      BY <2>24 DEF RunningInserted, RunningStep
    <3> HIDE DEF TypeOK, ReportsSent, Starting
    <3>5. QED
      BY <3>2, <3>3, <3>4
  <2>25. ASSUME NEW r \in Run, NEW k \in Attempt, RunningStored(r, k)
        PROVE  EndsReported'
    BY <2>25, RunAssumption DEF RunningStored, RunningStep
  <2>26. ASSUME NEW r \in Run, NEW k \in Attempt, RunningDenied(r, k)
        PROVE  EndsReported'
    BY <2>26, RunAssumption DEF RunningDenied, RunningStep
  <2>27. ASSUME NEW r \in Run, NEW k \in Attempt, RunningCallFails(r, k)
        PROVE  EndsReported'
    BY <2>27 DEF RunningCallFails
  <2>28. ASSUME NEW r \in Run, NEW k \in Attempt, FinishedSaved(r, k)
        PROVE  EndsReported'
    BY <2>28, RunAssumption DEF FinishedSaved, FinishedStep, RowsUpdated, EndOf
  <2>29. ASSUME NEW r \in Run, NEW k \in Attempt, FinishedHandled(r, k)
        PROVE  EndsReported'
    BY <2>29, RunAssumption DEF FinishedHandled, FinishedStep
  <2>30. ASSUME NEW r \in Run, NEW k \in Attempt, FinishedCallFails(r, k)
        PROVE  EndsReported'
    BY <2>30, RunAssumption DEF FinishedCallFails, FinishedStep
  <2>31. ASSUME NEW a \in Agent, Kill(a) PROVE EndsReported'
    BY <2>31, RunAssumption DEF Kill, Cancel
  <2>32. ASSUME NEW a \in Agent, Close(a) PROVE EndsReported'
    BY <2>32, RunAssumption DEF Close
  <2>33. ASSUME NEW a \in Agent, Exit(a) PROVE EndsReported'
    BY <2>33, RunAssumption DEF Exit, ProcessEnds
  <2>34. ASSUME NEW a \in Agent, Crash(a) PROVE EndsReported'
    BY <2>34, RunAssumption DEF Crash, ProcessEnds
  <2>35. CASE StatusExpires
    BY <2>35, RunAssumption DEF StatusExpires
  <2>36. CASE SetScheduling
    BY <2>36, RunAssumption DEF SetScheduling
  <2>37. CASE UNCHANGED vars
    BY <2>37, RunAssumption DEF vars
  <2>38. QED
    BY <2>1, <2>2, <2>3, <2>4, <2>5, <2>6, <2>7, <2>8, <2>9, <2>10,
       <2>11, <2>12, <2>13, <2>14, <2>15, <2>16, <2>17, <2>18, <2>19,
       <2>20, <2>21, <2>22, <2>23, <2>24, <2>25, <2>26, <2>27, <2>28,
       <2>29, <2>30, <2>31, <2>32, <2>33, <2>34, <2>35, <2>36, <2>37
       DEF Next, Goroutine, Handler

\* A run whose command was started is forgotten only with a closed row and its
\* outcome passed on (SaveTaskLog and HandlerTaskFinished before
\* DeleteExecutingTask), whoever is killed, crashes or loses the lock, as long as
\* no report is refused or late and the log can be stored.
THEOREM ReportedIfAccepted ==
    ASSUME {"deny", "slow", "store"} \cap Faults = {}
    PROVE  Spec => []ReportedBeforeForgotten
<1>1. "deny" \notin Faults /\ "slow" \notin Faults /\ "store" \notin Faults
  OBVIOUS
<1>2. Init => EndsReported
  <2> SUFFICES ASSUME Init PROVE EndsReported
    OBVIOUS
  <2>1. /\ cancelled = {} /\ executed = {}
        /\ \A r \in Run : pc[r] = "new" /\ log[r] = {} /\ told[r] = "none"
        /\ \A r \in Run, k \in Attempt :
             running[r][k] = "idle" /\ finished[r][k] = "idle"
    BY DEF Init
  <2>2. QED
    BY <2>1 DEF EndsReported, Starting, Closing, Early
<1>3. TypeOK /\ ReportsSent /\ EndsReported /\ [Next]_vars => EndsReported'
  BY <1>1, EndsReportedStep
<1>4. TypeOK /\ EndsReported => ReportedBeforeForgotten
  BY DEF TypeOK, EndsReported, ReportedBeforeForgotten
<1>5. QED
  BY <1>2, <1>3, <1>4, ReportsAreSent, TypeCorrect, PTL DEF Spec
=============================================================================
