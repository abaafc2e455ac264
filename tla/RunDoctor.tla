------------------------------ MODULE RunDoctor ------------------------------
(***************************************************************************)
(* The running record of one task, its rows in gc_task_log_p and its       *)
(* status key in etcd, and those who write it: the reports of the runs,    *)
(* the task doctor and KillTask.                                           *)
(*                                                                         *)
(* A checker reads the key, asks the agent, reads the row and writes it    *)
(* back in four steps (app/schedule.go, app/etcd.go); reports pass between *)
(* any two of them.  Runs follow each other: they have the task's lock.    *)
(***************************************************************************)
EXTENDS Naturals

CONSTANTS Run,          \* the runs of the task
          Doctor,       \* rounds of the task doctor for a row
          Killer,       \* calls of KillTask
          NoRun,        \* no status key
          MaxDoubts     \* bound: crashes, failed calls, lost connections,
                        \* passed deadlines

(* A checker is of one kind, and no run is mistaken for a missing key.     *)
ASSUME CheckerAssumption ==
  NoRun \notin Run /\ Doctor \cap Killer = {} /\ MaxDoubts \in Nat

VARIABLES
  host,         \* per run: the agent it is planned for
  running,      \* runs in their agent's TaskExecutingTable
  report,       \* per run: the report the center is handling
  row,          \* per run: its row in gc_task_log_p
  statusKey,    \* the run the status key names
  check,        \* per checker
  rowLock,      \* per checker: the rows its open transaction has updated
  doubted,      \* history: runs of which the center may think wrongly
  doubts        \* how many bounded faults there were

doctorVars == <<host, running, report, row, statusKey, check, rowLock,
                doubted, doubts>>

Checker == Doctor \union Killer
Host == {"here", "there"}
ReportSteps == {"none", "create", "put", "accepted", "save", "delete", "done"}

(* No row, one without an end_time, and two ways to have one: the report's *)
(* result, or the note that the agent is offline.                          *)
RowState == {"none", "open", "result", "offline"}

NoCheck == [step |-> "idle", of |-> NoRun, key |-> NoRun]

DoctorTypeOK ==
  /\ host \in [Run -> Host] /\ running \subseteq Run
  /\ report \in [Run -> ReportSteps]
  /\ row \in [Run -> RowState]
  /\ statusKey \in Run \union {NoRun}
  /\ check \in [Checker -> [step : {"idle", "asking", "reading", "writing",
                                    "deleting", "committing", "over"},
                            of : Run \union {NoRun},
                            key : Run \union {NoRun}]]
  /\ rowLock \in [Checker -> SUBSET Run]
  /\ doubted \subseteq Run /\ doubts \in 0..MaxDoubts

DoctorInit ==
  /\ host \in [Run -> Host] /\ running = {}
  /\ report = [r \in Run |-> "none"]
  /\ row = [r \in Run |-> "none"]
  /\ statusKey = NoRun
  /\ check = [c \in Checker |-> NoCheck]
  /\ rowLock = [c \in Checker |-> {}]
  /\ doubted = {} /\ doubts = 0

Locked(r) == \E c \in Checker : r \in rowLock[c]

(* Something happens after which the center may judge these runs wrongly.  *)
Doubt(runs) ==
  /\ doubts < MaxDoubts
  /\ doubts' = doubts + 1
  /\ doubted' = doubted \union runs

NoDoubt == UNCHANGED <<doubted, doubts>>

-----------------------------------------------------------------------------
(* A run and its reports.                                                  *)

(* The run enters the executing table and reports RUNNING.                 *)
StartRun(r) ==
  /\ report[r] = "none" /\ running = {}
  /\ running' = {r}
  /\ report' = [report EXCEPT ![r] = "create"]
  /\ UNCHANGED <<host, row, statusKey, check, rowLock>> /\ NoDoubt

(* CheckOrCreateScheduleLog.                                               *)
CreateRow(r) ==
  /\ report[r] = "create"
  /\ row' = [row EXCEPT ![r] = "open"]
  /\ report' = [report EXCEPT ![r] = "put"]
  /\ UNCHANGED <<host, running, statusKey, check, rowLock>> /\ NoDoubt

(* The status key, with the task's timeout as its lease.                   *)
PutKey(r) ==
  /\ report[r] = "put"
  /\ statusKey' = r
  /\ report' = [report EXCEPT ![r] = "accepted"]
  /\ UNCHANGED <<host, running, row, check, rowLock>> /\ NoDoubt

(* Put fails, the repeated report is refused and the agent gives up.       *)
PutFails(r) ==
  /\ report[r] = "put"
  /\ report' = [report EXCEPT ![r] = "done"]
  /\ running' = running \ {r}
  /\ Doubt({r})
  /\ UNCHANGED <<host, row, statusKey, check, rowLock>>

(* The command ended: FINISHED is on its way.                              *)
EndRun(r) ==
  /\ report[r] = "accepted" /\ r \in running
  /\ report' = [report EXCEPT ![r] = "save"]
  /\ UNCHANGED <<host, running, row, statusKey, check, rowLock>> /\ NoDoubt

(* SaveTaskLog, which waits for a transaction that has updated the row and *)
(* only logs an error.                                                     *)
SaveResult(r) ==
  /\ report[r] = "save" /\ ~Locked(r)
  /\ row' = [row EXCEPT ![r] = "result"]
  /\ report' = [report EXCEPT ![r] = "delete"]
  /\ UNCHANGED <<host, running, statusKey, check, rowLock>> /\ NoDoubt

SaveFails(r) ==
  /\ report[r] = "save"
  /\ report' = [report EXCEPT ![r] = "delete"]
  /\ Doubt({r})
  /\ UNCHANGED <<host, running, row, statusKey, check, rowLock>>

(* HandlerTaskFinished deletes the key, whichever run it names; then the   *)
(* agent clears its table.                                                 *)
DeleteKey(r) ==
  /\ report[r] = "delete"
  /\ statusKey' = NoRun
  /\ report' = [report EXCEPT ![r] = "done"]
  /\ running' = running \ {r}
  /\ UNCHANGED <<host, row, check, rowLock>> /\ NoDoubt

(* The agent's process dies.  A report under way is handled all the same,  *)
(* maybe when the next run has put the key that it puts or deletes.        *)
AgentDies(r) ==
  /\ r \in running
  /\ running' = {}
  /\ report' = [report EXCEPT ![r] = IF @ = "accepted" THEN "done" ELSE @]
  /\ Doubt(IF report[r] = "accepted" THEN {r} ELSE Run)
  /\ UNCHANGED <<host, row, statusKey, check, rowLock>>

(* The lease of the key ends with the task's timeout.                      *)
KeyExpires ==
  /\ statusKey # NoRun
  /\ statusKey' = NoRun
  /\ Doubt({statusKey})
  /\ UNCHANGED <<host, running, report, row, check, rowLock>>

-----------------------------------------------------------------------------
(* The checkers: CheckTaskIsRunningWithResetStatus and KillTask.           *)

(* The doctor's query returned a run planned for two hours ago; the key    *)
(* is read as it is now.                                                   *)
Examine(c, r) ==
  /\ c \in Doctor /\ check[c].step = "idle"
  /\ row[r] = "open" /\ report[r] # "put"
  /\ check' = [check EXCEPT ![c] =
       [step |-> "asking", of |-> r, key |-> statusKey]]
  /\ UNCHANGED <<host, running, report, row, statusKey, rowLock>> /\ NoDoubt

(* KillTask begins with the key.  The pause that the controller writes     *)
(* afterwards is an edit of PlanTable.                                     *)
Kill(c) ==
  /\ c \in Killer /\ check[c].step = "idle"
  /\ check' = [check EXCEPT ![c] =
       [step |-> "asking", of |-> statusKey, key |-> statusKey]]
  /\ UNCHANGED <<host, running, report, row, statusKey, rowLock>> /\ NoDoubt

(* The agent the key names says whether it runs the task, by the task and  *)
(* not by the run; without a key nobody is asked.                          *)
Found(c) ==
  /\ check[c].key # NoRun
  /\ \E q \in running : host[q] = host[check[c].key]

\* Faulty variant of AfterAnswer: the doctor does not ask whether the key is
\* that of the run it found running.
AfterAnswerSparesNobody(c, found) ==
  IF c \in Doctor THEN "reading"
    ELSE IF ~found /\ check[c].key # NoRun THEN "reading" ELSE "deleting"

(* A doctor spares the run of the key; a killer reads the row only if the  *)
(* key names a run that nobody executes.                                   *)
AfterAnswer(c, found) ==
  IF c \in Doctor
    THEN IF found /\ check[c].key = check[c].of THEN "over" ELSE "reading"
    ELSE IF ~found /\ check[c].key # NoRun THEN "reading" ELSE "deleting"

CheckSteps(c, from, to) ==
  /\ check[c].step = from
  /\ check' = [check EXCEPT ![c].step = to]
  /\ UNCHANGED <<host, running, report>>

AgentAnswers(c) ==
  /\ CheckSteps(c, "asking", AfterAnswer(c, Found(c)))
  /\ UNCHANGED <<row, statusKey, rowLock>> /\ NoDoubt

(* The agent's stream is not listed: the same as a negative answer.  The   *)
(* five minutes of grace are only for an agent that has answered.          *)
AgentUnlisted(c) ==
  /\ Found(c)
  /\ CheckSteps(c, "asking", AfterAnswer(c, FALSE))
  /\ Doubt(running)
  /\ UNCHANGED <<row, statusKey, rowLock>>

(* The run is overdue, or the agent was inactive for five minutes.         *)
RunOverdue(c) ==
  /\ c \in Doctor /\ Found(c) /\ check[c].key = check[c].of
  /\ CheckSteps(c, "asking", "reading")
  /\ Doubt({check[c].of})
  /\ UNCHANGED <<row, statusKey, rowLock>>

(* No answer, or a failed query: the check ends without effect.            *)
CheckFails(c) ==
  /\ check[c].step \in {"asking", "reading"}
  /\ CheckSteps(c, check[c].step, "over")
  /\ UNCHANGED <<row, statusKey, rowLock>> /\ NoDoubt

\* Faulty variant of ReadRow: the row's EndTime is not looked at.
ReadRowIgnoresEnd(c) ==
  /\ CheckSteps(c, "reading",
       IF row[check[c].of] = "none" THEN "over" ELSE "writing")
  /\ UNCHANGED <<row, statusKey, rowLock>> /\ NoDoubt

(* GetOne; a killer that finds no row panics.                              *)
ReadRow(c) ==
  /\ LET seen == row[check[c].of] IN
       CheckSteps(c, "reading",
         CASE seen = "none" -> "over"
           [] seen = "open" -> "writing"
           [] OTHER -> IF c \in Doctor THEN "over" ELSE "deleting")
  /\ UNCHANGED <<row, statusKey, rowLock>> /\ NoDoubt

(* GetOne reads a replica, which may be behind.                            *)
ReadOldRow(c) ==
  /\ check[c].step = "reading" /\ row[check[c].of] \in {"result", "offline"}
  /\ CheckSteps(c, "reading", "writing")
  /\ Doubt({check[c].of})
  /\ UNCHANGED <<row, statusKey, rowLock>>

(* CreateOrUpdateTaskLog in a transaction.  The doctor commits at once     *)
(* unless the key is the run's.                                            *)
WriteRow(c) ==
  /\ check[c].step = "writing" /\ ~Locked(check[c].of)
  /\ CheckSteps(c, "writing",
       IF c \in Killer \/ check[c].key = check[c].of
         THEN "deleting" ELSE "committing")
  /\ rowLock' = [rowLock EXCEPT ![c] = {check[c].of}]
  /\ UNCHANGED <<row, statusKey>> /\ NoDoubt

WriteRowFails(c) ==
  /\ CheckSteps(c, "writing", "over")
  /\ UNCHANGED <<row, statusKey, rowLock>> /\ NoDoubt

(* DelTaskRunningKey deletes whatever the key is now, which may be the key *)
(* of a run that began after the check.                                    *)
DropKey(c) ==
  /\ CheckSteps(c, "deleting", "committing")
  /\ statusKey' = NoRun
  /\ doubted' = doubted \union
       (IF c \in Doctor THEN running \ {check[c].of} ELSE running)
  /\ UNCHANGED <<row, rowLock, doubts>>

(* The doctor rolls back; the killer leaves its transaction open.          *)
DropKeyFails(c) ==
  /\ CheckSteps(c, "deleting", "over")
  /\ rowLock' = IF c \in Doctor THEN [rowLock EXCEPT ![c] = {}] ELSE rowLock
  /\ UNCHANGED <<row, statusKey>> /\ NoDoubt

Commit(c) ==
  /\ CheckSteps(c, "committing", "over")
  /\ row' = [r \in Run |-> IF r \in rowLock[c] THEN "offline" ELSE row[r]]
  /\ rowLock' = [rowLock EXCEPT ![c] = {}]
  /\ UNCHANGED statusKey /\ NoDoubt

DoctorNext ==
  \/ \E r \in Run : \/ StartRun(r) \/ CreateRow(r) \/ PutKey(r) \/ PutFails(r)
                    \/ EndRun(r) \/ SaveResult(r) \/ SaveFails(r)
                    \/ DeleteKey(r) \/ AgentDies(r)
  \/ KeyExpires
  \/ \E c \in Checker, r \in Run : Examine(c, r)
  \/ \E c \in Checker :
       \/ Kill(c) \/ AgentAnswers(c) \/ AgentUnlisted(c) \/ RunOverdue(c)
       \/ CheckFails(c) \/ ReadRow(c) \/ ReadOldRow(c) \/ WriteRow(c)
       \/ WriteRowFails(c) \/ DropKey(c) \/ DropKeyFails(c) \/ Commit(c)

DoctorSpec == DoctorInit /\ [][DoctorNext]_doctorVars

-----------------------------------------------------------------------------
(* A run's result is never overwritten by "offline", although the checkers *)
(* ask and read long before they write: an agent reports the end before it *)
(* clears its table, so its "not running" is followed by a closed row.     *)
(* This fails only for runs the center had reason to misjudge: the agent   *)
(* died or was not listed, the run was overdue, a report was not stored,   *)
(* the replica was behind, or a checker deleted the key.                   *)
ResultKept ==
  [][\A r \in Run \ doubted :
        row[r] = "result" => row'[r] = "result"]_doctorVars

(* A run that executes is not recorded as offline, with the same reserve.  *)
OfflineIsOver == \A r \in running : row[r] = "offline" => r \in doubted
=============================================================================
