----------------------------- MODULE JobProofs -----------------------------
(***************************************************************************)
(* Proofs about the jobs of the leader and of the reports: the doctor      *)
(* (RunDoctor), temporary tasks (TempTask), the log table (LogTable) and the *)
(* webhooks (WebHooks), for any number of runs, tasks, days, targets,      *)
(* centers and calls.                                                      *)
(***************************************************************************)
EXTENDS RunDoctor, TempTask, LogTable, WebHooks, FiniteSetTheorems, TLAPS

-----------------------------------------------------------------------------
(***************************************************************************)
(* RunDoctor.                                                              *)
(***************************************************************************)
\* A run the center has no reason to misjudge.
Sure(r) == r \in Run \ doubted

\* One run executes at a time; a report whose agent died casts a doubt on all.
Reporting(r) == report[r] \in {"create", "put", "accepted", "save", "delete"}
Lonely == \A q, r \in running : q = r
Attended ==
  \A q \in Run : Reporting(q) => q \in running \/ Run \subseteq doubted

\* How far the report of such a run is, and what row and key say by then.
InStep ==
  \A r \in Run : Sure(r) =>
    /\ r \in running => Reporting(r)
    /\ report[r] \in {"none", "create"} => row[r] = "none"
    /\ report[r] \in {"put", "accepted", "save"} => row[r] = "open"
    /\ report[r] \in {"delete", "done"} => row[r] = "result"
    /\ report[r] \in {"accepted", "save"} => statusKey = r

\* A checker reads the row of such a run only when the run is over, and never
\* gets to write it.
NotChecked ==
  \A c \in Checker, r \in Run : check[c].of = r /\ Sure(r) =>
    /\ check[c].step = "asking"
         => check[c].key = r /\ report[r] \notin {"none", "create", "put"}
    /\ check[c].step = "reading"
         => report[r] \notin {"none", "create", "put"} /\ r \notin running
    /\ check[c].step # "writing"
    /\ c \in Doctor => check[c].step # "deleting"
KeyIsOld ==
  statusKey \in Run => report[statusKey] \notin {"none", "create", "put"}
\* A checker at work on a row has one, and a killer's is that of the key.
Aimed ==
  \A c \in Checker :
    /\ c \in Doctor /\ check[c].step # "idle" => check[c].of \in Run
    /\ c \in Killer => check[c].of = check[c].key
    /\ check[c].step \in {"reading", "writing"} => check[c].of \in Run
RowsDoubted == \A c \in Checker : rowLock[c] \subseteq doubted

Judged ==
  /\ DoctorTypeOK /\ Lonely /\ Attended /\ InStep /\ NotChecked /\ KeyIsOld
  /\ Aimed /\ RowsDoubted

-----------------------------------------------------------------------------
\* What one step of a check changes, and what it leaves to the other checks.
CheckStep == {"idle", "asking", "reading", "writing", "deleting", "committing",
              "over"}
OnlyTheStep(c, from, to) ==
  /\ UNCHANGED <<host, running, report>>
  /\ check[c].step = from
  /\ check' \in [Checker -> [step : CheckStep, of : Run \union {NoRun},
                            key : Run \union {NoRun}]]
  /\ \A d \in Checker :
       /\ check'[d].of = check[d].of
       /\ check'[d].key = check[d].key
       /\ check'[d].step = IF d = c THEN to ELSE check[d].step

\* A check of the doctor that goes on changes nothing but its own step.
LEMMA OneStepOfACheck ==
  ASSUME DoctorTypeOK, NEW c \in Checker, NEW from, NEW to \in CheckStep,
         CheckSteps(c, from, to)
  PROVE  OnlyTheStep(c, from, to)
  BY DEF DoctorTypeOK, CheckSteps, CheckStep, OnlyTheStep

\* The invariant holds at first, when no run has started.
LEMMA JudgedAtFirst == DoctorInit => Judged
  <1> SUFFICES ASSUME DoctorInit PROVE Judged
    OBVIOUS
  <1> USE CheckerAssumption DEF DoctorInit
  <1>1. DoctorTypeOK
    BY DEF DoctorTypeOK, NoCheck, RowState, ReportSteps
  <1>2. Lonely /\ Attended /\ InStep /\ KeyIsOld /\ RowsDoubted
    BY DEF Lonely, Attended, InStep, KeyIsOld, RowsDoubted, Reporting
  <1>3. NotChecked /\ Aimed
    BY DEF NotChecked, Aimed, NoCheck
  <1> QED BY <1>1, <1>2, <1>3 DEF Judged

\* It survives what agents and reports do,
LEMMA ReportsKeepJudgement ==
  ASSUME Judged, NEW r \in Run,
         \/ StartRun(r) \/ CreateRow(r) \/ PutKey(r) \/ PutFails(r)
         \/ EndRun(r) \/ SaveResult(r) \/ SaveFails(r)
         \/ DeleteKey(r) \/ AgentDies(r)
  PROVE  Judged'
  <1> USE CheckerAssumption DEF Judged, NoDoubt, Doubt
  <1>1. DoctorTypeOK'
    BY DEF DoctorTypeOK, ReportSteps, RowState, StartRun, CreateRow, PutKey,
           PutFails, EndRun, SaveResult, SaveFails, DeleteKey, AgentDies
  <1>2. CASE StartRun(r)
    <2> USE <1>2 DEF StartRun, DoctorTypeOK
    <2>1. Lonely' /\ Attended'
      BY DEF Lonely, Attended, Reporting
    <2>2. InStep'
      BY DEF InStep, Sure, Lonely, Attended, Reporting, RowsDoubted, Locked
    <2>3. NotChecked' /\ Aimed'
      BY DEF NotChecked, Aimed, Sure
    <2>4. KeyIsOld' /\ RowsDoubted'
      BY DEF KeyIsOld, RowsDoubted
    <2> QED BY <1>1, <2>1, <2>2, <2>3, <2>4
  <1>3. CASE CreateRow(r)
    <2> USE <1>3 DEF CreateRow, DoctorTypeOK
    <2>1. Lonely' /\ Attended'
      BY DEF Lonely, Attended, Reporting
    <2>2. InStep'
      BY DEF InStep, Sure, Lonely, Attended, Reporting, RowsDoubted, Locked
    <2>3. NotChecked' /\ Aimed'
      BY DEF NotChecked, Aimed, Sure
    <2>4. KeyIsOld' /\ RowsDoubted'
      BY DEF KeyIsOld, RowsDoubted
    <2> QED BY <1>1, <2>1, <2>2, <2>3, <2>4
  <1>4. CASE PutKey(r)
    <2> USE <1>4 DEF PutKey, DoctorTypeOK
    <2>1. Lonely' /\ Attended'
      BY DEF Lonely, Attended, Reporting
    <2>2. InStep'
      BY DEF InStep, Sure, Lonely, Attended, Reporting, RowsDoubted, Locked
    <2>3. NotChecked' /\ Aimed'
      BY DEF NotChecked, Aimed, Sure
    <2>4. KeyIsOld' /\ RowsDoubted'
      BY DEF KeyIsOld, RowsDoubted
    <2> QED BY <1>1, <2>1, <2>2, <2>3, <2>4
  <1>5. CASE PutFails(r)
    <2> USE <1>5 DEF PutFails, DoctorTypeOK
    <2>1. Lonely' /\ Attended'
      BY DEF Lonely, Attended, Reporting
    <2>2. InStep'
      BY DEF InStep, Sure, Lonely, Attended, Reporting, RowsDoubted, Locked
    <2>3. NotChecked' /\ Aimed'
      BY DEF NotChecked, Aimed, Sure
    <2>4. KeyIsOld' /\ RowsDoubted'
      BY DEF KeyIsOld, RowsDoubted
    <2> QED BY <1>1, <2>1, <2>2, <2>3, <2>4
  <1>6. CASE EndRun(r)
    <2> USE <1>6 DEF EndRun, DoctorTypeOK
    <2>1. Lonely' /\ Attended'
      BY DEF Lonely, Attended, Reporting
    <2>2. InStep'
      BY DEF InStep, Sure, Lonely, Attended, Reporting, RowsDoubted, Locked
    <2>3. NotChecked' /\ Aimed'
      BY DEF NotChecked, Aimed, Sure
    <2>4. KeyIsOld' /\ RowsDoubted'
      BY DEF KeyIsOld, RowsDoubted
    <2> QED BY <1>1, <2>1, <2>2, <2>3, <2>4
  <1>7. CASE SaveResult(r)
    <2> USE <1>7 DEF SaveResult, DoctorTypeOK
    <2>1. Lonely' /\ Attended'
      BY DEF Lonely, Attended, Reporting
    <2>2. InStep'
      BY DEF InStep, Sure, Lonely, Attended, Reporting, RowsDoubted, Locked
    <2>3. NotChecked' /\ Aimed'
      BY DEF NotChecked, Aimed, Sure
    <2>4. KeyIsOld' /\ RowsDoubted'
      BY DEF KeyIsOld, RowsDoubted
    <2> QED BY <1>1, <2>1, <2>2, <2>3, <2>4
  <1>8. CASE SaveFails(r)
    <2> USE <1>8 DEF SaveFails, DoctorTypeOK
    <2>1. Lonely' /\ Attended'
      BY DEF Lonely, Attended, Reporting
    <2>2. InStep'
      BY DEF InStep, Sure, Lonely, Attended, Reporting, RowsDoubted, Locked
    <2>3. NotChecked' /\ Aimed'
      BY DEF NotChecked, Aimed, Sure
    <2>4. KeyIsOld' /\ RowsDoubted'
      BY DEF KeyIsOld, RowsDoubted
    <2> QED BY <1>1, <2>1, <2>2, <2>3, <2>4
  <1>9. CASE DeleteKey(r)
    <2> USE <1>9 DEF DeleteKey, DoctorTypeOK
    <2>1. Lonely' /\ Attended'
      BY DEF Lonely, Attended, Reporting
    <2>2. InStep'
      BY DEF InStep, Sure, Lonely, Attended, Reporting, RowsDoubted, Locked
    <2>3. NotChecked' /\ Aimed'
      BY DEF NotChecked, Aimed, Sure
    <2>4. KeyIsOld' /\ RowsDoubted'
      BY DEF KeyIsOld, RowsDoubted
    <2> QED BY <1>1, <2>1, <2>2, <2>3, <2>4
  <1>10. CASE AgentDies(r)
    <2> USE <1>10 DEF AgentDies, DoctorTypeOK
    <2>1. Lonely' /\ Attended'
      BY DEF Lonely, Attended, Reporting
    <2>2. InStep'
      BY DEF InStep, Sure, Lonely, Attended, Reporting, RowsDoubted, Locked
    <2>3. NotChecked' /\ Aimed'
      BY DEF NotChecked, Aimed, Sure
    <2>4. KeyIsOld' /\ RowsDoubted'
      BY DEF KeyIsOld, RowsDoubted
    <2> QED BY <1>1, <2>1, <2>2, <2>3, <2>4
  <1> QED BY <1>2, <1>3, <1>4, <1>5, <1>6, <1>7, <1>8, <1>9, <1>10

\* the end of a key's lease,
LEMMA ExpiryKeepsJudgement ==
  ASSUME Judged, KeyExpires
  PROVE  Judged'
  <1> USE CheckerAssumption DEF Judged, NoDoubt, Doubt, KeyExpires
  <1>1. DoctorTypeOK'
    BY DEF DoctorTypeOK
  <1> USE DEF DoctorTypeOK
  <1>2. Lonely' /\ Attended' /\ KeyIsOld'
    BY DEF Lonely, Attended, Reporting, KeyIsOld
  <1>3. InStep'
    BY DEF InStep, Sure, Reporting, RowsDoubted, NotChecked
  <1>4. NotChecked'
    BY DEF NotChecked, Sure, InStep, Attended, Reporting, ReportSteps,
           KeyIsOld, Aimed
  <1>5. Aimed' /\ RowsDoubted'
    BY DEF Aimed, RowsDoubted, NotChecked, Sure
  <1> QED BY <1>1, <1>2, <1>3, <1>4, <1>5

\* a new round of the doctor,
LEMMA NewRoundKeepsJudgement ==
  ASSUME Judged, NEW c \in Checker, NEW r \in Run, Examine(c, r)
  PROVE  Judged'
  <1> USE CheckerAssumption DEF Judged, NoDoubt, Doubt, Examine
  <1>1. DoctorTypeOK'
    BY DEF DoctorTypeOK
  <1> USE DEF DoctorTypeOK
  <1>2. Lonely' /\ Attended' /\ KeyIsOld'
    BY DEF Lonely, Attended, Reporting, KeyIsOld
  <1>3. InStep'
    BY DEF InStep, Sure, Reporting, RowsDoubted, NotChecked
  <1>4. NotChecked'
    BY DEF NotChecked, Sure, InStep, Attended, Reporting, ReportSteps,
           KeyIsOld, Aimed
  <1>5. Aimed' /\ RowsDoubted'
    BY DEF Aimed, RowsDoubted, NotChecked, Sure
  <1> QED BY <1>1, <1>2, <1>3, <1>4, <1>5

\* a new call of KillTask,
LEMMA NewKillKeepsJudgement ==
  ASSUME Judged, NEW c \in Checker, Kill(c)
  PROVE  Judged'
  <1> USE CheckerAssumption DEF Judged, NoDoubt, Doubt, Kill
  <1>1. DoctorTypeOK'
    BY DEF DoctorTypeOK
  <1> USE DEF DoctorTypeOK
  <1>2. Lonely' /\ Attended' /\ KeyIsOld'
    BY DEF Lonely, Attended, Reporting, KeyIsOld
  <1>3. InStep'
    BY DEF InStep, Sure, Reporting, RowsDoubted, NotChecked
  <1>4. NotChecked'
    BY DEF NotChecked, Sure, InStep, Attended, Reporting, ReportSteps,
           KeyIsOld, Aimed
  <1>5. Aimed' /\ RowsDoubted'
    BY DEF Aimed, RowsDoubted, NotChecked, Sure
  <1> QED BY <1>1, <1>2, <1>3, <1>4, <1>5

\* and the steps of both.
LEMMA ChecksKeepJudgement ==
  ASSUME Judged, NEW c \in Checker,
         \/ AgentAnswers(c) \/ AgentUnlisted(c) \/ RunOverdue(c)
         \/ CheckFails(c) \/ ReadRow(c) \/ ReadOldRow(c)
         \/ WriteRow(c) \/ WriteRowFails(c) \/ DropKey(c)
         \/ DropKeyFails(c) \/ Commit(c)
  PROVE  Judged'
  <1> USE CheckerAssumption DEF Judged, NoDoubt, Doubt
  <1>1. CASE AgentAnswers(c)
    <2> DEFINE to == AfterAnswer(c, Found(c))
    <2>1. CheckSteps(c, "asking", to) /\ to \in CheckStep
      BY <1>1 DEF AgentAnswers, AfterAnswer, CheckStep
    <2>2. OnlyTheStep(c, "asking", to)
      <3> HIDE DEF to
      <3> QED BY <2>1, OneStepOfACheck
    <2> USE <1>1, <2>2 DEF AgentAnswers, OnlyTheStep
    <2>3. DoctorTypeOK'
      BY DEF DoctorTypeOK, CheckStep, Aimed, RowState
    <2> USE DEF DoctorTypeOK
    <2>4. Lonely' /\ Attended' /\ KeyIsOld'
      BY DEF Lonely, Attended, Reporting, KeyIsOld
    <2>5. InStep'
      BY DEF InStep, Sure, Reporting, RowsDoubted, NotChecked
    <2>6. NotChecked'
      BY DEF NotChecked, Sure, InStep, Attended, Reporting, ReportSteps,
             AfterAnswer, Found, Aimed
    <2>7. Aimed' /\ RowsDoubted'
      BY DEF Aimed, RowsDoubted, NotChecked, Sure, AfterAnswer, Checker, Found
    <2> QED BY <2>3, <2>4, <2>5, <2>6, <2>7
  <1>2. CASE AgentUnlisted(c)
    <2> DEFINE to == AfterAnswer(c, FALSE)
    <2>1. CheckSteps(c, "asking", to) /\ to \in CheckStep
      BY <1>2 DEF AgentUnlisted, AfterAnswer, CheckStep
    <2>2. OnlyTheStep(c, "asking", to)
      <3> HIDE DEF to
      <3> QED BY <2>1, OneStepOfACheck
    <2> USE <1>2, <2>2 DEF AgentUnlisted, OnlyTheStep
    <2>3. DoctorTypeOK'
      BY DEF DoctorTypeOK, CheckStep, Aimed, RowState
    <2> USE DEF DoctorTypeOK
    <2>4. Lonely' /\ Attended' /\ KeyIsOld'
      BY DEF Lonely, Attended, Reporting, KeyIsOld
    <2>5. InStep'
      BY DEF InStep, Sure, Reporting, RowsDoubted, NotChecked
    <2>6. NotChecked'
      BY DEF NotChecked, Sure, InStep, Attended, Reporting, ReportSteps,
             AfterAnswer, Found, Aimed
    <2>7. Aimed' /\ RowsDoubted'
      BY DEF Aimed, RowsDoubted, NotChecked, Sure, AfterAnswer, Checker, Found
    <2> QED BY <2>3, <2>4, <2>5, <2>6, <2>7
  <1>3. CASE RunOverdue(c)
    <2> DEFINE to == "reading"
    <2>1. CheckSteps(c, "asking", to) /\ to \in CheckStep
      BY <1>3 DEF RunOverdue, AfterAnswer, CheckStep
    <2>2. OnlyTheStep(c, "asking", to)
      <3> HIDE DEF to
      <3> QED BY <2>1, OneStepOfACheck
    <2> USE <1>3, <2>2 DEF RunOverdue, OnlyTheStep
    <2>3. DoctorTypeOK'
      BY DEF DoctorTypeOK, CheckStep, Aimed, RowState
    <2> USE DEF DoctorTypeOK
    <2>4. Lonely' /\ Attended' /\ KeyIsOld'
      BY DEF Lonely, Attended, Reporting, KeyIsOld
    <2>5. InStep'
      BY DEF InStep, Sure, Reporting, RowsDoubted, NotChecked
    <2>6. NotChecked'
      BY DEF NotChecked, Sure, InStep, Attended, Reporting, ReportSteps,
             AfterAnswer, Found, Aimed
    <2>7. Aimed' /\ RowsDoubted'
      BY DEF Aimed, RowsDoubted, NotChecked, Sure, AfterAnswer, Checker, Found
    <2> QED BY <2>3, <2>4, <2>5, <2>6, <2>7
  <1>4. CASE CheckFails(c)
    <2> DEFINE to == "over"
    <2>1. CheckSteps(c, check[c].step, to) /\ to \in CheckStep
      BY <1>4 DEF CheckFails, AfterAnswer, CheckStep
    <2>2. OnlyTheStep(c, check[c].step, to)
      <3> HIDE DEF to
      <3> QED BY <2>1, OneStepOfACheck
    <2> USE <1>4, <2>2 DEF CheckFails, OnlyTheStep
    <2>3. DoctorTypeOK'
      BY DEF DoctorTypeOK, CheckStep, Aimed, RowState
    <2> USE DEF DoctorTypeOK
    <2>4. Lonely' /\ Attended' /\ KeyIsOld'
      BY DEF Lonely, Attended, Reporting, KeyIsOld
    <2>5. InStep'
      BY DEF InStep, Sure, Reporting, RowsDoubted, NotChecked
    <2>6. NotChecked'
      BY DEF NotChecked, Sure, InStep, Attended, Reporting, ReportSteps,
             AfterAnswer, Found, Aimed
    <2>7. Aimed' /\ RowsDoubted'
      BY DEF Aimed, RowsDoubted, NotChecked, Sure, AfterAnswer, Checker, Found
    <2> QED BY <2>3, <2>4, <2>5, <2>6, <2>7
  <1>5. CASE ReadRow(c)
    <2> DEFINE to == CASE row[check[c].of] = "none" -> "over"
           [] row[check[c].of] = "open" -> "writing"
           [] OTHER -> IF c \in Doctor THEN "over" ELSE "deleting"
    <2>1. CheckSteps(c, "reading", to) /\ to \in CheckStep
      BY <1>5 DEF ReadRow, AfterAnswer, CheckStep
    <2>2. OnlyTheStep(c, "reading", to)
      <3> HIDE DEF to
      <3> QED BY <2>1, OneStepOfACheck
    <2> USE <1>5, <2>2 DEF ReadRow, OnlyTheStep
    <2>3. DoctorTypeOK'
      BY DEF DoctorTypeOK, CheckStep, Aimed, RowState
    <2> USE DEF DoctorTypeOK
    <2>4. Lonely' /\ Attended' /\ KeyIsOld'
      BY DEF Lonely, Attended, Reporting, KeyIsOld
    <2>5. InStep'
      BY DEF InStep, Sure, Reporting, RowsDoubted, NotChecked
    <2>6. NotChecked'
      BY DEF NotChecked, Sure, InStep, Attended, Reporting, ReportSteps,
             AfterAnswer, Found, Aimed
    <2>7. Aimed' /\ RowsDoubted'
      BY DEF Aimed, RowsDoubted, NotChecked, Sure, AfterAnswer, Checker, Found
    <2> QED BY <2>3, <2>4, <2>5, <2>6, <2>7
  <1>6. CASE ReadOldRow(c)
    <2> DEFINE to == "writing"
    <2>1. CheckSteps(c, "reading", to) /\ to \in CheckStep
      BY <1>6 DEF ReadOldRow, AfterAnswer, CheckStep
    <2>2. OnlyTheStep(c, "reading", to)
      <3> HIDE DEF to
      <3> QED BY <2>1, OneStepOfACheck
    <2> USE <1>6, <2>2 DEF ReadOldRow, OnlyTheStep
    <2>3. DoctorTypeOK'
      BY DEF DoctorTypeOK, CheckStep, Aimed, RowState
    <2> USE DEF DoctorTypeOK
    <2>4. Lonely' /\ Attended' /\ KeyIsOld'
      BY DEF Lonely, Attended, Reporting, KeyIsOld
    <2>5. InStep'
      BY DEF InStep, Sure, Reporting, RowsDoubted, NotChecked
    <2>6. NotChecked'
      BY DEF NotChecked, Sure, InStep, Attended, Reporting, ReportSteps,
             AfterAnswer, Found, Aimed
    <2>7. Aimed' /\ RowsDoubted'
      BY DEF Aimed, RowsDoubted, NotChecked, Sure, AfterAnswer, Checker, Found
    <2> QED BY <2>3, <2>4, <2>5, <2>6, <2>7
  <1>7. CASE WriteRow(c)
    <2> DEFINE to == IF c \in Killer \/ check[c].key = check[c].of
         THEN "deleting" ELSE "committing"
    <2>1. CheckSteps(c, "writing", to) /\ to \in CheckStep
      BY <1>7 DEF WriteRow, AfterAnswer, CheckStep
    <2>2. OnlyTheStep(c, "writing", to)
      <3> HIDE DEF to
      <3> QED BY <2>1, OneStepOfACheck
    <2> USE <1>7, <2>2 DEF WriteRow, OnlyTheStep
    <2>3. DoctorTypeOK'
      BY DEF DoctorTypeOK, CheckStep, Aimed, RowState
    <2> USE DEF DoctorTypeOK
    <2>4. Lonely' /\ Attended' /\ KeyIsOld'
      BY DEF Lonely, Attended, Reporting, KeyIsOld
    <2>5. InStep'
      BY DEF InStep, Sure, Reporting, RowsDoubted, NotChecked
    <2>6. NotChecked'
      BY DEF NotChecked, Sure, InStep, Attended, Reporting, ReportSteps,
             AfterAnswer, Found, Aimed
    <2>7. Aimed' /\ RowsDoubted'
      BY DEF Aimed, RowsDoubted, NotChecked, Sure, AfterAnswer, Checker, Found
    <2> QED BY <2>3, <2>4, <2>5, <2>6, <2>7
  <1>8. CASE WriteRowFails(c)
    <2> DEFINE to == "over"
    <2>1. CheckSteps(c, "writing", to) /\ to \in CheckStep
      BY <1>8 DEF WriteRowFails, AfterAnswer, CheckStep
    <2>2. OnlyTheStep(c, "writing", to)
      <3> HIDE DEF to
      <3> QED BY <2>1, OneStepOfACheck
    <2> USE <1>8, <2>2 DEF WriteRowFails, OnlyTheStep
    <2>3. DoctorTypeOK'
      BY DEF DoctorTypeOK, CheckStep, Aimed, RowState
    <2> USE DEF DoctorTypeOK
    <2>4. Lonely' /\ Attended' /\ KeyIsOld'
      BY DEF Lonely, Attended, Reporting, KeyIsOld
    <2>5. InStep'
      BY DEF InStep, Sure, Reporting, RowsDoubted, NotChecked
    <2>6. NotChecked'
      BY DEF NotChecked, Sure, InStep, Attended, Reporting, ReportSteps,
             AfterAnswer, Found, Aimed
    <2>7. Aimed' /\ RowsDoubted'
      BY DEF Aimed, RowsDoubted, NotChecked, Sure, AfterAnswer, Checker, Found
    <2> QED BY <2>3, <2>4, <2>5, <2>6, <2>7
  <1>9. CASE DropKey(c)
    <2> DEFINE to == "committing"
    <2>1. CheckSteps(c, "deleting", to) /\ to \in CheckStep
      BY <1>9 DEF DropKey, AfterAnswer, CheckStep
    <2>2. OnlyTheStep(c, "deleting", to)
      <3> HIDE DEF to
      <3> QED BY <2>1, OneStepOfACheck
    <2> USE <1>9, <2>2 DEF DropKey, OnlyTheStep
    <2>3. DoctorTypeOK'
      BY DEF DoctorTypeOK, CheckStep, Aimed, RowState
    <2> USE DEF DoctorTypeOK
    <2>4. Lonely' /\ Attended' /\ KeyIsOld'
      BY DEF Lonely, Attended, Reporting, KeyIsOld
    <2>5. InStep'
      BY DEF InStep, Sure, Reporting, RowsDoubted, NotChecked,
             Attended, Checker
    <2>6. NotChecked'
      BY DEF NotChecked, Sure, InStep, Attended, Reporting, ReportSteps,
             AfterAnswer, Found, Aimed
    <2>7. Aimed' /\ RowsDoubted'
      BY DEF Aimed, RowsDoubted, NotChecked, Sure, AfterAnswer, Checker, Found
    <2> QED BY <2>3, <2>4, <2>5, <2>6, <2>7
  <1>10. CASE DropKeyFails(c)
    <2> DEFINE to == "over"
    <2>1. CheckSteps(c, "deleting", to) /\ to \in CheckStep
      BY <1>10 DEF DropKeyFails, AfterAnswer, CheckStep
    <2>2. OnlyTheStep(c, "deleting", to)
      <3> HIDE DEF to
      <3> QED BY <2>1, OneStepOfACheck
    <2> USE <1>10, <2>2 DEF DropKeyFails, OnlyTheStep
    <2>3. DoctorTypeOK'
      BY DEF DoctorTypeOK, CheckStep, Aimed, RowState
    <2> USE DEF DoctorTypeOK
    <2>4. Lonely' /\ Attended' /\ KeyIsOld'
      BY DEF Lonely, Attended, Reporting, KeyIsOld
    <2>5. InStep'
      BY DEF InStep, Sure, Reporting, RowsDoubted, NotChecked
    <2>6. NotChecked'
      BY DEF NotChecked, Sure, InStep, Attended, Reporting, ReportSteps,
             AfterAnswer, Found, Aimed
    <2>7. Aimed' /\ RowsDoubted'
      BY DEF Aimed, RowsDoubted, NotChecked, Sure, AfterAnswer, Checker, Found
    <2> QED BY <2>3, <2>4, <2>5, <2>6, <2>7
  <1>11. CASE Commit(c)
    <2> DEFINE to == "over"
    <2>1. CheckSteps(c, "committing", to) /\ to \in CheckStep
      BY <1>11 DEF Commit, AfterAnswer, CheckStep
    <2>2. OnlyTheStep(c, "committing", to)
      <3> HIDE DEF to
      <3> QED BY <2>1, OneStepOfACheck
    <2> USE <1>11, <2>2 DEF Commit, OnlyTheStep
    <2>3. DoctorTypeOK'
      BY DEF DoctorTypeOK, CheckStep, Aimed, RowState
    <2> USE DEF DoctorTypeOK
    <2>4. Lonely' /\ Attended' /\ KeyIsOld'
      BY DEF Lonely, Attended, Reporting, KeyIsOld
    <2>5. InStep'
      BY DEF InStep, Sure, Reporting, RowsDoubted, NotChecked
    <2>6. NotChecked'
      BY DEF NotChecked, Sure, InStep, Attended, Reporting, ReportSteps,
             AfterAnswer, Found, Aimed
    <2>7. Aimed' /\ RowsDoubted'
      BY DEF Aimed, RowsDoubted, NotChecked, Sure, AfterAnswer, Checker, Found
    <2> QED BY <2>3, <2>4, <2>5, <2>6, <2>7
  <1> QED BY <1>1, <1>2, <1>3, <1>4, <1>5, <1>6, <1>7, <1>8, <1>9, <1>10, <1>11

\* So no step of the system breaks it.
LEMMA StepsKeepJudgement == Judged /\ [DoctorNext]_doctorVars => Judged'
  <1> SUFFICES ASSUME Judged, [DoctorNext]_doctorVars
               PROVE  Judged'
    OBVIOUS
  <1>1. CASE UNCHANGED doctorVars
    BY <1>1 DEF doctorVars, Judged, DoctorTypeOK, Lonely, Attended, InStep,
                NotChecked, KeyIsOld, Aimed, RowsDoubted, Sure, Reporting
  <1>2. ASSUME NEW r \in Run,
               \/ StartRun(r) \/ CreateRow(r) \/ PutKey(r) \/ PutFails(r)
               \/ EndRun(r) \/ SaveResult(r) \/ SaveFails(r)
               \/ DeleteKey(r) \/ AgentDies(r)
        PROVE  Judged'
    BY <1>2, ReportsKeepJudgement
  <1>3. ASSUME NEW c \in Checker, NEW r \in Run, Examine(c, r)
        PROVE  Judged'
    BY <1>3, NewRoundKeepsJudgement
  <1>4. ASSUME NEW c \in Checker, Kill(c)
        PROVE  Judged'
    BY <1>4, NewKillKeepsJudgement
  <1>5. ASSUME NEW c \in Checker,
               \/ AgentAnswers(c) \/ AgentUnlisted(c) \/ RunOverdue(c)
               \/ CheckFails(c) \/ ReadRow(c) \/ ReadOldRow(c)
               \/ WriteRow(c) \/ WriteRowFails(c) \/ DropKey(c)
               \/ DropKeyFails(c) \/ Commit(c)
        PROVE  Judged'
    BY <1>5, ChecksKeepJudgement
  <1> HIDE DEF Judged
  <1> QED
    BY <1>1, <1>2, <1>3, <1>4, <1>5, ExpiryKeepsJudgement, Zenon
    DEF DoctorNext

\* A run the center has no reason to doubt is never judged: no check of it gets
\* to write its row (app/app.go).
THEOREM JudgedAlways == DoctorSpec => []Judged
  BY JudgedAtFirst, StepsKeepJudgement, PTL DEF DoctorSpec

\* Every variable of the running record keeps its type.
THEOREM DoctorTypeCorrect == DoctorSpec => []DoctorTypeOK
  <1>1. Judged => DoctorTypeOK
    BY DEF Judged
  <1> QED BY <1>1, JudgedAlways, PTL

\* OfflineIsOver for any number of runs and checkers: a run of which the
\* center has no reason to think wrongly is never recorded as offline while
\* an agent executes it.
THEOREM OfflineIsOverAlways == DoctorSpec => []OfflineIsOver
  <1>1. Judged => OfflineIsOver
    BY DEF Judged, DoctorTypeOK, OfflineIsOver, InStep, Sure, Reporting
  <1> QED BY <1>1, JudgedAlways, PTL

\* ResultKept for any number of runs and checkers: the result of such a run
\* stays in its row, because no checker gets to write that row.
THEOREM ResultKeptAlways == DoctorSpec => ResultKept
  <1> DEFINE Held == \A r \in Run \ doubted :
                       row[r] = "result" => row'[r] = "result"
  <1>1. Judged /\ [DoctorNext]_doctorVars => [Held]_doctorVars
    <2> SUFFICES ASSUME Judged, DoctorNext, NEW r \in Run \ doubted,
                        row[r] = "result"
                 PROVE  row'[r] = "result"
      OBVIOUS
    <2>1. row \in [Run -> RowState] /\ InStep /\ RowsDoubted
      BY DEF Judged, DoctorTypeOK
    <2>2. report[r] # "create"
      BY <2>1 DEF InStep, Sure
    <2>3. CASE UNCHANGED row
      BY <2>3
    <2>4. ASSUME NEW q \in Run, CreateRow(q) \/ SaveResult(q)
          PROVE  row'[r] = "result"
      BY <2>1, <2>2, <2>4 DEF CreateRow, SaveResult
    <2>5. ASSUME NEW c \in Checker, Commit(c)
          PROVE  row'[r] = "result"
      BY <2>1, <2>5 DEF Commit, RowsDoubted
    <2> QED
      BY <2>3, <2>4, <2>5
      DEF DoctorNext, StartRun, PutKey, PutFails, EndRun, SaveFails, DeleteKey,
          AgentDies, KeyExpires, Examine, Kill, AgentAnswers, AgentUnlisted,
          RunOverdue, CheckFails, ReadRow, ReadOldRow, WriteRow, WriteRowFails,
          DropKey, DropKeyFails
  <1> QED BY <1>1, JudgedAlways, PTL DEF DoctorSpec, ResultKept

-----------------------------------------------------------------------------
(***************************************************************************)
(* TempTask.                                                               *)
(***************************************************************************)
\* What the election promises, and what it does not: a former leader works
\* on, but then all that it has in hand is excused.
OneLeader ==
  \A c, d \in Center : office[c] = "leader" /\ office[d] = "leader" => c = d
OutIsIdle ==
  \A c \in Center :
    /\ office[c] = "out" => round[c].pass = "idle"
    /\ round[c].pass = "idle" => Concerned(c) = {}
    /\ round[c].todo \cap round[c].hand = {}
OthersAreExcused ==
  \A c, d \in Center :
    /\ office[c] = "leader" /\ d # c => Concerned(d) \subseteq excused
    /\ d # c => Concerned(c) \cap Concerned(d) \subseteq excused

\* A task has met no fate before a worker has done with it.
NotYetCreated ==
  \A t \in Task : status[t] = "none" =>
    /\ fate[t] = "open"
    /\ \A c \in Center : t \notin Concerned(c)
OpenBefore ==
  \A t \in Task \ excused :
    /\ status[t] = "waiting" => fate[t] = "open"
    /\ \A c \in Center :
         /\ t \in Concerned(c) => fate[t] = "open"
         /\ t \in round[c].hand => status[t] # "waiting"

InTurn ==
  /\ TempTypeOK /\ OneLeader /\ OutIsIdle /\ OthersAreExcused
  /\ NotYetCreated /\ OpenBefore /\ OneFate

-----------------------------------------------------------------------------

\* The invariant holds at first, when no task has been stored.
LEMMA InTurnAtFirst == TempInit => InTurn
  BY TempAssumption
  DEF TempInit, InTurn, TempTypeOK, OneLeader, OutIsIdle, OthersAreExcused,
      NotYetCreated, OpenBefore, OneFate, Idle, Concerned, RowStatus, Clock

\* A round stays one when two of its parts are set.
Rounds == [pass : {"idle", "dispatch", "expire"}, todo : SUBSET Task,
           hand : SUBSET Task]

\* A round of the job that goes on is a round.
LEMMA RoundTyping ==
  ASSUME NEW all \in [Center -> Rounds], NEW c \in Center,
         NEW p \in {"idle", "dispatch", "expire"}, NEW a \in SUBSET Task,
         NEW b \in SUBSET Task
  PROVE  /\ [all EXCEPT ![c].pass = p, ![c].todo = a] \in [Center -> Rounds]
         /\ [all EXCEPT ![c].todo = a, ![c].hand = b] \in [Center -> Rounds]
  <1>1. [all[c] EXCEPT !.pass = p, !.todo = a] \in Rounds
    BY DEF Rounds
  <1>2. [all[c] EXCEPT !.todo = a, !.hand = b] \in Rounds
    BY DEF Rounds
  <1> HIDE DEF Rounds
  <1> QED BY <1>1, <1>2

\* The lists of a round hold waiting tasks.
LEMMA ListsAreWaiting ==
  DueTasks \subseteq Waiting /\ ExpiredTasks \subseteq Waiting
  BY DEF DueTasks, ExpiredTasks

\* The users, time and the cleaner.
LEMMA UsersKeepTurn ==
  ASSUME InTurn, NEW t \in Task, NEW d \in Clock,
         \/ DeleteTemp(t) \/ CreateTemp(t, d)
  PROVE  InTurn'
  <1> USE TempAssumption DEF InTurn, TempTypeOK, NoMishap, Mishap, Excuse,
              DeleteTemp, CreateTemp, Takes, Clock
  <1>1. TempTypeOK'
    BY DEF Meets, DueTasks, ExpiredTasks, Waiting, RowStatus, Fate, Idle
  <1>2. OneLeader' /\ OutIsIdle' /\ OthersAreExcused'
    BY DEF OneLeader, OutIsIdle, OthersAreExcused, Concerned, Idle
  <1>3. NotYetCreated'
    BY DEF NotYetCreated, Concerned, Meets, DueTasks, ExpiredTasks, Waiting,
           Idle
  <1>4. OpenBefore'
    BY DEF OpenBefore, NotYetCreated, OutIsIdle, OthersAreExcused, Concerned,
           Meets, DueTasks, ExpiredTasks, Waiting, Idle
  <1>5. OneFate'
    BY DEF OneFate, OpenBefore, OutIsIdle, Concerned, Meets, Fate, Idle
  <1> QED BY <1>1, <1>2, <1>3, <1>4, <1>5

\* The invariant survives the passing of time and the daily cleanup.
LEMMA TimeKeepsTurn ==
  ASSUME InTurn,
         \/ TimePasses \/ CleanTemp
  PROVE  InTurn'
  <1> USE TempAssumption DEF InTurn, TempTypeOK, NoMishap, Mishap, Excuse,
              TimePasses, CleanTemp, Takes, Clock
  <1>1. TempTypeOK'
    BY DEF Meets, DueTasks, ExpiredTasks, Waiting, RowStatus, Fate, Idle
  <1>2. OneLeader' /\ OutIsIdle' /\ OthersAreExcused'
    BY DEF OneLeader, OutIsIdle, OthersAreExcused, Concerned, Idle
  <1>3. NotYetCreated'
    BY DEF NotYetCreated, Concerned, Meets, DueTasks, ExpiredTasks, Waiting,
           Idle
  <1>4. OpenBefore'
    BY DEF OpenBefore, NotYetCreated, OutIsIdle, OthersAreExcused, Concerned,
           Meets, DueTasks, ExpiredTasks, Waiting, Idle
  <1>5. OneFate'
    BY DEF OneFate, OpenBefore, OutIsIdle, Concerned, Meets, Fate, Idle
  <1> QED BY <1>1, <1>2, <1>3, <1>4, <1>5

\* The election.
LEMMA ElectionKeepsTurn ==
  ASSUME InTurn, NEW c \in Center,
         \/ Elect(c) \/ LoseSession(c) \/ StepDown(c) \/ WorkerDies(c)
  PROVE  InTurn'
  <1> USE TempAssumption DEF InTurn, TempTypeOK, NoMishap, Mishap, Excuse,
              Takes, Clock, Concerned, Meets, Waiting, Idle
  <1>1. CASE Elect(c)
    <2>1. TempTypeOK'
      <3>1. UNION {Concerned(d) : d \in Center} \subseteq Task
        OBVIOUS
      <3>2. nextTick' \in [Center -> Nat]
        BY <1>1 DEF Elect
      <3> QED BY <1>1, <3>1, <3>2 DEF Elect
    <2>2. OneLeader' /\ OutIsIdle' /\ OthersAreExcused'
      BY <1>1 DEF Elect, OneLeader, OutIsIdle, OthersAreExcused
    <2>3. NotYetCreated'
      BY <1>1 DEF Elect, NotYetCreated
    <2>4. OpenBefore'
      BY <1>1 DEF Elect, OpenBefore, NotYetCreated, OutIsIdle,
                  OthersAreExcused
    <2>5. OneFate'
      BY <1>1 DEF Elect, OneFate, OpenBefore, OutIsIdle, Fate
    <2> QED BY <2>1, <2>2, <2>3, <2>4, <2>5
  <1>2. CASE LoseSession(c)
    <2>1. TempTypeOK'
      BY <1>2 DEF LoseSession, RowStatus, Fate
    <2>2. OneLeader' /\ OutIsIdle' /\ OthersAreExcused'
      BY <1>2 DEF LoseSession, OneLeader, OutIsIdle, OthersAreExcused
    <2>3. NotYetCreated'
      BY <1>2 DEF LoseSession, NotYetCreated
    <2>4. OpenBefore'
      BY <1>2 DEF LoseSession, OpenBefore, NotYetCreated, OutIsIdle,
                  OthersAreExcused
    <2>5. OneFate'
      BY <1>2 DEF LoseSession, OneFate, OpenBefore, OutIsIdle, Fate
    <2> QED BY <2>1, <2>2, <2>3, <2>4, <2>5
  <1>3. CASE StepDown(c)
    <2>1. TempTypeOK'
      BY <1>3 DEF StepDown, RowStatus, Fate
    <2>2. OneLeader' /\ OutIsIdle' /\ OthersAreExcused'
      BY <1>3 DEF StepDown, OneLeader, OutIsIdle, OthersAreExcused
    <2>3. NotYetCreated'
      BY <1>3 DEF StepDown, NotYetCreated
    <2>4. OpenBefore'
      BY <1>3 DEF StepDown, OpenBefore, NotYetCreated, OutIsIdle,
                  OthersAreExcused
    <2>5. OneFate'
      BY <1>3 DEF StepDown, OneFate, OpenBefore, OutIsIdle, Fate
    <2> QED BY <2>1, <2>2, <2>3, <2>4, <2>5
  <1>4. CASE WorkerDies(c)
    <2>1. TempTypeOK'
      BY <1>4 DEF WorkerDies, RowStatus, Fate
    <2>2. OneLeader' /\ OutIsIdle' /\ OthersAreExcused'
      BY <1>4 DEF WorkerDies, OneLeader, OutIsIdle, OthersAreExcused
    <2>3. NotYetCreated'
      BY <1>4 DEF WorkerDies, NotYetCreated
    <2>4. OpenBefore'
      BY <1>4 DEF WorkerDies, OpenBefore, NotYetCreated, OutIsIdle,
                  OthersAreExcused
    <2>5. OneFate'
      BY <1>4 DEF WorkerDies, OneFate, OpenBefore, OutIsIdle, Fate
    <2> QED BY <2>1, <2>2, <2>3, <2>4, <2>5
  <1> QED BY <1>1, <1>2, <1>3, <1>4

\* The rounds.
LEMMA RoundsKeepTurn ==
  ASSUME InTurn, NEW c \in Center,
         \/ Tick(c) \/ TickFails(c) \/ LoadExpired(c) \/ RoundEnds(c)
  PROVE  InTurn'
  <1> USE TempAssumption, ListsAreWaiting DEF InTurn, TempTypeOK,
              NoMishap, Mishap, Excuse, Takes, Clock, Concerned, Meets,
              Waiting, Idle
  <1>1. CASE Tick(c)
    <2>1. TempTypeOK'
      <3>1. nextTick' \in [Center -> Nat]
        <4>1. 2 * ((clock - nextTick[c]) \div 2 + 1) \in Nat
          BY <1>1 DEF Tick
        <4> QED BY <1>1, <4>1 DEF Tick
      <3>2. excused' \subseteq Task
        BY <1>1 DEF Tick
      <3>3. round' \in [Center -> Rounds]
        <4>1. round \in [Center -> Rounds]
          BY DEF Rounds
        <4>2. round' = [round EXCEPT ![c].pass = "dispatch",
                                  ![c].todo = DueTasks]
              /\ DueTasks \in SUBSET Task /\ c \in Center
          BY <1>1 DEF Tick
        <4> HIDE DEF Rounds
        <4> QED BY ONLY <4>1, <4>2, RoundTyping, Zenon
      <3> QED BY <1>1, <3>1, <3>2, <3>3 DEF Tick, Rounds
    <2>2. OneLeader' /\ OutIsIdle' /\ OthersAreExcused'
      BY <1>1 DEF Tick, OneLeader, OutIsIdle, OthersAreExcused
    <2>3. NotYetCreated'
      BY <1>1 DEF Tick, NotYetCreated
    <2>4. OpenBefore'
      BY <1>1 DEF Tick, OpenBefore, NotYetCreated, OutIsIdle,
                  OthersAreExcused
    <2>5. OneFate'
      BY <1>1 DEF Tick, OneFate, OpenBefore, OutIsIdle, Fate
    <2> QED BY <2>1, <2>2, <2>3, <2>4, <2>5
  <1>2. CASE TickFails(c)
    <2>1. TempTypeOK'
      BY <1>2 DEF TickFails, RowStatus, Fate
    <2>2. OneLeader' /\ OutIsIdle' /\ OthersAreExcused'
      BY <1>2 DEF TickFails, OneLeader, OutIsIdle, OthersAreExcused
    <2>3. NotYetCreated'
      BY <1>2 DEF TickFails, NotYetCreated
    <2>4. OpenBefore'
      BY <1>2 DEF TickFails, OpenBefore, NotYetCreated, OutIsIdle,
                  OthersAreExcused
    <2>5. OneFate'
      BY <1>2 DEF TickFails, OneFate, OpenBefore, OutIsIdle, Fate
    <2> QED BY <2>1, <2>2, <2>3, <2>4, <2>5
  <1>3. CASE LoadExpired(c)
    <2>1. TempTypeOK'
      <3>1. excused' \subseteq Task
        BY <1>3 DEF LoadExpired
      <3>2. round' \in [Center -> Rounds]
        <4>1. round \in [Center -> Rounds]
          BY DEF Rounds
        <4>2. round' = [round EXCEPT ![c].pass = "expire",
                                  ![c].todo = ExpiredTasks]
              /\ ExpiredTasks \in SUBSET Task /\ c \in Center
          BY <1>3 DEF LoadExpired
        <4> HIDE DEF Rounds
        <4> QED BY ONLY <4>1, <4>2, RoundTyping, Zenon
      <3> QED BY <1>3, <3>1, <3>2 DEF LoadExpired, Rounds
    <2>2. OneLeader' /\ OutIsIdle' /\ OthersAreExcused'
      BY <1>3 DEF LoadExpired, OneLeader, OutIsIdle, OthersAreExcused
    <2>3. NotYetCreated'
      BY <1>3 DEF LoadExpired, NotYetCreated
    <2>4. OpenBefore'
      BY <1>3 DEF LoadExpired, OpenBefore, NotYetCreated, OutIsIdle,
                  OthersAreExcused
    <2>5. OneFate'
      BY <1>3 DEF LoadExpired, OneFate, OpenBefore, OutIsIdle, Fate
    <2> QED BY <2>1, <2>2, <2>3, <2>4, <2>5
  <1>4. CASE RoundEnds(c)
    <2>1. TempTypeOK'
      BY <1>4 DEF RoundEnds, RowStatus, Fate
    <2>2. OneLeader' /\ OutIsIdle' /\ OthersAreExcused'
      BY <1>4 DEF RoundEnds, OneLeader, OutIsIdle, OthersAreExcused
    <2>3. NotYetCreated'
      BY <1>4 DEF RoundEnds, NotYetCreated
    <2>4. OpenBefore'
      BY <1>4 DEF RoundEnds, OpenBefore, NotYetCreated, OutIsIdle,
                  OthersAreExcused
    <2>5. OneFate'
      BY <1>4 DEF RoundEnds, OneFate, OpenBefore, OutIsIdle, Fate
    <2> QED BY <2>1, <2>2, <2>3, <2>4, <2>5
  <1> QED BY <1>1, <1>2, <1>3, <1>4

\* The worker with one task.
LEMMA WorkKeepsTurn ==
  ASSUME InTurn, NEW c \in Center, NEW t \in Task,
         NEW f \in {"sent", "failed"}, NEW done \in BOOLEAN,
         \/ MarkScheduled(c, t) \/ NotScheduled(c, t) \/ AnswerLost(c, t)
         \/ NobodyThere(c, t) \/ LogExpired(c, t) \/ Dispatch(c, t, f)
         \/ MarkExpired(c, t, done)
  PROVE  InTurn'
  <1> USE TempAssumption DEF InTurn, TempTypeOK, NoMishap, Mishap, Excuse,
              Takes, Clock, Concerned, Meets, Waiting, Idle
  <1>1. CASE MarkScheduled(c, t)
    <2>1. TempTypeOK'
      <3>1. status' \in [Task -> RowStatus]
        BY <1>1 DEF MarkScheduled, RowStatus
      <3>2. round' \in [Center -> Rounds]
        <4>1. round \in [Center -> Rounds]
          BY DEF Rounds
        <4>2. round' = [round EXCEPT ![c].todo = round[c].todo \ {t},
                                  ![c].hand = {t}]
              /\ round[c].todo \ {t} \in SUBSET Task /\ {t} \in SUBSET Task
              /\ c \in Center
          BY <1>1 DEF MarkScheduled
        <4> HIDE DEF Rounds
        <4> QED BY ONLY <4>1, <4>2, RoundTyping, Zenon
      <3> QED BY <1>1, <3>1, <3>2 DEF MarkScheduled, Rounds
    <2>2. OneLeader' /\ OutIsIdle' /\ OthersAreExcused'
      BY <1>1 DEF MarkScheduled, OneLeader, OutIsIdle, OthersAreExcused
    <2>3. NotYetCreated'
      BY <1>1 DEF MarkScheduled, NotYetCreated
    <2>4. OpenBefore'
      BY <1>1 DEF MarkScheduled, OpenBefore, NotYetCreated, OutIsIdle,
                  OthersAreExcused
    <2>5. OneFate'
      BY <1>1 DEF MarkScheduled, OneFate, OpenBefore, OutIsIdle, Fate
    <2> QED BY <2>1, <2>2, <2>3, <2>4, <2>5
  <1>2. CASE NotScheduled(c, t)
    <2>1. TempTypeOK'
      BY <1>2 DEF NotScheduled, RowStatus, Fate
    <2>2. OneLeader' /\ OutIsIdle' /\ OthersAreExcused'
      BY <1>2 DEF NotScheduled, OneLeader, OutIsIdle, OthersAreExcused
    <2>3. NotYetCreated'
      BY <1>2 DEF NotScheduled, NotYetCreated
    <2>4. OpenBefore'
      BY <1>2 DEF NotScheduled, OpenBefore, NotYetCreated, OutIsIdle,
                  OthersAreExcused
    <2>5. OneFate'
      BY <1>2 DEF NotScheduled, OneFate, OpenBefore, OutIsIdle, Fate
    <2> QED BY <2>1, <2>2, <2>3, <2>4, <2>5
  <1>3. CASE AnswerLost(c, t)
    <2>1. TempTypeOK'
      BY <1>3 DEF AnswerLost, RowStatus, Fate
    <2>2. OneLeader' /\ OutIsIdle' /\ OthersAreExcused'
      BY <1>3 DEF AnswerLost, OneLeader, OutIsIdle, OthersAreExcused
    <2>3. NotYetCreated'
      BY <1>3 DEF AnswerLost, NotYetCreated
    <2>4. OpenBefore'
      BY <1>3 DEF AnswerLost, OpenBefore, NotYetCreated, OutIsIdle,
                  OthersAreExcused
    <2>5. OneFate'
      BY <1>3 DEF AnswerLost, OneFate, OpenBefore, OutIsIdle, Fate
    <2> QED BY <2>1, <2>2, <2>3, <2>4, <2>5
  <1>4. CASE NobodyThere(c, t)
    <2>1. TempTypeOK'
      BY <1>4 DEF NobodyThere, RowStatus, Fate
    <2>2. OneLeader' /\ OutIsIdle' /\ OthersAreExcused'
      BY <1>4 DEF NobodyThere, OneLeader, OutIsIdle, OthersAreExcused
    <2>3. NotYetCreated'
      BY <1>4 DEF NobodyThere, NotYetCreated
    <2>4. OpenBefore'
      BY <1>4 DEF NobodyThere, OpenBefore, NotYetCreated, OutIsIdle,
                  OthersAreExcused
    <2>5. OneFate'
      BY <1>4 DEF NobodyThere, OneFate, OpenBefore, OutIsIdle, Fate
    <2> QED BY <2>1, <2>2, <2>3, <2>4, <2>5
  <1>5. CASE LogExpired(c, t)
    <2>1. TempTypeOK'
      BY <1>5 DEF LogExpired, RowStatus, Fate
    <2>2. OneLeader' /\ OutIsIdle' /\ OthersAreExcused'
      BY <1>5 DEF LogExpired, OneLeader, OutIsIdle, OthersAreExcused
    <2>3. NotYetCreated'
      BY <1>5 DEF LogExpired, NotYetCreated
    <2>4. OpenBefore'
      BY <1>5 DEF LogExpired, OpenBefore, NotYetCreated, OutIsIdle,
                  OthersAreExcused
    <2>5. OneFate'
      BY <1>5 DEF LogExpired, OneFate, OpenBefore, OutIsIdle, Fate
    <2> QED BY <2>1, <2>2, <2>3, <2>4, <2>5
  <1>6. CASE Dispatch(c, t, f)
    <2>1. TempTypeOK'
      BY <1>6 DEF Dispatch, RowStatus, Fate
    <2>2. OneLeader' /\ OutIsIdle' /\ OthersAreExcused'
      BY <1>6 DEF Dispatch, OneLeader, OutIsIdle, OthersAreExcused
    <2>3. NotYetCreated'
      BY <1>6 DEF Dispatch, NotYetCreated
    <2>4. OpenBefore'
      BY <1>6 DEF Dispatch, OpenBefore, NotYetCreated, OutIsIdle,
                  OthersAreExcused
    <2>5. OneFate'
      BY <1>6 DEF Dispatch, OneFate, OpenBefore, OutIsIdle, Fate
    <2> QED BY <2>1, <2>2, <2>3, <2>4, <2>5
  <1>7. CASE MarkExpired(c, t, done)
    <2>1. TempTypeOK'
      <3>1. status' \in [Task -> RowStatus]
        BY <1>7 DEF MarkExpired, RowStatus
      <3>2. excused' \subseteq Task /\ mishaps' \in 0..MaxMishaps
        BY <1>7 DEF MarkExpired
      <3>3. UNCHANGED <<clock, when, fate, office, nextTick>>
        BY <1>7 DEF MarkExpired
      <3>4. round' \in [Center -> Rounds]
        <4>1. round \in [Center -> Rounds]
          BY DEF Rounds
        <4>2. round' = [round EXCEPT ![c].todo = round[c].todo \ {t},
                                  ![c].hand = {t}]
              /\ round[c].todo \ {t} \in SUBSET Task /\ {t} \in SUBSET Task
              /\ c \in Center
          BY <1>7 DEF MarkExpired
        <4> HIDE DEF Rounds
        <4> QED BY ONLY <4>1, <4>2, RoundTyping, Zenon
      <3> QED BY <3>1, <3>2, <3>3, <3>4 DEF Rounds
    <2>2. OneLeader' /\ OutIsIdle' /\ OthersAreExcused'
      BY <1>7 DEF MarkExpired, OneLeader, OutIsIdle, OthersAreExcused
    <2>3. NotYetCreated'
      BY <1>7 DEF MarkExpired, NotYetCreated
    <2>4. OpenBefore'
      BY <1>7 DEF MarkExpired, OpenBefore, NotYetCreated, OutIsIdle,
                  OthersAreExcused
    <2>5. OneFate'
      BY <1>7 DEF MarkExpired, OneFate, OpenBefore, OutIsIdle, Fate
    <2> QED BY <2>1, <2>2, <2>3, <2>4, <2>5
  <1> QED BY <1>1, <1>2, <1>3, <1>4, <1>5, <1>6, <1>7

\* No step of the system breaks it.
LEMMA TurnsKept == InTurn /\ [TempNext]_tempVars => InTurn'
  <1> SUFFICES ASSUME InTurn, [TempNext]_tempVars
               PROVE  InTurn'
    OBVIOUS
  <1>1. CASE UNCHANGED tempVars
    BY <1>1 DEF tempVars, InTurn, TempTypeOK, OneLeader, OutIsIdle,
                OthersAreExcused, NotYetCreated, OpenBefore, OneFate, Concerned
  <1>2. CASE TimePasses \/ CleanTemp
    BY <1>2, TimeKeepsTurn
  <1>3. ASSUME NEW t \in Task, NEW d \in Clock,
               DeleteTemp(t) \/ CreateTemp(t, d)
        PROVE  InTurn'
    BY <1>3, UsersKeepTurn
  <1>4. ASSUME NEW c \in Center,
               \/ Elect(c) \/ LoseSession(c) \/ StepDown(c) \/ WorkerDies(c)
        PROVE  InTurn'
    BY <1>4, ElectionKeepsTurn
  <1>5. ASSUME NEW c \in Center,
               Tick(c) \/ TickFails(c) \/ LoadExpired(c) \/ RoundEnds(c)
        PROVE  InTurn'
    BY <1>5, RoundsKeepTurn
  <1>6. ASSUME NEW c \in Center, NEW t \in Task, NEW f \in {"sent", "failed"},
               NEW done \in BOOLEAN,
               \/ MarkScheduled(c, t) \/ NotScheduled(c, t) \/ AnswerLost(c, t)
               \/ NobodyThere(c, t) \/ LogExpired(c, t) \/ Dispatch(c, t, f)
               \/ MarkExpired(c, t, done)
        PROVE  InTurn'
    BY <1>6, WorkKeepsTurn
  <1>7. 0 \in Clock
    BY TempAssumption DEF Clock
  <1> HIDE DEF InTurn
  <1> QED
    BY <1>1, <1>2, <1>3, <1>4, <1>5, <1>6, <1>7, TRUE \in BOOLEAN,
       "sent" \in {"sent", "failed"}, Zenon
    DEF TempNext

\* One center leads, and a task that no mishap concerned is open until a worker
\* has it (app/temporary_task.go).
THEOREM InTurnAlways == TempSpec => []InTurn
  BY InTurnAtFirst, TurnsKept, PTL DEF TempSpec

\* Every variable of the temporary tasks keeps its type.
THEOREM TempTypeCorrect == TempSpec => []TempTypeOK
  <1>1. InTurn => TempTypeOK
    BY DEF InTurn
  <1> QED BY <1>1, InTurnAlways, PTL

\* OneFate for any number of tasks, centers and leaders: a temporary task
\* that no mishap of its own concerned is sent, recorded as failed or recorded
\* as expired, one of these and once, and is not forgotten.
THEOREM OneFateAlways == TempSpec => []OneFate
  <1>1. InTurn => OneFate
    BY DEF InTurn
  <1> QED BY <1>1, InTurnAlways, PTL

-----------------------------------------------------------------------------
(***************************************************************************)
(* LogTable.                                                               *)
(***************************************************************************)
\* Whatever there is a partition at or after, there is a first one for.
Ordered ==
  \A x \in Nat : (\E p \in parts : p >= x) => PartitionOf(x) # {}

\* What a round has prepared so far, and what an undisturbed one promised.
Prepared ==
  \A c \in Sweeper :
    /\ sweep[c].step # "add" => sweep[c].ahead = 0
    /\ sweep[c].step = "add" /\ sweep[c].well /\ sweep[c].ahead > 0
         => \E p \in parts : p >= today + sweep[c].ahead - 1
Promised ==
  assured > 0 /\ today <= assured => \E p \in parts : p >= assured

Held == LogTypeOK /\ Ordered /\ Prepared /\ Promised

-----------------------------------------------------------------------------
\* The day that goes is one, and it is past.
LEMMA TheOldestDay ==
  ASSUME LogTypeOK
  PROVE  \A p \in OldestDay :
           /\ p \in parts /\ p \in Nat /\ p + Days = today /\ p < today
           /\ \A q \in OldestDay : q = p
  BY DaysAreSome DEF LogTypeOK, OldestDay, Day

\* A round stays one when some of its parts are set.
Sweeps == [step : {"none", "add", "drop"}, ahead : 0..Days, well : BOOLEAN]

\* A sweep that goes on is a sweep,
LEMMA SweepTyping ==
  ASSUME NEW A, NEW all \in [Sweeper -> [step : {"none", "add", "drop"},
                                        ahead : A, well : BOOLEAN]],
         NEW c \in Sweeper, NEW a \in A, NEW s \in {"none", "add", "drop"}
  PROVE  /\ [all EXCEPT ![c].step = s]
               \in [Sweeper -> [step : {"none", "add", "drop"}, ahead : A,
                               well : BOOLEAN]]
         /\ [all EXCEPT ![c].ahead = a]
               \in [Sweeper -> [step : {"none", "add", "drop"}, ahead : A,
                               well : BOOLEAN]]
         /\ [all EXCEPT ![c].ahead = a, ![c].well = FALSE]
               \in [Sweeper -> [step : {"none", "add", "drop"}, ahead : A,
                               well : BOOLEAN]]
  OBVIOUS

\* and so is one that is over or drops what is too old.
LEMMA NoSweepTyping ==
  ASSUME NEW all \in [Sweeper -> Sweeps], NEW c \in Sweeper
  PROVE  /\ [all EXCEPT ![c] = NoSweep] \in [Sweeper -> Sweeps]
         /\ [all EXCEPT ![c] = [NoSweep EXCEPT !.step = "drop"]]
               \in [Sweeper -> Sweeps]
         /\ \A d \in Sweeper : [all[d] EXCEPT !.well = FALSE] \in Sweeps
  <1>1. 0 \in 0..Days
    BY DaysAreSome
  <1>2. NoSweep \in Sweeps /\ [NoSweep EXCEPT !.step = "drop"] \in Sweeps
    BY <1>1, Zenon DEF Sweeps, NoSweep
  <1>3. \A d \in Sweeper : [all[d] EXCEPT !.well = FALSE] \in Sweeps
    BY Zenon DEF Sweeps
  <1> HIDE DEF Sweeps
  <1> QED BY <1>2, <1>3

\* The invariant holds at first, without partitions or promises.
LEMMA KeptAtFirst == LogInit => Held
  BY DaysAreSome, FS_EmptySet
  DEF LogInit, Held, LogTypeOK, Ordered, Prepared, Promised, NoSweep, Day

\* No step of the system breaks it.
LEMMA StepsKeepRows == Held /\ [LogNext]_logVars => Held'
  <1> SUFFICES ASSUME Held, [LogNext]_logVars
               PROVE  Held'
    OBVIOUS
  <1> USE DaysAreSome DEF Held
  <1>0. sweep \in [Sweeper -> Sweeps]
    BY DEF LogTypeOK, Sweeps
  <1>1. CASE UNCHANGED logVars
    BY <1>1 DEF logVars, LogTypeOK, Ordered, Prepared, Promised, PartitionOf
  <1>2. CASE NewDay
    <2>1. LogTypeOK'
      <3>1. sweep' \in [Sweeper -> Sweeps]
        BY <1>2, <1>0, NoSweepTyping DEF NewDay
      <3> QED BY <1>2, <3>1 DEF NewDay, LogTypeOK, Sweeps
    <2>2. Ordered'
      BY <1>2 DEF NewDay, Ordered, PartitionOf
    <2>3. Prepared'
      BY <1>2 DEF NewDay, Prepared, LogTypeOK
    <2>4. Promised'
      BY <1>2 DEF NewDay, Promised, LogTypeOK, Day
    <2> QED BY <2>1, <2>2, <2>3, <2>4
  <1>3. ASSUME NEW d \in 0..MaxDay, InsertLog(d) PROVE Held'
    BY <1>3 DEF InsertLog, LogTypeOK, Ordered, Prepared, Promised, PartitionOf
  <1>4. ASSUME NEW c \in Sweeper, BeginSweep(c) PROVE Held'
    <2>1. LogTypeOK'
      BY <1>4, SweepTyping DEF BeginSweep, LogTypeOK
    <2>2. Prepared'
      BY <1>4 DEF BeginSweep, Prepared, LogTypeOK
    <2> QED BY <1>4, <2>1, <2>2
      DEF BeginSweep, Ordered, Promised, PartitionOf
  <1>5. ASSUME NEW c \in Sweeper, EnsurePartition(c) PROVE Held'
    <2> DEFINE d == today + sweep[c].ahead
    <2>1. d \in Day /\ d \in Nat
      BY <1>5 DEF EnsurePartition, LogTypeOK, Day
    <2>2. parts \subseteq parts' /\ \E p \in parts' : p >= d
      <3>1. CASE \A p \in parts : p < d
        BY <1>5, <2>1, <3>1 DEF EnsurePartition
      <3>2. CASE \E p \in parts : ~(p < d)
        BY <1>5, <2>1, <3>2 DEF EnsurePartition, LogTypeOK, Day
      <3> QED BY <3>1, <3>2
    <2>3. LogTypeOK'
      <3>1. sweep[c].ahead + 1 \in 0..Days
        BY <1>5 DEF EnsurePartition, LogTypeOK
      <3>2. sweep' \in [Sweeper -> Sweeps]
        BY <1>0, <1>5, <3>1, SweepTyping DEF EnsurePartition, Sweeps
      <3>3. parts' \subseteq Day
        BY <1>5, <2>1 DEF EnsurePartition, LogTypeOK
      <3> QED BY <1>5, <3>2, <3>3 DEF EnsurePartition, LogTypeOK, Sweeps
    <2>4. Ordered'
      BY <1>5, <2>1 DEF EnsurePartition, Ordered, PartitionOf, LogTypeOK, Day
    <2>5. Prepared'
      BY <1>5, <2>2 DEF EnsurePartition, Prepared, LogTypeOK
    <2>6. Promised'
      BY <1>5, <2>2 DEF EnsurePartition, Promised
    <2> QED BY <2>3, <2>4, <2>5, <2>6
  <1>6. ASSUME NEW c \in Sweeper, EnsureFails(c) PROVE Held'
    <2>1. LogTypeOK'
      <3>1. sweep[c].ahead + 1 \in 0..Days
        BY <1>6 DEF EnsureFails, LogTypeOK
      <3>2. sweep' \in [Sweeper -> Sweeps]
        BY <1>0, <1>6, <3>1, SweepTyping DEF EnsureFails, Sweeps
      <3> QED BY <1>6, <3>2 DEF EnsureFails, LogTypeOK, Sweeps
    <2>2. Prepared'
      BY <1>6 DEF EnsureFails, Prepared, LogTypeOK
    <2> QED BY <1>6, <2>1, <2>2
      DEF EnsureFails, Ordered, Promised, PartitionOf
  <1>7. ASSUME NEW c \in Sweeper, SweepDies(c) PROVE Held'
    BY <1>7 DEF SweepDies, NoSweep, LogTypeOK, Ordered, Prepared, Promised,
                PartitionOf
  <1>8. ASSUME NEW c \in Sweeper, NEW b \in BOOLEAN,
               AutoCreateTaskLogPartition(c, b)
        PROVE  Held'
    <2>1. LogTypeOK'
      <3>1. sweep' \in [Sweeper -> Sweeps]
        BY <1>0, <1>8, NoSweepTyping DEF AutoCreateTaskLogPartition
      <3>2. assured' \in Day
        BY <1>8 DEF AutoCreateTaskLogPartition, LogTypeOK, Day
      <3> QED BY <1>8, <3>1, <3>2
        DEF AutoCreateTaskLogPartition, LogTypeOK, Sweeps
    <2>2. Prepared'
      BY <1>8 DEF AutoCreateTaskLogPartition, NoSweep, Prepared, LogTypeOK
    <2>3. Promised'
      BY <1>8 DEF AutoCreateTaskLogPartition, Prepared, Promised, LogTypeOK
    <2> QED BY <1>8, <2>1, <2>2, <2>3
      DEF AutoCreateTaskLogPartition, Ordered, PartitionOf
  <1>9. ASSUME NEW c \in Sweeper, NEW b \in BOOLEAN, CleanOldPartitions(c, b)
        PROVE  Held'
    <2>1. LogTypeOK'
      <3>1. sweep' \in [Sweeper -> Sweeps]
        BY <1>0, <1>9, NoSweepTyping DEF CleanOldPartitions
      <3>2. logged' \subseteq logged /\ parts' \subseteq parts
        BY <1>9 DEF CleanOldPartitions
      <3>3. Cardinality(logged') <= MaxLogged
        <4>1. IsFiniteSet(logged)
          <5>1. IsFiniteSet(0..MaxDay)
            BY FS_Interval
          <5> QED BY <5>1, FS_Subset DEF LogTypeOK
        <4>2. Cardinality(logged') \in Nat /\ Cardinality(logged) \in Nat
              /\ Cardinality(logged') <= Cardinality(logged)
          BY <3>2, <4>1, FS_Subset, FS_CardinalityType
        <4> QED BY <4>2 DEF LogTypeOK
      <3>4. outages' \in 0..MaxOutages
        BY <1>9 DEF CleanOldPartitions, LogTypeOK
      <3> QED BY <1>9, <3>1, <3>2, <3>3, <3>4
        DEF CleanOldPartitions, LogTypeOK, Sweeps
    <2>2. sweep'[c] = NoSweep
          /\ \A d \in Sweeper \ {c} : sweep'[d] = sweep[d]
      BY <1>0, <1>9 DEF CleanOldPartitions
    <2>3. CASE ~b
      <3>1. UNCHANGED <<today, parts, assured>>
        BY <1>9, <2>3 DEF CleanOldPartitions
      <3> QED BY <2>1, <2>2, <3>1
        DEF Ordered, PartitionOf, Prepared, Promised, NoSweep
    <2>4. CASE b
      <3>1. parts' = parts \ OldestDay /\ UNCHANGED <<today, assured>>
        BY <1>9, <2>4 DEF CleanOldPartitions
      <3>2. parts \subseteq Nat /\ today \in Nat /\ assured \in Nat
        BY DEF LogTypeOK, Day
      <3>3. \A p \in parts : p >= today => p \in parts'
        BY <3>1, <3>2, TheOldestDay
      <3>4. Ordered'
        <4> SUFFICES ASSUME NEW x \in Nat, NEW p \in parts', p >= x
                     PROVE  PartitionOf(x)' # {}
          BY DEF Ordered
        <4>1. PICK q \in parts : q >= x /\ \A o \in parts : o >= x => q <= o
          BY <3>1 DEF Ordered, PartitionOf
        <4>2. CASE q \notin OldestDay
          BY <3>1, <4>1, <4>2 DEF PartitionOf
        <4>3. CASE q \in OldestDay
          <5>1. p >= q + 1
            BY <3>1, <3>2, <4>1, <4>3
          <5>2. PICK o \in parts : /\ o >= q + 1
                                  /\ \A n \in parts : n >= q + 1 => o <= n
            <6>1. PartitionOf(q + 1) # {}
              BY <3>1, <3>2, <5>1 DEF Ordered
            <6> QED BY <6>1 DEF PartitionOf
          <5>3. o \in parts' /\ o >= x
            BY <3>1, <3>2, <4>1, <4>3, <5>2, TheOldestDay
          <5>4. \A n \in parts' : n >= x => n >= q + 1
            BY <3>1, <3>2, <4>1, <4>3
          <5> QED BY <3>1, <5>2, <5>3, <5>4 DEF PartitionOf
        <4> QED BY <4>2, <4>3
      <3>5. Prepared'
        <4>1. ASSUME NEW d \in Sweeper, sweep'[d].step # "add"
              PROVE  sweep'[d].ahead = 0
          BY <2>2, <4>1 DEF Prepared, NoSweep
        <4>2. ASSUME NEW d \in Sweeper, sweep'[d].step = "add",
                     sweep'[d].well, sweep'[d].ahead > 0
              PROVE  \E p \in parts' : p >= today' + sweep'[d].ahead - 1
          <5>1. d # c /\ sweep'[d] = sweep[d]
            BY <2>2, <4>2 DEF NoSweep
          <5>2. PICK p \in parts : p >= today + sweep[d].ahead - 1
            BY <4>2, <5>1 DEF Prepared
          <5>3. sweep[d].ahead \in Nat /\ p \in Nat
            BY <1>0, <3>2 DEF Sweeps
          <5>4. p >= today
            BY <3>2, <4>2, <5>1, <5>2, <5>3
          <5> QED BY <3>1, <3>3, <5>1, <5>2, <5>4
        <4> QED BY <4>1, <4>2 DEF Prepared
      <3>6. Promised'
        <4>1. ASSUME assured > 0, today <= assured
              PROVE  \E p \in parts' : p >= assured
          <5>1. PICK p \in parts : p >= assured
            BY <4>1 DEF Promised
          <5> QED BY <3>2, <3>3, <4>1, <5>1
        <4> QED BY <3>1, <4>1 DEF Promised
      <3> QED BY <2>1, <3>4, <3>5, <3>6
    <2> QED BY <2>3, <2>4
  <1> HIDE DEF Held
  <1> QED BY <1>1, <1>2, <1>3, <1>4, <1>5, <1>6, <1>7, <1>8, <1>9 DEF LogNext

\* The partitions that an undisturbed round has promised are there.
THEOREM KeptAlways == LogSpec => []Held
  BY KeptAtFirst, StepsKeepRows, PTL DEF LogSpec

\* Every variable of the log table keeps its type.
THEOREM LogTypeCorrect == LogSpec => []LogTypeOK
  <1>1. Held => LogTypeOK
    BY DEF Held
  <1> QED BY <1>1, KeptAlways, PTL

\* RowsKept for any number of sweepers and days: a row stays its days, and
\* there is a partition for today as long as an undisturbed round promised it.
THEOREM RowsKeptAlways == LogSpec => RowsKept
  <1> DEFINE Stay == /\ \A d \in logged \ logged' : d + Days <= today
                     /\ today' <= assured' /\ assured' > 0
                          => PartitionOf(today)' # {}
  <1>1. Held /\ Held' /\ [LogNext]_logVars => [Stay]_logVars
    <2> SUFFICES ASSUME Held, Held', LogNext
                 PROVE  Stay
      OBVIOUS
    <2> USE DaysAreSome
    <2>1. ASSUME NEW d \in logged \ logged'
          PROVE  d + Days <= today
      <3>1. PICK c \in Sweeper, b \in BOOLEAN : CleanOldPartitions(c, b)
        BY <2>1 DEF LogNext, NewDay, InsertLog, BeginSweep, EnsurePartition,
                    EnsureFails, SweepDies, AutoCreateTaskLogPartition
      <3>2. PICK p \in PartitionOf(d) : p \in OldestDay
        BY <2>1, <3>1 DEF CleanOldPartitions
      <3>3. p >= d /\ p \in Nat /\ p + Days = today
        BY <3>2, TheOldestDay DEF Held, PartitionOf
      <3>4. d \in Nat /\ today \in Nat
        BY <2>1 DEF Held, LogTypeOK
      <3> QED BY <3>3, <3>4
    <2>2. today' <= assured' /\ assured' > 0 => PartitionOf(today)' # {}
      <3> SUFFICES ASSUME today' <= assured', assured' > 0
                   PROVE  PartitionOf(today)' # {}
        OBVIOUS
      <3>1. today' \in Nat /\ assured' \in Nat /\ parts' \subseteq Nat
        BY DEF Held, LogTypeOK, Day
      <3>2. PICK p \in parts' : p >= assured'
        BY DEF Held, Promised
      <3>3. p >= today'
        BY <3>1, <3>2
      <3> QED BY <3>1, <3>3 DEF Held, Ordered
    <2> QED BY <2>1, <2>2
  <1> QED BY <1>1, KeptAlways, PTL DEF LogSpec, RowsKept

-----------------------------------------------------------------------------
(***************************************************************************)
(* WebHooks.                                                               *)
(***************************************************************************)
\* A hook that is owed a call: set before the list is loaded and not deleted
\* since, then one of those to call, and told once its turn has passed.
OwedToday ==
  \A r \in Report, t \in Type : t \in owed[r] =>
    /\ t = "result" \/ work[r].failed
    /\ work[r].step = "load" => t \in Hooked(hooks) \intersect Hooked(oldHooks)
    /\ work[r].step \in {"failure", "result", "over"} => work[r].of[t] \in Url
    /\ work[r].step = "over" \/ (work[r].step = "result" /\ t = "failure")
         => work[r].of[t] \in work[r].answered \union work[r].warned
TriedLess == \A r \in Report : work[r].tried < Attempts

Told == HookTypeOK /\ TriedLess /\ OwedToday

-----------------------------------------------------------------------------

\* The invariant holds at first, when nothing was reported.
LEMMA ToldAtFirst == HookInit => Told
  <1> SUFFICES ASSUME HookInit PROVE Told
    OBVIOUS
  <1> USE HookAssumption DEF HookInit
  <1>1. HookTypeOK
    <2>1. 0 \in 0..Attempts /\ 0 \in 0..MaxCuts
      OBVIOUS
    <2> QED BY <2>1, Zenon DEF HookTypeOK, NoWork
  <1>2. TriedLess
    BY DEF TriedLess, NoWork
  <1>3. OwedToday
    BY DEF OwedToday
  <1> QED BY <1>1, <1>2, <1>3 DEF Told

\* What a report's goroutine knows, its attempts counted in A.
Acts(A) == [step : {"none", "load", "failure", "result", "over", "cut"},
            failed : BOOLEAN, of : [Type -> Url \union {NoUrl}], tried : A,
            answered : SUBSET Url, warned : SUBSET Url]

\* No step of the system breaks it.
LEMMA StepsTell == Told /\ [HookNext]_hookVars => Told'
  <1> SUFFICES ASSUME Told, [HookNext]_hookVars
               PROVE  Told'
    OBVIOUS
  <1> USE HookAssumption DEF Told
  <1>1. CASE UNCHANGED hookVars
    BY <1>1 DEF hookVars, HookTypeOK, TriedLess, OwedToday
  <1>2. ASSUME NEW t \in Type, DeleteHook(t) PROVE Told'
    BY <1>2 DEF DeleteHook, HookTypeOK, TriedLess, OwedToday, Hooked, OfType
  <1>3. ASSUME NEW t \in Type, NEW rows \in HookView, WantHook(t, rows)
        PROVE  Told'
    BY <1>3 DEF WantHook, HookTypeOK, TriedLess, OwedToday
  <1>4. ASSUME NEW t \in Type, NEW u \in Url, InsertHook(t, u) PROVE Told'
    BY <1>4 DEF InsertHook, HookTypeOK, TriedLess, OwedToday, Hooked
  <1>5. ASSUME NEW r \in Report, Cut(r) PROVE Told'
    BY <1>5 DEF Cut, HookTypeOK, TriedLess, OwedToday
  <1>6. ASSUME NEW r \in Report, Skip(r) PROVE Told'
    BY <1>6 DEF Skip, HookTypeOK, TriedLess, OwedToday, Calls, After, Type
  <1>7. ASSUME NEW r \in Report, NEW rows \in HookView, Load(r, rows)
        PROVE  Told'
    <2>1. PICK m \in MapOf(rows) :
            work' = [work EXCEPT ![r].of = m,
                       ![r].step = IF ~work[r].failed /\ m["result"] = NoUrl
                                     THEN "over" ELSE "failure"]
      BY <1>7 DEF Load
    <2>2. /\ work[r].step = "load"
          /\ UNCHANGED <<hooks, oldHooks, wanted, owed, cuts>>
      BY <1>7 DEF Load
    <2>3. m \in [Type -> Url \union {NoUrl}]
      BY DEF MapOf
    <2>4. HookTypeOK'
      BY <2>1, <2>2, <2>3 DEF HookTypeOK
    <2>5. TriedLess'
      BY <2>1 DEF HookTypeOK, TriedLess
    <2>6. \A t \in owed[r] : m[t] \in Url
      <3> SUFFICES ASSUME NEW t \in owed[r] PROVE m[t] \in Url
        OBVIOUS
      <3>1. t \in Type /\ t \in Hooked(rows)
        BY <2>2 DEF OwedToday, HookTypeOK, HookView
      <3>2. PICK h \in OfType(rows, t) : m[t] = h.url
        BY <3>1 DEF MapOf
      <3> QED BY <3>2 DEF OfType, HookView, HookTypeOK
    <2>7. \A q \in Report \ {r} : work'[q] = work[q]
      BY <2>1 DEF HookTypeOK
    <2>8. /\ work'[r].of = m /\ work'[r].failed = work[r].failed
          /\ work'[r].step = IF ~work[r].failed /\ m["result"] = NoUrl
                               THEN "over" ELSE "failure"
      BY <2>1 DEF HookTypeOK
    <2>9. OwedToday'
      BY <2>2, <2>6, <2>7, <2>8 DEF OwedToday, HookTypeOK, Type
    <2> QED BY <2>4, <2>5, <2>9
  <1>8. ASSUME NEW r \in Report, NEW b \in BOOLEAN, Finished(r, b)
        PROVE  Told'
    <2>1. HookTypeOK' /\ TriedLess'
      <3>1. owed' \in [Report -> SUBSET Type]
        <4>1. {t \in Hooked(hooks) \intersect Hooked(oldHooks) :
                 t = "result" \/ b} \subseteq Type
          BY DEF Hooked, HookTypeOK
        <4> QED BY <1>8, <4>1 DEF Finished, HookTypeOK
      <3>2. UNCHANGED <<hooks, oldHooks, wanted, cuts>>
        BY <1>8 DEF Finished
      <3>3. work \in [Report -> Acts(0..Attempts)]
        BY DEF HookTypeOK, Acts
      <3>4. work' \in [Report -> Acts(0..Attempts)]
        <4> DEFINE A == 0..Attempts
        <4>1. work \in [Report -> Acts(A)]
          BY <3>3
        <4> HIDE DEF A
        <4>2. [work[r] EXCEPT !.step = "load", !.failed = b] \in Acts(A)
          BY <4>1 DEF Acts
        <4>3. work' = [work EXCEPT ![r].step = "load", ![r].failed = b]
          BY <1>8 DEF Finished
        <4>4. work' \in [Report -> Acts(A)]
          BY ONLY <4>1, <4>2, <4>3, r \in Report
        <4> QED BY <4>4 DEF A
      <3>5. \A q \in Report : work'[q].tried = work[q].tried
        BY <1>8, <3>3 DEF Finished, Acts
      <3> QED BY <3>1, <3>2, <3>4, <3>5 DEF HookTypeOK, TriedLess, Acts
    <2>2. \A q \in Report \ {r} : work'[q] = work[q] /\ owed'[q] = owed[q]
      BY <1>8 DEF Finished, HookTypeOK
    <2>3. /\ work'[r].step = "load" /\ work'[r].failed = b
          /\ \A t \in owed'[r] :
               /\ t \in Hooked(hooks) \intersect Hooked(oldHooks)
               /\ t = "result" \/ b
      BY <1>8 DEF Finished, HookTypeOK
    <2>4. UNCHANGED <<hooks, oldHooks>>
      BY <1>8 DEF Finished
    <2>5. OwedToday'
      <3>1. Hooked(hooks)' = Hooked(hooks) /\ Hooked(oldHooks)' = Hooked(oldHooks)
        BY <2>4 DEF Hooked
      <3>2. ASSUME NEW q \in Report \ {r}, NEW t \in Type, t \in owed'[q]
            PROVE  /\ t = "result" \/ work'[q].failed
                   /\ work'[q].step = "load"
                        => t \in (Hooked(hooks) \intersect Hooked(oldHooks))'
                   /\ work'[q].step \in {"failure", "result", "over"}
                        => work'[q].of[t] \in Url
                   /\ \/ work'[q].step = "over"
                      \/ work'[q].step = "result" /\ t = "failure"
                      => work'[q].of[t]
                           \in work'[q].answered \union work'[q].warned
        BY <2>2, <3>1, <3>2 DEF OwedToday
      <3>3. ASSUME NEW t \in Type, t \in owed'[r]
            PROVE  /\ t = "result" \/ work'[r].failed
                   /\ t \in (Hooked(hooks) \intersect Hooked(oldHooks))'
        <4>1. t = "result" \/ work'[r].failed
          BY <2>3, <3>3, Zenon
        <4>2. t \in Hooked(hooks) \intersect Hooked(oldHooks)
          BY <2>3, <3>3, Zenon
        <4> QED BY <3>1, <4>1, <4>2
      <3> QED BY <2>3, <3>2, <3>3 DEF OwedToday
    <2> QED BY <2>1, <2>5
  <1>9. ASSUME NEW r \in Report, NEW ok \in BOOLEAN, Post(r, ok)
        PROVE  Told'
    <2> DEFINE j == work[r]
               u == {j.of[j.step]}
               s == After(j, ok)
    <2>1. /\ j \in Acts(0..Attempts) /\ u \in SUBSET Url
          /\ s \in {"result", "over"}
      BY <1>9 DEF Post, Calls, After, HookTypeOK, Acts
    <2>2. j.tried < Attempts /\ j.tried \in 0..Attempts
      BY DEF TriedLess, HookTypeOK
    <2>3. 0 \in 0..Attempts /\ j.tried + 1 \in 0..Attempts
      BY <2>2
    <2>4. PICK one :
            /\ work' = [work EXCEPT ![r] = one]
            /\ \/ one = [[j EXCEPT !.step = s, !.tried = 0]
                           EXCEPT !.answered = @ \union u]
               \/ one = [[j EXCEPT !.step = s, !.tried = 0]
                           EXCEPT !.warned = @ \union u]
               \/ /\ one = [j EXCEPT !.tried = j.tried + 1]
                  /\ j.tried + 1 # Attempts
      <3> USE <1>9 DEF Post
      <3>1. CASE ok
        BY <3>1
      <3>2. CASE ~ok /\ j.tried + 1 = Attempts
        BY <3>2
      <3>3. CASE ~ok /\ j.tried + 1 # Attempts
        BY <3>3
      <3> QED BY <3>1, <3>2, <3>3
    <2>5. UNCHANGED <<hooks, oldHooks, wanted, owed, cuts>> /\ j.step \in Type
      BY <1>9 DEF Post
    <2>6. work \in [Report -> Acts(0..Attempts)]
      BY DEF HookTypeOK, Acts
    <2>7. \A q \in Report \ {r} : work'[q] = work[q]
      BY <2>4, <2>6
    <2>8. /\ one \in Acts(0..Attempts) /\ one.tried < Attempts
          /\ one.of = j.of /\ one.failed = j.failed
          /\ j.answered \union j.warned
               \subseteq one.answered \union one.warned
          /\ \/ one.step = j.step
             \/ one.step = s /\ u \subseteq one.answered \union one.warned
      <3> HIDE DEF j, u, s
      <3>1. \/ one = [[j EXCEPT !.step = s, !.tried = 0]
                        EXCEPT !.answered = @ \union u]
            \/ one = [[j EXCEPT !.step = s, !.tried = 0]
                        EXCEPT !.warned = @ \union u]
            \/ one = [j EXCEPT !.tried = j.tried + 1]
        BY <2>4
      <3>2. /\ one \in Acts(0..Attempts)
            /\ one.of = j.of /\ one.failed = j.failed
            /\ j.answered \union j.warned
                 \subseteq one.answered \union one.warned
            /\ \/ one.step = j.step
               \/ one.step = s /\ u \subseteq one.answered \union one.warned
        <4> DEFINE A == 0..Attempts
        <4>1. 0 \in A /\ j.tried + 1 \in A /\ j \in Acts(A)
          BY <2>1, <2>3
        <4> HIDE DEF A
        <4> DEFINE next == [j EXCEPT !.step = s, !.tried = 0]
        <4>2. /\ next \in Acts(A) /\ next.step = s
              /\ next.of = j.of /\ next.failed = j.failed
              /\ next.answered = j.answered /\ next.warned = j.warned
          BY <2>1, <4>1 DEF Acts
        <4>3. CASE one = [next EXCEPT !.answered = @ \union u]
          <5> HIDE DEF next
          <5>1. /\ one \in Acts(A) /\ one.step = next.step
                /\ one.of = next.of /\ one.failed = next.failed
                /\ one.answered = next.answered \union u
                /\ one.warned = next.warned
            BY <2>1, <4>2, <4>3 DEF Acts
          <5> QED BY <4>2, <5>1 DEF A
        <4>4. CASE one = [next EXCEPT !.warned = @ \union u]
          <5> HIDE DEF next
          <5>1. /\ one \in Acts(A) /\ one.step = next.step
                /\ one.of = next.of /\ one.failed = next.failed
                /\ one.answered = next.answered
                /\ one.warned = next.warned \union u
            BY <2>1, <4>2, <4>4 DEF Acts
          <5> QED BY <4>2, <5>1 DEF A
        <4>5. CASE one = [j EXCEPT !.tried = j.tried + 1]
          <5>1. /\ one \in Acts(A) /\ one.step = j.step
                /\ one.of = j.of /\ one.failed = j.failed
                /\ one.answered = j.answered /\ one.warned = j.warned
            BY <4>1, <4>5 DEF Acts
          <5> QED BY <5>1 DEF A
        <4> QED BY <3>1, <4>3, <4>4, <4>5
      <3>3. one.tried < Attempts
        <4>1. one.tried = 0 \/ (one.tried = j.tried + 1 /\ j.tried + 1 # Attempts)
          BY <2>1, <2>4 DEF Acts
        <4> QED BY <2>2, <4>1
      <3> QED BY <3>2, <3>3
    <2>12. work'[r] = one
      BY <2>4, <2>6
    <2>9. HookTypeOK'
      <3>1. work' \in [Report -> Acts(0..Attempts)]
        BY ONLY <2>4, <2>6, <2>8
      <3> QED BY <2>5, <3>1 DEF HookTypeOK, Acts
    <2>10. TriedLess'
      BY <2>7, <2>8, <2>12 DEF TriedLess
    <2>11. OwedToday'
      BY <2>5, <2>7, <2>8, <2>12 DEF OwedToday, HookTypeOK, After, Type
    <2> QED BY <2>9, <2>10, <2>11
  <1> HIDE DEF Told
  <1> QED BY <1>1, <1>2, <1>3, <1>4, <1>5, <1>6, <1>7, <1>8, <1>9 DEF HookNext

\* A hook that is owed a call has it, or HandleWebHook is still on its way to
\* it with attempts left (app/webhook.go).
THEOREM ToldAlways == HookSpec => []Told
  BY ToldAtFirst, StepsTell, PTL DEF HookSpec

\* Every variable of the hooks keeps its type.
THEOREM HookTypeCorrect == HookSpec => []HookTypeOK
  <1>1. Told => HookTypeOK
    BY DEF Told
  <1> QED BY <1>1, ToldAlways, PTL

\* EveryHookTold for any number of reports, targets and attempts: a goroutine
\* that is through has called, or warned of, every hook it owed a call.
THEOREM EveryHookToldAlways == HookSpec => []EveryHookTold
  <1>1. Told => EveryHookTold
    BY DEF Told, HookTypeOK, OwedToday, EveryHookTold
  <1> QED BY <1>1, ToldAlways, PTL
=============================================================================
