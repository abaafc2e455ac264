------------------------------ MODULE TempTask ------------------------------
(***************************************************************************)
(* Tasks that users schedule for one moment (app/temporary_task.go), and   *)
(* the elected worker that dispatches them once a minute and closes those  *)
(* that nobody dispatched in time (app/app.go, startTemporaryTaskWorker).  *)
(*                                                                         *)
(* Time counts half minutes.  A worker whose session is lost goes on until *)
(* it is back in its select, beside the next leader.                       *)
(***************************************************************************)
EXTENDS Naturals

CONSTANTS Task,         \* the temporary tasks
          Center,       \* the centers that run for leader
          Week,         \* how long rows are kept (7 days)
          MaxClock,     \* bound: the time
          MaxMishaps    \* bound: failed calls, lost sessions, crashes

ASSUME TempAssumption == MaxClock \in Nat /\ MaxMishaps \in Nat

VARIABLES
  clock,      \* half minutes
  when,       \* per task: schedule_time
  status,     \* per task: its row's schedule_status
  fate,       \* per task: what became of it
  office,     \* per center: its part in the election
  nextTick,   \* per center: when its ticker fires
  round,      \* per center: what the worker is doing
  excused,    \* history: tasks that a mishap of their own concerned
  mishaps     \* how many there were

tempVars == <<clock, when, status, fate, office, nextTick, round, excused,
              mishaps>>

Clock == 0..MaxClock
RowStatus == {"none", "waiting", "scheduled", "deleted"}
Fate == {"sent", "failed", "expired"}
Idle == [pass |-> "idle", todo |-> {}, hand |-> {}]

TempTypeOK ==
  /\ clock \in Clock /\ when \in [Task -> Clock]
  /\ status \in [Task -> RowStatus]
  /\ fate \in [Task -> Fate \union {"open", "several"}]
  /\ office \in [Center -> {"out", "leader", "former"}]
  /\ nextTick \in [Center -> Nat]
  /\ round \in [Center -> [pass : {"idle", "dispatch", "expire"},
                           todo : SUBSET Task, hand : SUBSET Task]]
  /\ excused \subseteq Task /\ mishaps \in 0..MaxMishaps

TempInit ==
  /\ clock = 0 /\ when = [t \in Task |-> 0]
  /\ status = [t \in Task |-> "none"]
  /\ fate = [t \in Task |-> "open"]
  /\ office = [c \in Center |-> "out"]
  /\ nextTick = [c \in Center |-> 0]
  /\ round = [c \in Center |-> Idle]
  /\ excused = {} /\ mishaps = 0

Minute == 2 * (clock \div 2)
Waiting == {t \in Task : status[t] = "waiting"}

(* GetNeedToScheduleTemporaryTask and GetExpireTemporaryTasks, the second  *)
(* one for the time a minute ago.                                          *)
DueTasks == {t \in Waiting : when[t] + 2 > Minute /\ when[t] < Minute + 2}
ExpiredTasks == {t \in Waiting : when[t] + 2 <= Minute}

Excuse(tasks) == excused' = excused \union tasks
Mishap(tasks) ==
  /\ mishaps < MaxMishaps
  /\ mishaps' = mishaps + 1
  /\ Excuse(tasks)
NoMishap == UNCHANGED <<excused, mishaps>>

Concerned(c) == round[c].todo \union round[c].hand
Meets(t, f) ==
  fate' = [fate EXCEPT ![t] = IF @ = "open" THEN f ELSE "several"]

-----------------------------------------------------------------------------
TimePasses ==
  /\ clock < MaxClock
  /\ clock' = clock + 1
  /\ UNCHANGED <<when, status, fate, office, nextTick, round>> /\ NoMishap

(* CreateTemporaryTask refuses a time that has passed.                     *)
CreateTemp(t, d) ==
  /\ status[t] = "none" /\ d >= clock
  /\ status' = [status EXCEPT ![t] = "waiting"]
  /\ when' = [when EXCEPT ![t] = d]
  /\ UNCHANGED <<clock, fate, office, nextTick, round>> /\ NoMishap

(* DeleteTemporaryTask, whatever the worker does with the task.            *)
DeleteTemp(t) ==
  /\ status[t] \in {"waiting", "scheduled"}
  /\ status' = [status EXCEPT ![t] = "deleted"]
  /\ UNCHANGED <<clock, when, fate, office, nextTick, round>> /\ NoMishap

(* AutoCleanScheduledTemporaryTask, of the elected cleaner (see LogTable): *)
(* by age, whatever the status.                                            *)
CleanTemp ==
  LET old == {t \in Task : status[t] # "none" /\ when[t] + Week < clock}
  IN  /\ \E t \in old : status[t] # "deleted"
      /\ status' = [t \in Task |-> IF t \in old THEN "deleted" ELSE status[t]]
      /\ UNCHANGED <<clock, when, fate, office, nextTick, round>> /\ NoMishap

-----------------------------------------------------------------------------
(* election: one session at a time; the ticker starts with the office.     *)

Elect(c) ==
  /\ office[c] = "out" /\ \A d \in Center : office[d] # "leader"
  /\ office' = [office EXCEPT ![c] = "leader"]
  /\ nextTick' = [nextTick EXCEPT ![c] = clock + 2]
  /\ Excuse(UNION {Concerned(d) : d \in Center})
  /\ UNCHANGED <<clock, when, status, fate, round, mishaps>>

LoseSession(c) ==
  /\ office[c] = "leader"
  /\ office' = [office EXCEPT ![c] = "former"]
  /\ Mishap({})
  /\ UNCHANGED <<clock, when, status, fate, nextTick, round>>

(* The select finds the session done.                                      *)
StepDown(c) ==
  /\ office[c] = "former" /\ round[c].pass = "idle"
  /\ office' = [office EXCEPT ![c] = "out"]
  /\ UNCHANGED <<clock, when, status, fate, nextTick, round>> /\ NoMishap

(* The center dies, or the dispatch panics in ChooseNode and the deferred  *)
(* recover of the election ends the worker.                                *)
WorkerDies(c) ==
  /\ office[c] # "out"
  /\ office' = [office EXCEPT ![c] = "out"]
  /\ round' = [round EXCEPT ![c] = Idle]
  /\ Mishap(round[c].hand)
  /\ UNCHANGED <<clock, when, status, fate, nextTick>>

-----------------------------------------------------------------------------
(* The worker.                                                             *)

(* A ticker keeps one tick for a busy worker and drops the others.  The    *)
(* select may take a tick although the session is done.                    *)
Tick(c) ==
  /\ office[c] # "out" /\ round[c].pass = "idle"
  /\ nextTick[c] <= clock
  /\ nextTick' = [nextTick EXCEPT ![c] = @ + 2 * ((clock - @) \div 2 + 1)]
  /\ round' = [round EXCEPT ![c].pass = "dispatch", ![c].todo = DueTasks]
  /\ IF office[c] = "former" THEN Excuse(DueTasks) ELSE UNCHANGED excused
  /\ UNCHANGED <<clock, when, status, fate, office, mishaps>>

(* The first list cannot be loaded: the round is over.                     *)
TickFails(c) ==
  /\ office[c] # "out" /\ round[c].pass = "idle"
  /\ nextTick[c] <= clock
  /\ nextTick' = [nextTick EXCEPT ![c] = @ + 2 * ((clock - @) \div 2 + 1)]
  /\ Mishap({})
  /\ UNCHANGED <<clock, when, status, fate, office, round>>

Takes(c, t, pass) ==
  /\ round[c].pass = pass /\ t \in round[c].todo /\ round[c].hand = {}

\* Faulty variant of MarkScheduled: the status is left for later.
MarkScheduledLater(c, t) ==
  /\ Takes(c, t, "dispatch")
  /\ round' = [round EXCEPT ![c].todo = @ \ {t}, ![c].hand = {t}]
  /\ UNCHANGED <<clock, when, status, fate, office, nextTick>> /\ NoMishap

(* TemporaryTaskSchedule up to the update of the status, which does not    *)
(* look at the status the row has by now, nor at whether it is there.      *)
MarkScheduled(c, t) ==
  /\ Takes(c, t, "dispatch")
  /\ status' = [status EXCEPT ![t] = IF @ = "deleted" THEN @ ELSE "scheduled"]
  /\ round' = [round EXCEPT ![c].todo = @ \ {t}, ![c].hand = {t}]
  /\ UNCHANGED <<clock, when, fate, office, nextTick>> /\ NoMishap

(* The task's definition is gone, or the update fails: it stays waiting.   *)
NotScheduled(c, t) ==
  /\ Takes(c, t, "dispatch")
  /\ round' = [round EXCEPT ![c].todo = @ \ {t}]
  /\ Mishap({})
  /\ UNCHANGED <<clock, when, status, fate, office, nextTick>>

(* TemporarySchedulerTask: an agent accepted the task, or none could be    *)
(* reached and the center logs the failure.                                *)
Dispatch(c, t, f) ==
  /\ round[c].pass = "dispatch" /\ round[c].hand = {t}
  /\ Meets(t, f)
  /\ round' = [round EXCEPT ![c].hand = {}]
  /\ UNCHANGED <<clock, when, status, office, nextTick>> /\ NoMishap

(* The agent accepted, but its answer did not come in time: a failure is   *)
(* logged as well.                                                         *)
AnswerLost(c, t) ==
  /\ round[c].pass = "dispatch" /\ round[c].hand = {t}
  /\ fate' = [fate EXCEPT ![t] = "several"]
  /\ round' = [round EXCEPT ![c].hand = {}]
  /\ Mishap({t})
  /\ UNCHANGED <<clock, when, status, office, nextTick>>

(* No agent has a stream and no old client is found: the error is returned *)
(* and the failure not logged.                                             *)
NobodyThere(c, t) ==
  /\ round[c].pass = "dispatch" /\ round[c].hand = {t}
  /\ round' = [round EXCEPT ![c].hand = {}]
  /\ Mishap({t})
  /\ UNCHANGED <<clock, when, status, fate, office, nextTick>>

(* The second list, with the time it is by then.                           *)
LoadExpired(c) ==
  /\ round[c].pass = "dispatch" /\ Concerned(c) = {}
  /\ round' = [round EXCEPT ![c].pass = "expire", ![c].todo = ExpiredTasks]
  /\ IF office[c] = "former" THEN Excuse(ExpiredTasks) ELSE UNCHANGED excused
  /\ UNCHANGED <<clock, when, status, fate, office, nextTick, mishaps>>

(* The update is tried three times and its error ignored.                  *)
MarkExpired(c, t, done) ==
  /\ Takes(c, t, "expire")
  /\ round' = [round EXCEPT ![c].todo = @ \ {t}, ![c].hand = {t}]
  /\ IF done
       THEN /\ status' = [status EXCEPT
                 ![t] = IF @ = "deleted" THEN @ ELSE "scheduled"]
            /\ NoMishap
       ELSE Mishap({t}) /\ UNCHANGED status
  /\ UNCHANGED <<clock, when, fate, office, nextTick>>

(* serverSideFinishedTemporaryTask: "not yet scheduled".                   *)
LogExpired(c, t) ==
  /\ round[c].pass = "expire" /\ round[c].hand = {t}
  /\ Meets(t, "expired")
  /\ round' = [round EXCEPT ![c].hand = {}]
  /\ UNCHANGED <<clock, when, status, office, nextTick>> /\ NoMishap

RoundEnds(c) ==
  /\ round[c].pass = "expire" /\ Concerned(c) = {}
  /\ round' = [round EXCEPT ![c] = Idle]
  /\ UNCHANGED <<clock, when, status, fate, office, nextTick>> /\ NoMishap

TempNext ==
  \/ TimePasses \/ CleanTemp
  \/ \E t \in Task : DeleteTemp(t) \/ \E d \in Clock : CreateTemp(t, d)
  \/ \E c \in Center :
       \/ Elect(c) \/ LoseSession(c) \/ StepDown(c) \/ WorkerDies(c)
       \/ Tick(c) \/ TickFails(c) \/ LoadExpired(c) \/ RoundEnds(c)
  \/ \E c \in Center, t \in Task :
       \/ MarkScheduled(c, t) \/ NotScheduled(c, t) \/ AnswerLost(c, t)
       \/ NobodyThere(c, t) \/ LogExpired(c, t)
  \/ \E c \in Center, t \in Task, f \in {"sent", "failed"} : Dispatch(c, t, f)
  \/ \E c \in Center, t \in Task, done \in BOOLEAN : MarkExpired(c, t, done)

TempSpec == TempInit /\ [][TempNext]_tempVars

-----------------------------------------------------------------------------
(* A temporary task meets one fate: it is sent to an agent, or recorded as *)
(* failed, or as not scheduled in time.  Never two of these, nor one twice:*)
(* the two lists of a round, taken minutes apart, and the rounds of        *)
(* successive leaders do not meet.  And never none: a task that is no      *)
(* longer waiting and in no worker's hands has met its fate, whatever was  *)
(* slow, refused or deleted meanwhile.  Excepted are tasks two workers had *)
(* at once, whose agent's answer was lost, whose row could not be updated, *)
(* whose worker died with it or had nobody to send it to.                  *)
OneFate ==
  \A t \in Task \ excused :
    /\ fate[t] # "several"
    /\ status[t] = "scheduled" /\ (\A c \in Center : t \notin round[c].hand)
         => fate[t] # "open"
=============================================================================
