------------------------------ MODULE LogTable ------------------------------
(***************************************************************************)
(* The table of the run logs, gc_task_log_p, with one partition per day of *)
(* plan_time (sqlStore/task_log_partition.go).  An elected center adds     *)
(* partitions for the coming days and drops the one that is out of date,   *)
(* twice a day (startCleanupTask in app/app.go); every center that starts  *)
(* adds partitions as well.                                                *)
(*                                                                         *)
(* A row is its day.  Cleaning the log of a project or a task through the  *)
(* API does nothing (CleanProjectLog and CleanLog return at once).         *)
(***************************************************************************)
EXTENDS Naturals, FiniteSets

CONSTANTS Sweeper,      \* the centers that may be at it at once
          Days,         \* how far the partitions reach, and rows stay
          MaxDay,       \* bound: today
          MaxLogged,    \* bound: rows
          MaxOutages    \* bound: statements that fail

ASSUME DaysAreSome ==
  Days \in Nat \ {0} /\ MaxDay \in Nat /\ MaxLogged \in Nat /\ MaxOutages \in Nat

VARIABLES
  today,      \* the date
  parts,      \* the days that have a partition; it ends with its day
  logged,     \* the rows
  sweep,      \* per center: its round
  assured,    \* history: the last day prepared by a round without outage
              \* that took no midnight
  outages     \* how many statements failed

logVars == <<today, parts, logged, sweep, assured, outages>>

Day == 0..(MaxDay + Days)
NoSweep == [step |-> "none", ahead |-> 0, well |-> TRUE]

LogTypeOK ==
  /\ today \in 0..MaxDay /\ parts \subseteq Day
  /\ logged \subseteq 0..MaxDay /\ Cardinality(logged) <= MaxLogged
  /\ sweep \in [Sweeper -> [step : {"none", "add", "drop"},
                            ahead : 0..Days, well : BOOLEAN]]
  /\ assured \in Day /\ outages \in 0..MaxOutages

(* The table is new: its one partition takes no row there is.              *)
LogInit ==
  /\ today = 0 /\ parts = {} /\ logged = {}
  /\ sweep = [c \in Sweeper |-> NoSweep]
  /\ assured = 0 /\ outages = 0

(* VALUES LESS THAN: a row is in the first partition that ends with or     *)
(* after its day, of which there may be none.                              *)
PartitionOf(d) == {p \in parts : p >= d /\ \A q \in parts : q >= d => p <= q}

-----------------------------------------------------------------------------
NewDay ==
  /\ today < MaxDay
  /\ today' = today + 1
  /\ sweep' = [c \in Sweeper |->
       IF sweep[c].step = "add" THEN [sweep[c] EXCEPT !.well = FALSE]
       ELSE sweep[c]]
  /\ UNCHANGED <<parts, logged, assured, outages>>

(* CheckOrCreateScheduleLog and CreateOrUpdateTaskLog.  A run may end, and *)
(* a temporary task expire, days after its plan time.                      *)
InsertLog(d) ==
  /\ d <= today /\ PartitionOf(d) # {}
  /\ Cardinality(logged \union {d}) <= MaxLogged
  /\ logged' = logged \union {d}
  /\ UNCHANGED <<today, parts, sweep, assured, outages>>

(* AutoMigrate of a center that starts, the new leader, or its ticker.     *)
BeginSweep(c) ==
  /\ sweep[c].step = "none"
  /\ sweep' = [sweep EXCEPT ![c].step = "add"]
  /\ UNCHANGED <<today, parts, logged, assured, outages>>

(* Partitions can only be added at the end: MySQL refuses a day before the *)
(* last one, and the loop of AutoCreateTaskLogPartition goes on.           *)
EnsurePartition(c) ==
  LET d == today + sweep[c].ahead
  IN  /\ sweep[c].step = "add" /\ sweep[c].ahead < Days
      /\ parts' = IF \A p \in parts : p < d THEN parts \union {d} ELSE parts
      /\ sweep' = [sweep EXCEPT ![c].ahead = @ + 1]
      /\ UNCHANGED <<today, logged, assured, outages>>

(* A statement fails: the error is logged, the loop goes on.               *)
EnsureFails(c) ==
  /\ sweep[c].step = "add" /\ sweep[c].ahead < Days
  /\ outages < MaxOutages
  /\ outages' = outages + 1
  /\ sweep' = [sweep EXCEPT ![c].ahead = @ + 1, ![c].well = FALSE]
  /\ UNCHANGED <<today, parts, logged, assured>>

(* The loop is over; a tick of the leader goes on to drop a partition.     *)
AutoCreateTaskLogPartition(c, ticked) ==
  /\ sweep[c].step = "add" /\ sweep[c].ahead = Days
  /\ assured' = IF sweep[c].well THEN today + Days - 1 ELSE assured
  /\ sweep' = [sweep EXCEPT
       ![c] = IF ticked THEN [NoSweep EXCEPT !.step = "drop"] ELSE NoSweep]
  /\ UNCHANGED <<today, parts, logged, outages>>

\* Faulty variant of OldestDay: the first of the days that are to stay.
OldestDayOfThese == {p \in parts : p + Days = today + 1}

(* GetLast7DaysTimeRange begins Days - 1 days ago; the day before it goes. *)
OldestDay == {p \in parts : p + Days = today}

(* The partition goes with all its rows, also those of the days before it  *)
(* that have no partition of their own.  DROP PARTITION may fail.          *)
CleanOldPartitions(c, done) ==
  /\ sweep[c].step = "drop"
  /\ sweep' = [sweep EXCEPT ![c] = NoSweep]
  /\ IF done
       THEN /\ parts' = parts \ OldestDay
            /\ logged' = {d \in logged : PartitionOf(d) \cap OldestDay = {}}
            /\ UNCHANGED outages
       ELSE /\ outages < MaxOutages /\ outages' = outages + 1
            /\ UNCHANGED <<parts, logged>>
  /\ UNCHANGED <<today, assured>>

(* The center dies, or gives up the office between two ticks.              *)
SweepDies(c) ==
  /\ sweep[c].step # "none"
  /\ sweep' = [sweep EXCEPT ![c] = NoSweep]
  /\ UNCHANGED <<today, parts, logged, assured, outages>>

LogNext ==
  \/ NewDay
  \/ \E d \in 0..MaxDay : InsertLog(d)
  \/ \E c \in Sweeper :
       \/ BeginSweep(c) \/ EnsurePartition(c) \/ EnsureFails(c)
       \/ SweepDies(c)
  \/ \E c \in Sweeper, b \in BOOLEAN :
       AutoCreateTaskLogPartition(c, b) \/ CleanOldPartitions(c, b)

LogSpec == LogInit /\ [][LogNext]_logVars

-----------------------------------------------------------------------------
(* A row stays for at least Days days, in whatever partition it came to    *)
(* lie; and from a round without outage until Days - 1 days later there is *)
(* a partition for the rows of the day, although later days may have got   *)
(* theirs before, earlier ones none, and a leader may be slow, be replaced *)
(* or die at any statement.                                                *)
RowsKept ==
  [][/\ \A d \in logged \ logged' : d + Days <= today
     /\ today' <= assured' /\ assured' > 0 => PartitionOf(today)' # {}
    ]_logVars
=============================================================================
