--------------------------- MODULE WorkflowDagProofs -------------------------
(***************************************************************************)
(* The workflow runner implements WorkflowDag, for any workflow, any       *)
(* number of centers and executions, and any faults.  The invariant behind *)
(* it: in a plan that started on nothing left over, whatever is on its way *)
(* to being dispatched has all its dependencies among the tasks that have  *)
(* succeeded.                                                              *)
(***************************************************************************)
EXTENDS WorkflowProofs

\* What holds the mutex will dispatch t, or will make it an event.
Holds(w, t) == \/ w \in {Checking(t), Dispatching(t)}
               \/ w.job = "scan" /\ t \in w.ready

\* A state, an event, a goroutine or a scan is there for the task.
Planned(t) == \/ st[t] # "absent"
              \/ \E c \in Center : \/ events[c][t] > 0
                                   \/ t \in inproc[c]
                                   \/ Holds(busy[c], t)

Orderly == /\ Done \subseteq succeeded
           /\ \A t \in Task : Planned(t) => Deps[t] \subseteq succeeded
           /\ \A c \in Center : ~HalfCleared(c)

InOrder == /\ ~plan => succeeded = {} /\ ~clean
           /\ clean => Orderly

\* Whatever is about a task has it planned.
LEMMA PlannedBy ==
    /\ \A t \in Task : st[t] # "absent" => Planned(t)
    /\ \A t \in Task, c \in Center : events[c][t] > 0 => Planned(t)
    /\ \A t \in Task, c \in Center : t \in inproc[c] => Planned(t)
    /\ \A t \in Task, c \in Center : Holds(busy[c], t) => Planned(t)
BY Zenon DEF Planned

\* A step that plans only what was planned, or may be planned, keeps the order.
LEMMA StaysInOrder ==
    ASSUME InOrder, plan' = plan, clean' = clean,
           succeeded \subseteq succeeded', ~plan => succeeded' = {},
           clean => Done' \subseteq succeeded',
           clean => \A t \in Task : Planned(t)'
                        => Planned(t) \/ Deps[t] \subseteq succeeded',
           clean => \A d \in Center : HalfCleared(d)' => HalfCleared(d)
    PROVE  InOrder'
BY DEF InOrder, Orderly

\* The order of a plan depends on these variables only.
LEMMA NothingPlanned ==
    ASSUME InOrder, UNCHANGED <<plan, clean, succeeded, st, events, inproc,
                                busy>>
    PROVE  InOrder'
BY DEF InOrder, Orderly, Done, Planned, HalfCleared

\* What a step of the mutex's holder has to show.
LEMMA HolderPlans ==
    ASSUME busy \in [Center -> Busy], NEW c \in Center, NEW w, Do(c, w),
           ~(w.job = "finish" /\ w.step = "states"),
           \A t \in Task : Holds(w, t)
               => Planned(t) \/ Deps[t] \subseteq succeeded',
           \A t \in Task : st'[t] # "absent" => Planned(t),
           \A t \in Task, d \in Center : events'[d][t] > 0 => Planned(t),
           \A t \in Task, d \in Center : t \in inproc'[d] => Planned(t)
    PROVE  /\ \A t \in Task : Planned(t)'
                  => Planned(t) \/ Deps[t] \subseteq succeeded'
           /\ \A d \in Center : HalfCleared(d)' => HalfCleared(d)
<1>1. \A d \in Center : busy'[d] = IF d = c THEN w ELSE busy[d]
  BY DEF Do
<1>2. \A d \in Center : HalfCleared(d)' => HalfCleared(d)
  BY <1>1, Zenon DEF HalfCleared
<1>3. ASSUME NEW t \in Task, NEW d \in Center, Holds(busy'[d], t)
      PROVE  Planned(t) \/ Deps[t] \subseteq succeeded'
  BY <1>1, <1>3, PlannedBy, Zenon
<1>4. \A t \in Task : Planned(t)'
          => Planned(t) \/ Deps[t] \subseteq succeeded'
  BY <1>3, Zenon DEF Planned
<1>5. QED
  BY <1>2, <1>4

\* Who does nothing holds no task.
LEMMA IdleHolds == \A t : ~Holds(Idle, t) /\ Idle.job # "finish"
BY DEF Holds, Idle, Checking, Dispatching

\* CanSchedule makes events of what was planned or may be planned.
LEMMA EventsPlanned ==
    ASSUME EventsTyped, NEW c \in Center, NEW S, NEW v, Conclude(c, S, v)
    PROVE  \A t \in Task, d \in Center :
              events'[d][t] > 0 => events[d][t] > 0 \/ t \in S
<1>1. CASE events' = events
  BY <1>1
<1>2. CASE events' # events
  <2>1. events' = [events EXCEPT ![c] = [t \in Task |->
                     IF t \in S /\ events[c][t] < MaxEvents
                     THEN events[c][t] + 1 ELSE events[c][t]]]
    BY <1>2, Zenon DEF Conclude
  <2>2. QED
    BY <2>1 DEF EventsTyped
<1>3. QED
  BY <1>1, <1>2

\* A task that may be started has its dependencies behind it.
LEMMA MayStart ==
    ASSUME InOrder, clean
    PROVE  \A t \in Startable : Deps[t] \subseteq succeeded
BY DEF InOrder, Orderly, Startable

\* The parts of TypeOK the refinement needs.
LEMMA TypedParts ==
    ASSUME TypeOK
    PROVE  /\ busy \in [Center -> Busy] /\ st \in [Task -> Status]
           /\ EventsTyped /\ inproc \in [Center -> SUBSET Task]
           /\ succeeded \subseteq Task /\ clean \in BOOLEAN
           /\ task \in [Run -> Task \cup {None}]
           /\ \A r \in Run : task[r] = None <=> pc[r] = "free"
BY Zenon DEF TypeOK, EventsTyped

\* The plan of a workflow stays in order (scheduleTask, CanSchedule, Finished).
LEMMA StaysOrderly == Spec => []InOrder
<1> USE WorkflowAssumption
    DEF etcdVars, centerVars, agentVars, history, leadVars, runnerVars, NoFault
<1>1. Init => InOrder
  BY DEF Init, InOrder
<1>2. ASSUME InOrder, TypeOK, [Next]_vars PROVE InOrder'
  <2> USE <1>2
  <2>t. /\ busy \in [Center -> Busy] /\ st \in [Task -> Status]
        /\ EventsTyped /\ inproc \in [Center -> SUBSET Task]
        /\ succeeded \subseteq Task
        /\ task \in [Run -> Task \cup {None}]
        /\ \A r \in Run : task[r] = None <=> pc[r] = "free"
    BY TypedParts, Zenon
  <2>o. \A t \in Task : clean /\ Planned(t) => Deps[t] \subseteq succeeded
    BY Zenon DEF InOrder, Orderly
  <2>d. clean => Done \subseteq succeeded
    BY Zenon DEF InOrder, Orderly
  <2>p. ~plan => succeeded = {}
    BY Zenon DEF InOrder
  <2>1. ASSUME Start PROVE InOrder'
    <3>1. CASE plan
      BY <2>1, <3>1 DEF Start, SetRunning, InOrder, Orderly, Done, Planned,
                        HalfCleared
    <3>2. CASE ~plan /\ Digested
      <4>1. \A c \in Center : /\ busy[c] = Idle /\ inproc[c] = {}
                              /\ \A t \in Task : ~(events[c][t] > 0)
        BY <2>t, <3>2 DEF Digested, EventsTyped
      <4>2. \A t \in Task : ~Planned(t)
        BY <3>2, <4>1, IdleHolds, Zenon DEF Digested, Planned
      <4>3. \A t \in Task : ~Planned(t)'
        BY <2>1, <4>2, Zenon DEF Start, Planned
      <4>4. Done' = {}
        BY <2>1, <3>2 DEF Start, Digested, Done
      <4>5. \A c \in Center : ~HalfCleared(c)'
        BY <2>1, <4>1, IdleHolds, Zenon DEF Start, HalfCleared
      <4>6. QED
        BY <2>1, <4>3, <4>4, <4>5, Zenon
           DEF Start, SetRunning, InOrder, Orderly
    <3>3. CASE ~plan /\ ~Digested
      BY <2>1, <3>3, Zenon DEF Start, SetRunning, InOrder
    <3>4. QED
      BY <3>1, <3>2, <3>3, Zenon
  <2>2. ASSUME HalfPeriodPasses PROVE InOrder'
    BY <2>2, NothingPlanned, Zenon DEF HalfPeriodPasses
  <2>3. ASSUME NeighbourEnds PROVE InOrder'
    BY <2>3, Zenon DEF NeighbourEnds, PlanGone, InOrder
  <2>4. ASSUME SessionEnds PROVE InOrder'
    BY <2>4, NothingPlanned, Zenon DEF SessionEnds
  <2>5. ASSUME NEW c \in Center, BecomeLeader(c) PROVE InOrder'
    BY <2>5, NothingPlanned, Zenon DEF BecomeLeader
  <2>6. ASSUME NEW c \in Center, StepDown(c) PROVE InOrder'
    BY <2>6, NothingPlanned, Zenon DEF StepDown
  <2>7. ASSUME NEW c \in Center, CenterCrash(c) PROVE InOrder'
    <3>1. Do(c, Idle) /\ UNCHANGED <<plan, clean, succeeded, st>>
      BY <2>7, Zenon DEF CenterCrash
    <3>2. \A q \in Task, d \in Center : q \in inproc'[d] => q \in inproc[d]
      BY <2>7, <2>t DEF CenterCrash
    <3>3. \A q \in Task, d \in Center : events'[d][q] > 0 => events[d][q] > 0
      BY <2>7, <2>t DEF CenterCrash, EventsTyped
    <3>4. QED
      BY <2>t, <2>d, <2>p, <3>1, <3>2, <3>3, IdleHolds, PlannedBy, HolderPlans,
         StaysInOrder, Zenon DEF Done
  <2>8. ASSUME NEW c \in Center, Scan(c) PROVE InOrder'
    <3>1. PICK S \in SUBSET ReadySoon(c) :
            Conclude(c, ReadyNow \cup S, Judgement)
      BY <2>8, Zenon DEF Scan
    <3>2. ReadyNow \cup S \subseteq Startable
      BY <3>1, Verdicts
    <3>3. \A q \in Task, d \in Center :
            events'[d][q] > 0 => events[d][q] > 0 \/ q \in Startable
      BY <2>t, <3>1, <3>2, EventsPlanned
    <3>4. UNCHANGED <<plan, clean, succeeded, st, inproc, busy>>
      BY <2>8, Zenon DEF Scan
    <3>5. clean => \A q \in Task : Planned(q)'
                       => Planned(q) \/ Deps[q] \subseteq succeeded'
      BY <3>3, <3>4, MayStart, Zenon DEF Planned
    <3>6. QED
      BY <2>d, <2>p, <3>4, <3>5, StaysInOrder, Zenon DEF Done, HalfCleared
  <2>9. ASSUME NEW c \in Center, ScanSuspects(c) PROVE InOrder'
    <3>1. PICK S \in SUBSET Task, R \in SUBSET ReadySoon(c) :
            Do(c, Scanning(S, {}, ReadyNow \cup R, Judgement))
      BY <2>9, Verdicts DEF ScanSuspects
    <3> DEFINE w == Scanning(S, {}, ReadyNow \cup R, Judgement)
    <3>2. w.job = "scan" /\ w.ready \subseteq Startable
      BY <3>1, Verdicts DEF Scanning
    <3>3. \A q : Holds(w, q) => q \in Startable
      BY <3>2 DEF Holds, Checking, Dispatching
    <3> HIDE DEF w
    <3>4. UNCHANGED <<plan, clean, succeeded, st, events, inproc>>
      BY <2>9, Zenon DEF ScanSuspects
    <3>5. Do(c, w)
      BY <3>1 DEF w
    <3>6. CASE clean
      <4>1. \A q \in Task : Holds(w, q) => Deps[q] \subseteq succeeded'
        BY <3>3, <3>4, <3>6, MayStart, Zenon
      <4>2. w.job # "finish"
        BY <3>2
      <4>3. QED
        BY <2>t, <2>d, <2>p, <3>4, <3>5, <4>1, <4>2, PlannedBy, HolderPlans,
           StaysInOrder, Zenon DEF Done
    <3>7. CASE ~clean
      BY <2>p, <3>4, <3>7, StaysInOrder, Zenon
    <3>8. QED
      BY <3>6, <3>7
  <2>10. ASSUME NEW c \in Center, ScanEnds(c) PROVE InOrder'
    <3>1. busy[c] \in Scans
      BY <2>10, <2>t, BusyScan DEF ScanEnds
    <3>2. \A q \in Task : q \in busy[c].ready => Planned(q)
      BY <2>10, PlannedBy, Zenon DEF ScanEnds, Holds
    <3>3. \A q \in Task, d \in Center :
            events'[d][q] > 0 => events[d][q] > 0 \/ q \in busy[c].ready
      BY <2>10, <2>t, EventsPlanned, Zenon DEF ScanEnds
    <3>4. Do(c, Idle) /\ UNCHANGED <<plan, clean, succeeded, st, inproc>>
      BY <2>10, Zenon DEF ScanEnds
    <3>5. \A q \in Task, d \in Center : events'[d][q] > 0 => Planned(q)
      BY <3>2, <3>3, PlannedBy, Zenon
    <3>6. QED
      BY <2>t, <2>d, <2>p, <3>4, <3>5, IdleHolds, PlannedBy, HolderPlans,
         StaysInOrder, Zenon DEF Done
  <2>11. ASSUME NEW c \in Center, Kill(c) PROVE InOrder'
    BY <2>11, NothingPlanned, Zenon DEF Kill
  <2>12. ASSUME NEW c \in Center, FinishBegins(c) PROVE InOrder'
    <3>1. PICK w :
            /\ w.job = "finish" /\ w.step = "plan"
            /\ busy' = IF plan THEN [busy EXCEPT ![c] = w] ELSE busy
      BY <2>12 DEF FinishBegins, Ending
    <3>2. UNCHANGED <<plan, clean, succeeded, st, events, inproc>>
      BY <2>12, Zenon DEF FinishBegins
    <3>3. CASE plan
      <4>1. Do(c, w)
        BY <3>1, <3>3, Zenon DEF Do
      <4>2. \A q \in Task : ~Holds(w, q)
        BY <3>1 DEF Holds, Checking, Dispatching
      <4>3. ~(w.job = "finish" /\ w.step = "states")
        BY <3>1
      <4>4. QED
        BY <2>t, <2>d, <2>p, <3>2, <4>1, <4>2, <4>3, PlannedBy, HolderPlans,
           StaysInOrder, Zenon DEF Done
    <3>4. CASE ~plan
      BY <3>1, <3>2, <3>4, NothingPlanned, Zenon
    <3>5. QED
      BY <3>3, <3>4
  <2>13. ASSUME NEW c \in Center, ClearPlan(c) PROVE InOrder'
    BY <2>13, Zenon DEF ClearPlan, PlanGone, InOrder
  <2>14. ASSUME NEW c \in Center, ClearStates(c) PROVE InOrder'
    <3>1. ~clean /\ UNCHANGED <<plan, clean, succeeded>>
      BY <2>14, Zenon DEF ClearStates, InOrder, Orderly, HalfCleared
    <3>2. QED
      BY <2>p, <3>1, StaysInOrder, Zenon
  <2>15. ASSUME NEW c \in Center, KillTasks(c) PROVE InOrder'
    <3>1. Do(c, Idle) /\ UNCHANGED <<plan, clean, succeeded, st, events>>
      BY <2>15, Zenon DEF KillTasks
    <3>2. \A q \in Task, d \in Center : q \in inproc'[d] => q \in inproc[d]
      BY <2>15, <2>t DEF KillTasks
    <3>3. QED
      BY <2>t, <2>d, <2>p, <3>1, <3>2, IdleHolds, PlannedBy, HolderPlans,
         StaysInOrder, Zenon DEF Done
  <2>16. ASSUME NEW c \in Center, FinishFails(c) PROVE InOrder'
    <3>1. /\ Do(c, Idle)
          /\ UNCHANGED <<plan, clean, succeeded, st, events, inproc>>
      BY <2>16, Zenon DEF FinishFails
    <3>2. QED
      BY <2>t, <2>d, <2>p, <3>1, IdleHolds, PlannedBy, HolderPlans,
         StaysInOrder, Zenon DEF Done
  <2>17. ASSUME NEW c \in Center, NEW t \in Task, LookAtLock(c, t)
        PROVE  InOrder'
    <3> DEFINE w == [busy[c] EXCEPT !.suspects = @ \ {t},
               !.lost = IF lock[t] = None THEN @ \cup {t} ELSE @]
    <3>1. busy[c] \in Scans /\ busy[c].job = "scan"
      BY <2>17, <2>t, BusyScan DEF LookAtLock
    <3>2. w.job = "scan" /\ w.ready = busy[c].ready
      BY <3>1 DEF Scans
    <3>3. \A q : Holds(w, q) => Holds(busy[c], q)
      BY <3>1, <3>2 DEF Holds, Checking, Dispatching
    <3>4. Do(c, w)
      BY <2>17, Zenon DEF LookAtLock
    <3> HIDE DEF w
    <3>5. w.job # "finish"
      BY <3>2
    <3>6. UNCHANGED <<plan, clean, succeeded, events, inproc>>
      BY <2>17, Zenon DEF LookAtLock
    <3>7. /\ Done' \subseteq Done
          /\ \A q \in Task : st'[q] # "absent" => st[q] # "absent"
      BY <2>17, <2>t DEF LookAtLock, Done
    <3>8. QED
      BY <2>t, <2>d, <2>p, <3>3, <3>4, <3>5, <3>6, <3>7, PlannedBy,
         HolderPlans,
         StaysInOrder, Zenon
  <2>18. ASSUME NEW c \in Center, NEW t \in Task, Rescue(c, t) PROVE InOrder'
    <3> DEFINE w == [busy[c] EXCEPT !.lost = @ \ {t}]
    <3>1. busy[c] \in Scans /\ busy[c].job = "scan"
      BY <2>18, <2>t, BusyScan DEF Rescue
    <3>2. w.job = "scan" /\ w.ready = busy[c].ready
      BY <3>1 DEF Scans
    <3>3. \A q : Holds(w, q) => Holds(busy[c], q)
      BY <3>1, <3>2 DEF Holds, Checking, Dispatching
    <3>4. Do(c, w)
      BY <2>18, Zenon DEF Rescue
    <3> HIDE DEF w
    <3>5. w.job # "finish"
      BY <3>2
    <3>6. UNCHANGED <<plan, clean, succeeded, events, inproc>>
      BY <2>18, Zenon DEF Rescue
    <3>7. /\ Done' \subseteq Done
          /\ \A q \in Task : st'[q] # "absent" => st[q] # "absent"
      BY <2>18, <2>t DEF Rescue, StateNotRunning, Done
    <3>8. QED
      BY <2>t, <2>d, <2>p, <3>3, <3>4, <3>5, <3>6, <3>7, PlannedBy,
         HolderPlans,
         StaysInOrder, Zenon
  <2>19. ASSUME NEW c \in Center, NEW t \in Task, RescueSkipped(c, t)
        PROVE  InOrder'
    <3> DEFINE w == [busy[c] EXCEPT !.lost = @ \ {t}]
    <3>1. busy[c] \in Scans /\ busy[c].job = "scan"
      BY <2>19, <2>t, BusyScan DEF RescueSkipped
    <3>2. w.job = "scan" /\ w.ready = busy[c].ready
      BY <3>1 DEF Scans
    <3>3. \A q : Holds(w, q) => Holds(busy[c], q)
      BY <3>1, <3>2 DEF Holds, Checking, Dispatching
    <3>4. Do(c, w)
      BY <2>19, Zenon DEF RescueSkipped
    <3> HIDE DEF w
    <3>5. w.job # "finish"
      BY <3>2
    <3>6. UNCHANGED <<plan, clean, succeeded, events, inproc>>
      BY <2>19, Zenon DEF RescueSkipped
    <3>7. /\ Done' \subseteq Done
          /\ \A q \in Task : st'[q] # "absent" => st[q] # "absent"
      BY <2>19, <2>t DEF RescueSkipped, Done
    <3>8. QED
      BY <2>t, <2>d, <2>p, <3>3, <3>4, <3>5, <3>6, <3>7, PlannedBy,
         HolderPlans,
         StaysInOrder, Zenon
  <2>20. ASSUME NEW c \in Center, NEW t \in Task, TakeEvent(c, t)
        PROVE  InOrder'
    <3>1. Planned(t)
      BY <2>20, PlannedBy, Zenon DEF TakeEvent
    <3>2. \A q \in Task, d \in Center : q \in inproc'[d] => Planned(q)
      BY <2>20, <2>t, <3>1, PlannedBy DEF TakeEvent
    <3>3. \A q \in Task, d \in Center : events'[d][q] > 0 => events[d][q] > 0
      BY <2>20, <2>t DEF TakeEvent, EventsTyped
    <3>4. UNCHANGED <<plan, clean, succeeded, st, busy>>
      BY <2>20, Zenon DEF TakeEvent
    <3>5. \A q \in Task : Planned(q)' => Planned(q)
      BY <3>2, <3>3, <3>4, PlannedBy, Zenon DEF Planned
    <3>6. QED
      BY <2>d, <2>p, <3>4, <3>5, StaysInOrder, Zenon DEF Done, HalfCleared
  <2>21. ASSUME NEW c \in Center, NEW t \in Task, CheckPlan(c, t)
        PROVE  InOrder'
    <3>1. Planned(t)
      BY <2>21, PlannedBy, Zenon DEF CheckPlan, Holds
    <3>2. Do(c, Checking(t))
      BY <2>21, Zenon DEF CheckPlan
    <3>3. UNCHANGED <<plan, clean, succeeded, st, events, inproc>>
      BY <2>21, Zenon DEF CheckPlan
    <3>4. /\ Checking(t).job # "finish"
          /\ \A q \in Task : Holds(Checking(t), q) => q = t
      BY DEF Holds, Checking, Dispatching
    <3>5. /\ \A q \in Task : Planned(q)'
                => Planned(q) \/ Deps[q] \subseteq succeeded'
          /\ \A d \in Center : HalfCleared(d)' => HalfCleared(d)
      <4>1. \A q \in Task : Holds(Checking(t), q) => Planned(q)
        BY <3>1, <3>4, Zenon
      <4>2. /\ \A q \in Task : st'[q] # "absent" => Planned(q)
            /\ \A q \in Task, d \in Center : events'[d][q] > 0 => Planned(q)
            /\ \A q \in Task, d \in Center : q \in inproc'[d] => Planned(q)
        BY <3>3, PlannedBy, Zenon
      <4>3. QED
        BY <2>t, <3>2, <3>4, <4>1, <4>2, HolderPlans, Zenon
    <3>6. Done' = Done
      BY <3>3, Zenon DEF Done
    <3>7. QED
      BY <2>t, <2>d, <2>p, <3>3, <3>5, <3>6, StaysInOrder, Zenon
  <2>22. ASSUME NEW c \in Center, NEW t \in Task, CheckPlanFails(c, t)
        PROVE  InOrder'
    <3>1. \A q \in Task, d \in Center : q \in inproc'[d] => q \in inproc[d]
      BY <2>22, <2>t DEF CheckPlanFails, Leave
    <3>2. UNCHANGED <<plan, clean, succeeded, st, busy, events>>
      BY <2>22, Zenon DEF CheckPlanFails
    <3>3. \A q \in Task : Planned(q)' => Planned(q)
      BY <3>1, <3>2, PlannedBy, Zenon DEF Planned
    <3>4. QED
      BY <2>d, <2>p, <3>2, <3>3, StaysInOrder, Zenon DEF Done, HalfCleared
  <2>23. ASSUME NEW c \in Center, NEW t \in Task, CheckState(c, t)
        PROVE  InOrder'
    <3>1. Planned(t)
      BY <2>23, PlannedBy, Zenon DEF CheckState, Holds
    <3>2. Do(c, Dispatching(t))
      BY <2>23, Zenon DEF CheckState
    <3>3. UNCHANGED <<plan, clean, succeeded, st, events, inproc>>
      BY <2>23, Zenon DEF CheckState
    <3>4. /\ Dispatching(t).job # "finish"
          /\ \A q \in Task : Holds(Dispatching(t), q) => q = t
      BY DEF Holds, Checking, Dispatching
    <3>5. /\ \A q \in Task : Planned(q)'
                => Planned(q) \/ Deps[q] \subseteq succeeded'
          /\ \A d \in Center : HalfCleared(d)' => HalfCleared(d)
      <4>1. \A q \in Task : Holds(Dispatching(t), q) => Planned(q)
        BY <3>1, <3>4, Zenon
      <4>2. /\ \A q \in Task : st'[q] # "absent" => Planned(q)
            /\ \A q \in Task, d \in Center : events'[d][q] > 0 => Planned(q)
            /\ \A q \in Task, d \in Center : q \in inproc'[d] => Planned(q)
        BY <3>3, PlannedBy, Zenon
      <4>3. QED
        BY <2>t, <3>2, <3>4, <4>1, <4>2, HolderPlans, Zenon
    <3>6. Done' = Done
      BY <3>3, Zenon DEF Done
    <3>7. QED
      BY <2>t, <2>d, <2>p, <3>3, <3>5, <3>6, StaysInOrder, Zenon
  <2>24. ASSUME NEW c \in Center, NEW t \in Task, CheckStateFails(c, t)
        PROVE  InOrder'
    <3>1. Do(c, Idle) /\ UNCHANGED <<plan, clean, succeeded, st, events>>
      BY <2>24, Zenon DEF CheckStateFails
    <3>2. \A q \in Task, d \in Center : q \in inproc'[d] => q \in inproc[d]
      BY <2>24, <2>t DEF CheckStateFails, Leave
    <3>3. QED
      BY <2>t, <2>d, <2>p, <3>1, <3>2, IdleHolds, PlannedBy, HolderPlans,
         StaysInOrder, Zenon DEF Done
  <2>25. ASSUME NEW c \in Center, NEW t \in Task, DispatchTask(c, t)
        PROVE  InOrder'
    <3>1. Planned(t)
      BY <2>25, PlannedBy, Zenon DEF DispatchTask, SetStarting, Holds
    <3>2. /\ Do(c, Idle) /\ Leave(c, t)
          /\ UNCHANGED <<plan, clean, succeeded, events>>
          /\ st' = [st EXCEPT ![t] = "starting"]
      BY <2>25, Zenon DEF DispatchTask, SetStarting
    <3>3. \A q \in Task, d \in Center : q \in inproc'[d] => q \in inproc[d]
      BY <2>t, <3>2 DEF Leave
    <3>4. /\ Done' \subseteq Done
          /\ \A q \in Task : st'[q] # "absent" => Planned(q)
      BY <2>t, <3>1, <3>2, PlannedBy DEF Done
    <3>5. QED
      BY <2>t, <2>d, <2>p, <3>2, <3>3, <3>4, IdleHolds, PlannedBy, HolderPlans,
         StaysInOrder, Zenon
  <2>26. ASSUME NEW c \in Center, NEW t \in Task, DispatchFails(c, t)
        PROVE  InOrder'
    <3>1. Planned(t)
      BY <2>26, PlannedBy, Zenon DEF DispatchFails, SetStarting, Holds
    <3>2. /\ Do(c, Idle) /\ Leave(c, t)
          /\ UNCHANGED <<plan, clean, succeeded, events>>
          /\ st' = [st EXCEPT ![t] = "starting"]
      BY <2>26, Zenon DEF DispatchFails, SetStarting
    <3>3. \A q \in Task, d \in Center : q \in inproc'[d] => q \in inproc[d]
      BY <2>t, <3>2 DEF Leave
    <3>4. /\ Done' \subseteq Done
          /\ \A q \in Task : st'[q] # "absent" => Planned(q)
      BY <2>t, <3>1, <3>2, PlannedBy DEF Done
    <3>5. QED
      BY <2>t, <2>d, <2>p, <3>2, <3>3, <3>4, IdleHolds, PlannedBy, HolderPlans,
         StaysInOrder, Zenon
  <2>27. ASSUME NEW t \in Task, LateRunning(t) PROVE InOrder'
    <3>1. /\ Done' \subseteq Done
          /\ \A q \in Task : st'[q] # "absent" => st[q] # "absent"
      BY <2>27, <2>t DEF LateRunning, StateRunning, Done
    <3>2. UNCHANGED <<plan, clean, succeeded, events, inproc, busy>>
      BY <2>27, Zenon DEF LateRunning
    <3>3. \A q \in Task : Planned(q)' => Planned(q)
      BY <3>1, <3>2, Zenon DEF Planned
    <3>4. QED
      BY <2>d, <2>p, <3>1, <3>2, <3>3, StaysInOrder, Zenon DEF HalfCleared
  <2>28. ASSUME NEW c \in Center, NEW t \in Task, NEW o \in {"ok", "err"},
                LateResult(c, t, o)
        PROVE  InOrder'
    <3>2. /\ plan => Done' \subseteq Done \cup succeeded'
          /\ \A q \in Task : st'[q] # "absent" => st[q] # "absent"
          /\ succeeded \subseteq succeeded'
          /\ ~plan => succeeded' = succeeded
      BY <2>28, <2>t DEF LateResult, HandleResult, After, Done
    <3>3. UNCHANGED <<plan, clean, events, inproc, busy>>
      BY <2>28, Zenon DEF LateResult, HandleResult
    <3>4. clean => plan
      BY Zenon DEF InOrder
    <3>5. clean => Done' \subseteq succeeded'
      BY <2>d, <3>2, <3>4
    <3>6. \A q \in Task : Planned(q)' => Planned(q)
      BY <3>2, <3>3, Zenon DEF Planned
    <3>7. QED
      BY <2>p, <3>2, <3>3, <3>5, <3>6, StaysInOrder, Zenon DEF HalfCleared
  <2>29. ASSUME NEW r \in Run, TakeLock(r) PROVE InOrder'
    BY <2>29, NothingPlanned, Zenon DEF TakeLock
  <2>30. ASSUME NEW r \in Run, LockRefused(r) PROVE InOrder'
    BY <2>30, NothingPlanned, Zenon DEF LockRefused
  <2>31. ASSUME NEW r \in Run, RunningReported(r) PROVE InOrder'
    <3>1. /\ Done' \subseteq Done
          /\ \A q \in Task : st'[q] # "absent" => st[q] # "absent"
      BY <2>31, <2>t DEF RunningReported, StateRunning, Done
    <3>2. UNCHANGED <<plan, clean, succeeded, events, inproc, busy>>
      BY <2>31, Zenon DEF RunningReported
    <3>3. \A q \in Task : Planned(q)' => Planned(q)
      BY <3>1, <3>2, Zenon DEF Planned
    <3>4. QED
      BY <2>d, <2>p, <3>1, <3>2, <3>3, StaysInOrder, Zenon DEF HalfCleared
  <2>32. ASSUME NEW r \in Run, RunningFails(r) PROVE InOrder'
    BY <2>32, NothingPlanned, Zenon DEF RunningFails
  <2>33. ASSUME NEW r \in Run, RunningRefused(r) PROVE InOrder'
    BY <2>33, NothingPlanned, Zenon DEF RunningRefused
  <2>34. ASSUME NEW r \in Run, RunningGivenUp(r) PROVE InOrder'
    BY <2>34, NothingPlanned, Zenon DEF RunningGivenUp
  <2>35. ASSUME NEW r \in Run, CommandEnds(r) PROVE InOrder'
    BY <2>35, NothingPlanned, Zenon DEF CommandEnds
  <2>36. ASSUME NEW r \in Run, ResultGivenUp(r) PROVE InOrder'
    BY <2>36, NothingPlanned, Zenon DEF ResultGivenUp
  <2>37. ASSUME NEW r \in Run, Release(r) PROVE InOrder'
    BY <2>37, NothingPlanned, Zenon DEF Release
  <2>38. ASSUME NEW r \in Run, AgentCrash(r) PROVE InOrder'
    BY <2>38, NothingPlanned, Zenon DEF AgentCrash
  <2>39. ASSUME NEW c \in Center, NEW r \in Run, ResultReported(c, r)
        PROVE  InOrder'
    <3>1. task[r] \in Task
      BY <2>39, <2>t DEF ResultReported
    <3>2. /\ plan => Done' \subseteq Done \cup succeeded'
          /\ \A q \in Task : st'[q] # "absent" => st[q] # "absent"
          /\ succeeded \subseteq succeeded'
          /\ ~plan => succeeded' = succeeded
      BY <2>39, <2>t, <3>1 DEF ResultReported, HandleResult, After, Done
    <3>3. UNCHANGED <<plan, clean, events, inproc, busy>>
      BY <2>39, Zenon DEF ResultReported, HandleResult
    <3>4. clean => plan
      BY Zenon DEF InOrder
    <3>5. clean => Done' \subseteq succeeded'
      BY <2>d, <3>2, <3>4
    <3>6. \A q \in Task : Planned(q)' => Planned(q)
      BY <3>2, <3>3, Zenon DEF Planned
    <3>7. QED
      BY <2>p, <3>2, <3>3, <3>5, <3>6, StaysInOrder, Zenon DEF HalfCleared
  <2>40. CASE UNCHANGED vars
    BY <2>40, NothingPlanned, Zenon DEF vars
  <2>41. QED
    BY <2>1, <2>2, <2>3, <2>4, <2>5, <2>6, <2>7, <2>8, <2>9, <2>10, <2>11,
       <2>12, <2>13, <2>14, <2>15, <2>16, <2>17, <2>18, <2>19, <2>20,
       <2>21, <2>22, <2>23, <2>24, <2>25, <2>26, <2>27, <2>28, <2>29,
       <2>30, <2>31, <2>32, <2>33, <2>34, <2>35, <2>36, <2>37, <2>38,
       <2>39, <2>40 DEF Next
<1>3. QED
  BY <1>1, <1>2, WorkflowTypeCorrect, PTL DEF Spec

\* A step that changes neither the successes nor which tasks have a state is
\* no step of WorkflowDag, and so is a step of a plan that is not clean.
LEMMA Stutters ==
    ASSUME clean' = clean,
           clean => /\ succeeded' = succeeded
                    /\ \A t \in Task : st'[t] = "absent" <=> st[t] = "absent"
    PROVE  UNCHANGED Dag!vars
BY DEF Dag!vars

\* The start of a task in a plan that nothing has spoilt is a Try of the
\* abstract one.
LEMMA Attempt ==
    ASSUME InOrder, clean, clean', succeeded' = succeeded, NEW c \in Center,
           NEW t \in Task, busy[c] = Dispatching(t),
           st \in [Task -> Status], st' = [st EXCEPT ![t] = "starting"]
    PROVE  Dag!Try(t)
<1>1. Planned(t)
  BY PlannedBy, Zenon DEF Holds
<1>2. Deps[t] \subseteq succeeded
  BY <1>1, Zenon DEF InOrder, Orderly
<1>3. {q \in Task : st'[q] # "absent"}
        = {q \in Task : st[q] # "absent"} \cup {t}
  OBVIOUS
<1>4. QED
  BY <1>2, <1>3 DEF Dag!Try

\* A result is Complete of the abstract one, or was there before.
LEMMA Result ==
    ASSUME InOrder, clean, NEW c \in Center, NEW t \in Task,
           NEW o \in {"ok", "err"}, st \in [Task -> Status],
           HandleResult(c, t, o)
    PROVE  Dag!Complete(t) \/ UNCHANGED Dag!vars
<1>1. plan /\ clean'
  BY Zenon DEF InOrder, HandleResult
<1>2. /\ After(t, o) = "absent" <=> st[t] = "absent"
      /\ st' = [st EXCEPT ![t] = After(t, o)]
  BY DEF HandleResult, After
<1>3. \A q \in Task : st'[q] = "absent" <=> st[q] = "absent"
  BY <1>2
<1>4. CASE After(t, o) = "done"
  <2>1. st[t] # "absent" /\ succeeded' = succeeded \cup {t}
    BY <1>1, <1>2, <1>4, Zenon DEF HandleResult
  <2>2. {q \in Task : st'[q] # "absent"} = {q \in Task : st[q] # "absent"}
    BY <1>3
  <2>3. QED
    BY <1>1, <2>1, <2>2 DEF Dag!Complete
<1>5. CASE After(t, o) # "done"
  BY <1>1, <1>3, <1>5, Stutters, Zenon DEF HandleResult
<1>6. QED
  BY <1>4, <1>5

\* Every step of the centers and agents is a step of the workflow that
\* WorkflowDag allows, or none: a plan that starts on nothing left over tries
\* its tasks in the order of the dependencies (scheduleTask, CanSchedule,
\* setWorkFlowTaskFinished, Finished).
THEOREM RunnerImplementsDag == Spec => ImplementsDag
<1> USE WorkflowAssumption
    DEF etcdVars, centerVars, agentVars, history, leadVars, runnerVars, NoFault
<1>1. Init => Dag!Init
  BY DEF Init, Dag!Init
<1>2. ASSUME InOrder, TypeOK, [Next]_vars PROVE [Dag!Next]_Dag!vars
  <2> USE <1>2
  <2>t. /\ st \in [Task -> Status] /\ clean \in BOOLEAN
        /\ task \in [Run -> Task \cup {None}]
        /\ \A r \in Run : task[r] = None <=> pc[r] = "free"
    BY TypedParts, Zenon
  <2>1. ASSUME Start PROVE [Dag!Next]_Dag!vars
    <3>1. CASE plan
      BY <2>1, <3>1, Stutters, Zenon DEF Start
    <3>2. CASE ~plan /\ Digested
      <4>1. ~clean /\ succeeded = {} /\ \A t \in Task : st[t] = "absent"
        BY <3>2, Zenon DEF InOrder, Digested
      <4>2. clean' = TRUE /\ succeeded' = {} /\ st' = st
        BY <2>1, <3>2, <4>1, Zenon DEF Start, Digested
      <4>3. Dag!Start
        BY <4>1, <4>2 DEF Dag!Start
      <4>4. QED
        BY <4>3, Zenon DEF Dag!Next
    <3>3. CASE ~plan /\ ~Digested
      <4>1. ~clean
        BY <3>3, Zenon DEF InOrder
      <4>2. clean' = clean
        BY <2>1, <2>t, <3>3, <4>1, Zenon DEF Start, Digested
      <4>3. QED
        BY <4>1, <4>2, Stutters, Zenon
    <3>4. QED
      BY <3>1, <3>2, <3>3, Zenon
  <2>2. ASSUME HalfPeriodPasses PROVE [Dag!Next]_Dag!vars
    BY <2>2, Stutters, Zenon DEF HalfPeriodPasses
  <2>3. ASSUME NeighbourEnds PROVE [Dag!Next]_Dag!vars
    <3>1. CASE clean
      <4>1. clean' = FALSE /\ succeeded' = {}
        BY <2>3, Zenon DEF NeighbourEnds, PlanGone
      <4>2. Dag!End
        BY <3>1, <4>1 DEF Dag!End
      <4>3. QED
        BY <4>2, Zenon DEF Dag!Next
    <3>2. CASE ~clean
      BY <2>3, <2>t, <3>2, Stutters, Zenon DEF NeighbourEnds, PlanGone
    <3>3. QED
      BY <3>1, <3>2
  <2>4. ASSUME SessionEnds PROVE [Dag!Next]_Dag!vars
    BY <2>4, Stutters, Zenon DEF SessionEnds
  <2>5. ASSUME NEW c \in Center, BecomeLeader(c) PROVE [Dag!Next]_Dag!vars
    BY <2>5, Stutters, Zenon DEF BecomeLeader
  <2>6. ASSUME NEW c \in Center, StepDown(c) PROVE [Dag!Next]_Dag!vars
    BY <2>6, Stutters, Zenon DEF StepDown
  <2>7. ASSUME NEW c \in Center, CenterCrash(c) PROVE [Dag!Next]_Dag!vars
    BY <2>7, Stutters, Zenon DEF CenterCrash
  <2>8. ASSUME NEW c \in Center, Scan(c) PROVE [Dag!Next]_Dag!vars
    BY <2>8, Stutters, Zenon DEF Scan
  <2>9. ASSUME NEW c \in Center, ScanSuspects(c) PROVE [Dag!Next]_Dag!vars
    BY <2>9, Stutters, Zenon DEF ScanSuspects
  <2>10. ASSUME NEW c \in Center, ScanEnds(c) PROVE [Dag!Next]_Dag!vars
    BY <2>10, Stutters, Zenon DEF ScanEnds
  <2>11. ASSUME NEW c \in Center, Kill(c) PROVE [Dag!Next]_Dag!vars
    BY <2>11, Stutters, Zenon DEF Kill
  <2>12. ASSUME NEW c \in Center, FinishBegins(c) PROVE [Dag!Next]_Dag!vars
    BY <2>12, Stutters, Zenon DEF FinishBegins
  <2>13. ASSUME NEW c \in Center, ClearPlan(c) PROVE [Dag!Next]_Dag!vars
    <3>1. CASE clean
      <4>1. clean' = FALSE /\ succeeded' = {}
        BY <2>13, Zenon DEF ClearPlan, PlanGone
      <4>2. Dag!End
        BY <3>1, <4>1 DEF Dag!End
      <4>3. QED
        BY <4>2, Zenon DEF Dag!Next
    <3>2. CASE ~clean
      BY <2>13, <2>t, <3>2, Stutters, Zenon DEF ClearPlan, PlanGone
    <3>3. QED
      BY <3>1, <3>2
  <2>14. ASSUME NEW c \in Center, ClearStates(c) PROVE [Dag!Next]_Dag!vars
    <3>1. ~clean /\ clean' = clean
      BY <2>14, Zenon DEF ClearStates, InOrder, Orderly, HalfCleared
    <3>2. QED
      BY <3>1, Stutters, Zenon
  <2>15. ASSUME NEW c \in Center, KillTasks(c) PROVE [Dag!Next]_Dag!vars
    BY <2>15, Stutters, Zenon DEF KillTasks
  <2>16. ASSUME NEW c \in Center, FinishFails(c) PROVE [Dag!Next]_Dag!vars
    BY <2>16, Stutters, Zenon DEF FinishFails
  <2>17. ASSUME NEW c \in Center, NEW t \in Task, LookAtLock(c, t)
        PROVE  [Dag!Next]_Dag!vars
    BY <2>17, Stutters, Zenon DEF LookAtLock
  <2>18. ASSUME NEW c \in Center, NEW t \in Task, Rescue(c, t)
        PROVE  [Dag!Next]_Dag!vars
    <3>1. \A q \in Task : st'[q] = "absent" <=> st[q] = "absent"
      BY <2>18, <2>t DEF Rescue, StateNotRunning
    <3>2. QED
      BY <2>18, <3>1, Stutters, Zenon DEF Rescue
  <2>19. ASSUME NEW c \in Center, NEW t \in Task, RescueSkipped(c, t)
        PROVE  [Dag!Next]_Dag!vars
    BY <2>19, Stutters, Zenon DEF RescueSkipped
  <2>20. ASSUME NEW c \in Center, NEW t \in Task, TakeEvent(c, t)
        PROVE  [Dag!Next]_Dag!vars
    BY <2>20, Stutters, Zenon DEF TakeEvent
  <2>21. ASSUME NEW c \in Center, NEW t \in Task, CheckPlan(c, t)
        PROVE  [Dag!Next]_Dag!vars
    BY <2>21, Stutters, Zenon DEF CheckPlan
  <2>22. ASSUME NEW c \in Center, NEW t \in Task, CheckPlanFails(c, t)
        PROVE  [Dag!Next]_Dag!vars
    BY <2>22, Stutters, Zenon DEF CheckPlanFails
  <2>23. ASSUME NEW c \in Center, NEW t \in Task, CheckState(c, t)
        PROVE  [Dag!Next]_Dag!vars
    BY <2>23, Stutters, Zenon DEF CheckState
  <2>24. ASSUME NEW c \in Center, NEW t \in Task, CheckStateFails(c, t)
        PROVE  [Dag!Next]_Dag!vars
    BY <2>24, Stutters, Zenon DEF CheckStateFails
  <2>25. ASSUME NEW c \in Center, NEW t \in Task, DispatchTask(c, t)
        PROVE  [Dag!Next]_Dag!vars
    <3>1. CASE clean
      BY <2>25, <2>t, <3>1, Attempt, Zenon
         DEF DispatchTask, SetStarting, Dag!Next
    <3>2. CASE ~clean
      BY <2>25, <3>2, Stutters, Zenon DEF DispatchTask, SetStarting
    <3>3. QED
      BY <3>1, <3>2
  <2>26. ASSUME NEW c \in Center, NEW t \in Task, DispatchFails(c, t)
        PROVE  [Dag!Next]_Dag!vars
    <3>1. CASE clean
      BY <2>26, <2>t, <3>1, Attempt, Zenon
         DEF DispatchFails, SetStarting, Dag!Next
    <3>2. CASE ~clean
      BY <2>26, <3>2, Stutters, Zenon DEF DispatchFails, SetStarting
    <3>3. QED
      BY <3>1, <3>2
  <2>27. ASSUME NEW t \in Task, LateRunning(t) PROVE [Dag!Next]_Dag!vars
    <3>1. \A q \in Task : st'[q] = "absent" <=> st[q] = "absent"
      BY <2>27, <2>t DEF LateRunning, StateRunning
    <3>2. QED
      BY <2>27, <3>1, Stutters, Zenon DEF LateRunning
  <2>28. ASSUME NEW c \in Center, NEW t \in Task, NEW o \in {"ok", "err"},
                LateResult(c, t, o)
        PROVE  [Dag!Next]_Dag!vars
    <3>1. CASE clean
      BY <2>28, <2>t, <3>1, Result, Zenon DEF LateResult, Dag!Next
    <3>2. CASE ~clean
      BY <2>28, <3>2, Stutters, Zenon DEF LateResult, HandleResult
    <3>3. QED
      BY <3>1, <3>2
  <2>29. ASSUME NEW r \in Run, TakeLock(r) PROVE [Dag!Next]_Dag!vars
    BY <2>29, Stutters, Zenon DEF TakeLock
  <2>30. ASSUME NEW r \in Run, LockRefused(r) PROVE [Dag!Next]_Dag!vars
    BY <2>30, Stutters, Zenon DEF LockRefused
  <2>31. ASSUME NEW r \in Run, RunningReported(r) PROVE [Dag!Next]_Dag!vars
    <3>1. \A q \in Task : st'[q] = "absent" <=> st[q] = "absent"
      BY <2>31, <2>t DEF RunningReported, StateRunning
    <3>2. QED
      BY <2>31, <3>1, Stutters, Zenon DEF RunningReported
  <2>32. ASSUME NEW r \in Run, RunningFails(r) PROVE [Dag!Next]_Dag!vars
    BY <2>32, Stutters, Zenon DEF RunningFails
  <2>33. ASSUME NEW r \in Run, RunningRefused(r) PROVE [Dag!Next]_Dag!vars
    BY <2>33, Stutters, Zenon DEF RunningRefused
  <2>34. ASSUME NEW r \in Run, RunningGivenUp(r) PROVE [Dag!Next]_Dag!vars
    BY <2>34, Stutters, Zenon DEF RunningGivenUp
  <2>35. ASSUME NEW r \in Run, CommandEnds(r) PROVE [Dag!Next]_Dag!vars
    BY <2>35, Stutters, Zenon DEF CommandEnds
  <2>36. ASSUME NEW r \in Run, ResultGivenUp(r) PROVE [Dag!Next]_Dag!vars
    BY <2>36, Stutters, Zenon DEF ResultGivenUp
  <2>37. ASSUME NEW r \in Run, Release(r) PROVE [Dag!Next]_Dag!vars
    BY <2>37, Stutters, Zenon DEF Release
  <2>38. ASSUME NEW r \in Run, AgentCrash(r) PROVE [Dag!Next]_Dag!vars
    BY <2>38, Stutters, Zenon DEF AgentCrash
  <2>39. ASSUME NEW c \in Center, NEW r \in Run, ResultReported(c, r)
        PROVE  [Dag!Next]_Dag!vars
    <3>0. task[r] \in Task
      BY <2>39, <2>t DEF ResultReported
    <3>1. CASE clean
      BY <2>39, <2>t, <3>0, <3>1, Result, Zenon DEF ResultReported, Dag!Next
    <3>2. CASE ~clean
      BY <2>39, <3>2, Stutters, Zenon DEF ResultReported, HandleResult
    <3>3. QED
      BY <3>1, <3>2
  <2>40. CASE UNCHANGED vars
    BY <2>40, Stutters, Zenon DEF vars
  <2>41. QED
    BY <2>1, <2>2, <2>3, <2>4, <2>5, <2>6, <2>7, <2>8, <2>9, <2>10, <2>11,
       <2>12, <2>13, <2>14, <2>15, <2>16, <2>17, <2>18, <2>19, <2>20,
       <2>21, <2>22, <2>23, <2>24, <2>25, <2>26, <2>27, <2>28, <2>29,
       <2>30, <2>31, <2>32, <2>33, <2>34, <2>35, <2>36, <2>37, <2>38,
       <2>39, <2>40 DEF Next
<1>3. QED
  BY <1>1, <1>2, WorkflowTypeCorrect, StaysOrderly, PTL
     DEF Spec, ImplementsDag, Dag!Spec

-----------------------------------------------------------------------------
\* Why a workflow ends without an error.
SaysOk(w) == w.job = "scan" /\ w.verdict = "ok"
Uncounted == \A t \in Task : st[t] = "absent" => count[t] = 0
Asked(c) == FALSE \in ending[c]
AllDone == succeeded = Task
OneSpent == \E t \in Task : count[t] = Limit
Reasoned ==
    /\ Uncounted
    /\ clean => \A c \in Center : SaysOk(busy[c]) => AllDone
    /\ clean => \A c \in Center : Asked(c) => AllDone \/ OneSpent

\* What a step of a clean plan has to show, and a step of one that is not.
LEMMA KeepsReasons ==
    ASSUME Reasoned, clean' = clean, Uncounted',
           clean /\ AllDone => AllDone', clean /\ OneSpent => OneSpent',
           clean => \A d \in Center : SaysOk(busy'[d])
                                     => SaysOk(busy[d]) \/ AllDone',
           clean => \A d \in Center : Asked(d)'
                         => Asked(d) \/ AllDone' \/ OneSpent'
    PROVE  Reasoned'
BY DEF Reasoned

\* Once the plan is spoilt nothing is said of its verdict.
LEMMA NeedsNoReason ==
    ASSUME ~clean', Uncounted'
    PROVE  Reasoned'
BY Zenon DEF Reasoned

\* Reasons stay reasons as long as the plan and its counters do.
LEMMA SameReasons ==
    ASSUME Reasoned, UNCHANGED <<clean, succeeded, st, count>>,
           clean => \A d \in Center : SaysOk(busy'[d])
                                     => SaysOk(busy[d]) \/ AllDone,
           clean => \A d \in Center : Asked(d)'
                         => Asked(d) \/ AllDone \/ OneSpent
    PROVE  Reasoned'
BY DEF Reasoned, Uncounted, AllDone, OneSpent

\* Only who takes up a new job says something new.
LEMMA OthersSay ==
    ASSUME busy \in [Center -> Busy], NEW c \in Center, NEW w, Do(c, w)
    PROVE  \A d \in Center :
              SaysOk(busy'[d]) => SaysOk(busy[d]) \/ (d = c /\ SaysOk(w))
<1>1. \A d \in Center : busy'[d] = IF d = c THEN w ELSE busy[d]
  BY DEF Do
<1>2. QED
  BY <1>1, Zenon

\* Whoever is still at a task has no verdict yet.
LEMMA SaysNothing ==
    /\ ~SaysOk(Idle)
    /\ \A t : ~SaysOk(Checking(t)) /\ ~SaysOk(Dispatching(t))
BY DEF SaysOk, Idle, Checking, Dispatching

\* The judgement ok is one of a plan that is done.
LEMMA OkMeansDone ==
    ASSUME InOrder, clean, Judgement = "ok", succeeded \subseteq Task
    PROVE  AllDone
<1>1. Done = Task
  BY Zenon DEF Judgement
<1>2. Done \subseteq succeeded
  BY Zenon DEF InOrder, Orderly
<1>3. QED
  BY <1>1, <1>2 DEF AllDone

\* CanSchedule's caller asks for an end without error only after "ok".
LEMMA EndAsked ==
    ASSUME ending \in [Center -> SUBSET BOOLEAN], NEW c \in Center, NEW S,
           NEW v \in Verdict, Conclude(c, S, v)
    PROVE  \A d \in Center :
              Asked(d)' => Asked(d) \/ v = "ok"
<1>1. ending' = [ending EXCEPT ![c] = IF v = "go" THEN ending[c]
                                      ELSE ending[c] \cup {v = "failed"}]
  BY Zenon DEF Conclude
<1>2. CASE v = "ok"
  BY <1>2
<1>3. CASE v = "go"
  BY <1>1, <1>3 DEF Asked
<1>4. CASE v = "failed"
  <2>1. ending' = [ending EXCEPT ![c] = ending[c] \cup {TRUE}]
    BY <1>1, <1>4
  <2>2. QED
    BY <2>1 DEF Asked
<1>5. QED
  BY <1>2, <1>3, <1>4 DEF Verdict

\* An attempt is counted, and never taken back.
LEMMA CountGrows ==
    ASSUME Uncounted, count \in [Task -> 0..Limit], st \in [Task -> Status],
           NEW c \in Center, NEW t \in Task, SetStarting(c, t)
    PROVE  Uncounted' /\ (OneSpent => OneSpent')
<1> DEFINE n == IF st[t] = "absent" THEN 1
                ELSE IF count[t] = Limit THEN count[t] ELSE count[t] + 1
<1>1. /\ count' = [count EXCEPT ![t] = n]
      /\ st' = [st EXCEPT ![t] = "starting"]
  BY Zenon DEF SetStarting
<1>2. count[t] = Limit => n = Limit
  BY WorkflowAssumption DEF Uncounted
<1> HIDE DEF n
<1>3. Uncounted'
  BY <1>1 DEF Uncounted
<1>4. \A q \in Task : count[q] = Limit => count'[q] = Limit
  BY <1>1, <1>2
<1>5. QED
  BY <1>3, <1>4, Zenon DEF OneSpent

\* A result gives the workflow up only after the last attempt.
LEMMA ResultReasons ==
    ASSUME Reasoned, NEW c \in Center, NEW t \in Task,
           NEW o \in {"ok", "err"}, HandleResult(c, t, o),
           st \in [Task -> Status], count \in [Task -> 0..Limit],
           succeeded \subseteq Task, ending \in [Center -> SUBSET BOOLEAN]
    PROVE  Reasoned'
<1>1. UNCHANGED <<clean, count, busy>>
  BY Zenon DEF HandleResult
<1>2. After(t, o) = "absent" => st[t] = "absent"
  BY DEF After
<1>3. \A q \in Task : st'[q] = "absent" => st[q] = "absent"
  BY <1>2, Zenon DEF HandleResult
<1>4. Uncounted'
  BY <1>1, <1>3, Zenon DEF Reasoned, Uncounted
<1>5. AllDone => AllDone'
  <2>1. succeeded' = succeeded \/ succeeded' = succeeded \cup {t}
    BY Zenon DEF HandleResult
  <2>2. QED
    BY <2>1 DEF AllDone
<1>6. OneSpent = OneSpent'
  BY <1>1 DEF OneSpent
<1>7. GivesUp(t, o) => OneSpent'
  <2>1. GivesUp(t, o) => count[t] >= Limit
    BY DEF GivesUp, After
  <2>2. count[t] >= Limit => count[t] = Limit
    BY WorkflowAssumption
  <2>3. QED
    BY <1>1, <2>1, <2>2, Zenon DEF OneSpent
<1>8. \A d \in Center :
        Asked(d)' => Asked(d) \/ GivesUp(t, o)
  BY Zenon DEF HandleResult, Asked
<1>9. QED
  BY <1>1, <1>4, <1>5, <1>6, <1>7, <1>8, KeepsReasons, Zenon

\* Finished is asked for without an error only when all tasks have succeeded or
\* one has used up its attempts, whatever fails and however many centers think
\* they lead (CanSchedule, handleTaskResultV1).
THEOREM EndsHaveAReason == Spec => []EndsForAReason
<1> USE WorkflowAssumption
    DEF Asked, etcdVars, centerVars, agentVars, history, leadVars, runnerVars,
        NoFault
<1>1. Init => Reasoned
  <2>1. Init => Uncounted
    BY DEF Init, Uncounted
  <2>2. QED
    BY <2>1, Zenon DEF Init, Reasoned
<1>2. ASSUME Reasoned, InOrder, TypeOK, [Next]_vars PROVE Reasoned'
  <2> USE <1>2
  <2>t. /\ busy \in [Center -> Busy] /\ st \in [Task -> Status]
        /\ succeeded \subseteq Task /\ clean \in BOOLEAN
        /\ task \in [Run -> Task \cup {None}]
        /\ \A r \in Run : task[r] = None <=> pc[r] = "free"
    BY TypedParts, Zenon
  <2>e. ending \in [Center -> SUBSET BOOLEAN]
    BY Zenon DEF TypeOK
  <2>n. count \in [Task -> 0..Limit]
    BY Zenon DEF TypeOK
  <2>u. Uncounted
    BY Zenon DEF Reasoned
  <2>1. ASSUME Start PROVE Reasoned'
    <3>1. UNCHANGED <<succeeded, st, count, busy, ending>>
      BY <2>1, Zenon DEF Start
    <3>2. CASE plan
      BY <2>1, <3>1, <3>2, SameReasons, Zenon DEF Start
    <3>3. CASE ~plan /\ Digested
      <4>1. \A d \in Center : ~Asked(d)' /\ ~SaysOk(busy'[d])
        BY <3>1, <3>3, SaysNothing, Zenon DEF Digested
      <4>2. QED
        BY <2>u, <3>1, <4>1, Zenon DEF Reasoned, Uncounted
    <3>4. CASE ~plan /\ ~Digested
      <4>1. ~clean'
        BY <2>1, <3>4, Zenon DEF Start
      <4>2. QED
        BY <2>u, <3>1, <4>1, NeedsNoReason, Zenon DEF Uncounted
    <3>5. QED
      BY <3>2, <3>3, <3>4, Zenon
  <2>2. ASSUME HalfPeriodPasses PROVE Reasoned'
    BY <2>2, SameReasons, Zenon DEF HalfPeriodPasses
  <2>3. ASSUME NeighbourEnds PROVE Reasoned'
    <3>1. ~clean' /\ UNCHANGED <<st, count>>
      BY <2>3, Zenon DEF NeighbourEnds, PlanGone
    <3>2. QED
      BY <2>u, <3>1, NeedsNoReason, Zenon DEF Uncounted
  <2>4. ASSUME SessionEnds PROVE Reasoned'
    BY <2>4, SameReasons, Zenon DEF SessionEnds
  <2>5. ASSUME NEW c \in Center, BecomeLeader(c) PROVE Reasoned'
    BY <2>5, SameReasons, Zenon DEF BecomeLeader
  <2>6. ASSUME NEW c \in Center, StepDown(c) PROVE Reasoned'
    BY <2>6, SameReasons, Zenon DEF StepDown
  <2>7. ASSUME NEW c \in Center, CenterCrash(c) PROVE Reasoned'
    <3>1. Do(c, Idle) /\ UNCHANGED <<clean, succeeded, st, count>>
      BY <2>7, Zenon DEF CenterCrash
    <3>2. \A d \in Center : Asked(d)' => Asked(d)
      BY <2>7, <2>e DEF CenterCrash
    <3>3. QED
      BY <2>t, <3>1, <3>2, OthersSay, SaysNothing, SameReasons, Zenon
  <2>8. ASSUME NEW c \in Center, Scan(c) PROVE Reasoned'
    <3>1. PICK S : Conclude(c, S, Judgement)
      BY <2>8, Zenon DEF Scan
    <3>2. \A d \in Center : Asked(d)'
                            => Asked(d) \/ Judgement = "ok"
      BY <2>e, <3>1, Verdicts, EndAsked, Zenon
    <3>3. UNCHANGED <<clean, succeeded, st, count, busy>>
      BY <2>8, Zenon DEF Scan
    <3>4. QED
      BY <2>t, <3>2, <3>3, OkMeansDone, SameReasons, Zenon
  <2>9. ASSUME NEW c \in Center, ScanSuspects(c) PROVE Reasoned'
    <3>1. PICK w : Do(c, w) /\ w.verdict = Judgement
      BY <2>9 DEF ScanSuspects, Scanning
    <3>2. UNCHANGED <<clean, succeeded, st, count, ending>>
      BY <2>9, Zenon DEF ScanSuspects
    <3>3. clean /\ SaysOk(w) => AllDone
      BY <2>t, <3>1, OkMeansDone, Zenon DEF SaysOk
    <3>4. QED
      BY <2>t, <3>1, <3>2, <3>3, OthersSay, SameReasons, Zenon
  <2>10. ASSUME NEW c \in Center, ScanEnds(c) PROVE Reasoned'
    <3>1. busy[c] \in Scans
      BY <2>10, <2>t, BusyScan DEF ScanEnds
    <3>2. busy[c].verdict \in Verdict
      BY <3>1 DEF Scans
    <3>a. Conclude(c, busy[c].ready, busy[c].verdict)
      BY <2>10, Zenon DEF ScanEnds
    <3>3. \A d \in Center : Asked(d)'
                            => Asked(d) \/ busy[c].verdict = "ok"
      BY <2>e, <3>2, <3>a, EndAsked
    <3>4. clean /\ busy[c].verdict = "ok" => AllDone
      BY <2>10, Zenon DEF ScanEnds, Reasoned, SaysOk
    <3>5. Do(c, Idle) /\ UNCHANGED <<clean, succeeded, st, count>>
      BY <2>10, Zenon DEF ScanEnds
    <3>6. QED
      BY <2>t, <3>3, <3>4, <3>5, OthersSay, SaysNothing, SameReasons, Zenon
  <2>11. ASSUME NEW c \in Center, Kill(c) PROVE Reasoned'
    <3>1. \A d \in Center : Asked(d)' => Asked(d)
      BY <2>11, <2>e DEF Kill
    <3>2. QED
      BY <2>11, <3>1, SameReasons, Zenon DEF Kill
  <2>12. ASSUME NEW c \in Center, FinishBegins(c) PROVE Reasoned'
    <3>1. \A d \in Center : Asked(d)' => Asked(d)
      BY <2>12, <2>e, Zenon DEF FinishBegins
    <3>2. \A d \in Center : SaysOk(busy'[d]) => SaysOk(busy[d])
      BY <2>12, <2>t DEF FinishBegins, Ending, SaysOk
    <3>3. QED
      BY <2>12, <3>1, <3>2, SameReasons, Zenon DEF FinishBegins
  <2>13. ASSUME NEW c \in Center, ClearPlan(c) PROVE Reasoned'
    <3>1. ~clean' /\ UNCHANGED <<st, count>>
      BY <2>13, Zenon DEF ClearPlan, PlanGone
    <3>2. QED
      BY <2>u, <3>1, NeedsNoReason, Zenon DEF Uncounted
  <2>14. ASSUME NEW c \in Center, ClearStates(c) PROVE Reasoned'
    <3>1. ~clean'
      BY <2>14, Zenon DEF ClearStates, InOrder, Orderly, HalfCleared
    <3>2. Uncounted'
      BY <2>14 DEF ClearStates, Uncounted
    <3>3. QED
      BY <3>1, <3>2, NeedsNoReason
  <2>15. ASSUME NEW c \in Center, KillTasks(c) PROVE Reasoned'
    <3>1. Do(c, Idle) /\ UNCHANGED <<clean, succeeded, st, count, ending>>
      BY <2>15, Zenon DEF KillTasks
    <3>2. QED
      BY <2>t, <3>1, OthersSay, SaysNothing, SameReasons, Zenon
  <2>16. ASSUME NEW c \in Center, FinishFails(c) PROVE Reasoned'
    <3>1. Do(c, Idle) /\ UNCHANGED <<clean, succeeded, st, count, ending>>
      BY <2>16, Zenon DEF FinishFails
    <3>2. QED
      BY <2>t, <3>1, OthersSay, SaysNothing, SameReasons, Zenon
  <2>17. ASSUME NEW c \in Center, NEW t \in Task, LookAtLock(c, t)
        PROVE  Reasoned'
    <3> DEFINE w == [busy[c] EXCEPT !.suspects = @ \ {t},
               !.lost = IF lock[t] = None THEN @ \cup {t} ELSE @]
    <3>1. busy[c] \in Scans
      BY <2>17, <2>t, BusyScan DEF LookAtLock
    <3>2. SaysOk(w) => SaysOk(busy[c])
      BY <3>1 DEF Scans, SaysOk
    <3>3. Do(c, w) /\ UNCHANGED <<clean, succeeded, count, ending>>
      BY <2>17, Zenon DEF LookAtLock
    <3> HIDE DEF w
    <3>4. \A d \in Center : SaysOk(busy'[d]) => SaysOk(busy[d])
      BY <2>t, <3>2, <3>3, OthersSay, Zenon
    <3>5. QED
      BY <2>17, <3>3, <3>4, SameReasons, Zenon DEF LookAtLock
  <2>18. ASSUME NEW c \in Center, NEW t \in Task, Rescue(c, t) PROVE Reasoned'
    <3> DEFINE w == [busy[c] EXCEPT !.lost = @ \ {t}]
    <3>1. busy[c] \in Scans
      BY <2>18, <2>t, BusyScan DEF Rescue
    <3>2. SaysOk(w) => SaysOk(busy[c])
      BY <3>1 DEF Scans, SaysOk
    <3>3. Do(c, w) /\ UNCHANGED <<clean, succeeded, count, ending>>
      BY <2>18, Zenon DEF Rescue
    <3> HIDE DEF w
    <3>4. \A d \in Center : SaysOk(busy'[d]) => SaysOk(busy[d])
      BY <2>t, <3>2, <3>3, OthersSay, Zenon
    <3>5. \A q \in Task : st'[q] = "absent" => st[q] = "absent"
      BY <2>18, <2>t DEF Rescue, StateNotRunning
    <3>6. Uncounted'
      BY <2>u, <3>3, <3>5, Zenon DEF Uncounted
    <3>7. QED
      BY <3>3, <3>4, <3>6, KeepsReasons, Zenon DEF AllDone, OneSpent
  <2>19. ASSUME NEW c \in Center, NEW t \in Task, RescueSkipped(c, t)
        PROVE  Reasoned'
    <3> DEFINE w == [busy[c] EXCEPT !.lost = @ \ {t}]
    <3>1. busy[c] \in Scans
      BY <2>19, <2>t, BusyScan DEF RescueSkipped
    <3>2. SaysOk(w) => SaysOk(busy[c])
      BY <3>1 DEF Scans, SaysOk
    <3>3. Do(c, w) /\ UNCHANGED <<clean, succeeded, count, ending>>
      BY <2>19, Zenon DEF RescueSkipped
    <3> HIDE DEF w
    <3>4. \A d \in Center : SaysOk(busy'[d]) => SaysOk(busy[d])
      BY <2>t, <3>2, <3>3, OthersSay, Zenon
    <3>5. QED
      BY <2>19, <3>3, <3>4, SameReasons, Zenon DEF RescueSkipped
  <2>20. ASSUME NEW c \in Center, NEW t \in Task, TakeEvent(c, t)
        PROVE  Reasoned'
    BY <2>20, SameReasons, Zenon DEF TakeEvent
  <2>21. ASSUME NEW c \in Center, NEW t \in Task, CheckPlan(c, t)
        PROVE  Reasoned'
    <3>1. /\ Do(c, Checking(t))
          /\ UNCHANGED <<clean, succeeded, st, count, ending>>
      BY <2>21, Zenon DEF CheckPlan
    <3>2. \A d \in Center : SaysOk(busy'[d]) => SaysOk(busy[d])
      <4>1. ~SaysOk(Checking(t))
        BY SaysNothing
      <4>2. \A d \in Center :
               SaysOk(busy'[d]) => SaysOk(busy[d])
                                   \/ (d = c /\ SaysOk(Checking(t)))
        BY <2>t, <3>1, OthersSay
      <4>3. QED
        BY <4>1, <4>2
    <3>3. \A d \in Center : Asked(d)' => Asked(d)
      BY <3>1, Zenon DEF Asked
    <3>4. QED
      BY <3>1, <3>2, <3>3, SameReasons, Zenon
  <2>22. ASSUME NEW c \in Center, NEW t \in Task, CheckPlanFails(c, t)
        PROVE  Reasoned'
    BY <2>22, SameReasons, Zenon DEF CheckPlanFails
  <2>23. ASSUME NEW c \in Center, NEW t \in Task, CheckState(c, t)
        PROVE  Reasoned'
    <3>1. /\ Do(c, Dispatching(t))
          /\ UNCHANGED <<clean, succeeded, st, count, ending>>
      BY <2>23, Zenon DEF CheckState
    <3>2. \A d \in Center : SaysOk(busy'[d]) => SaysOk(busy[d])
      <4>1. ~SaysOk(Dispatching(t))
        BY SaysNothing
      <4>2. \A d \in Center :
               SaysOk(busy'[d]) => SaysOk(busy[d])
                                   \/ (d = c /\ SaysOk(Dispatching(t)))
        BY <2>t, <3>1, OthersSay
      <4>3. QED
        BY <4>1, <4>2
    <3>3. \A d \in Center : Asked(d)' => Asked(d)
      BY <3>1, Zenon DEF Asked
    <3>4. QED
      BY <3>1, <3>2, <3>3, SameReasons, Zenon
  <2>24. ASSUME NEW c \in Center, NEW t \in Task, CheckStateFails(c, t)
        PROVE  Reasoned'
    <3>1. Do(c, Idle) /\ UNCHANGED <<clean, succeeded, st, count, ending>>
      BY <2>24, Zenon DEF CheckStateFails
    <3>2. QED
      BY <2>t, <3>1, OthersSay, SaysNothing, SameReasons, Zenon
  <2>25. ASSUME NEW c \in Center, NEW t \in Task, DispatchTask(c, t)
        PROVE  Reasoned'
    <3>1. SetStarting(c, t)
      BY <2>25, Zenon DEF DispatchTask
    <3>2. Do(c, Idle) /\ UNCHANGED <<clean, succeeded, ending>>
      BY <3>1, Zenon DEF SetStarting
    <3>3. Uncounted' /\ (OneSpent => OneSpent')
      BY <2>t, <2>n, <2>u, <3>1, CountGrows
    <3>4. QED
      BY <2>t, <3>2, <3>3, OthersSay, SaysNothing, KeepsReasons, Zenon
         DEF AllDone
  <2>26. ASSUME NEW c \in Center, NEW t \in Task, DispatchFails(c, t)
        PROVE  Reasoned'
    <3>1. SetStarting(c, t)
      BY <2>26, Zenon DEF DispatchFails
    <3>2. Do(c, Idle) /\ UNCHANGED <<clean, succeeded, ending>>
      BY <3>1, Zenon DEF SetStarting
    <3>3. Uncounted' /\ (OneSpent => OneSpent')
      BY <2>t, <2>n, <2>u, <3>1, CountGrows
    <3>4. QED
      BY <2>t, <3>2, <3>3, OthersSay, SaysNothing, KeepsReasons, Zenon
         DEF AllDone
  <2>27. ASSUME NEW t \in Task, LateRunning(t) PROVE Reasoned'
    <3>1. \A q \in Task : st'[q] = "absent" => st[q] = "absent"
      BY <2>27, <2>t DEF LateRunning, StateRunning
    <3>2. UNCHANGED <<clean, succeeded, count, busy, ending>>
      BY <2>27, Zenon DEF LateRunning
    <3>3. Uncounted'
      BY <2>u, <3>1, <3>2, Zenon DEF Uncounted
    <3>4. QED
      BY <3>2, <3>3, KeepsReasons, Zenon DEF AllDone, OneSpent
  <2>28. ASSUME NEW c \in Center, NEW t \in Task, NEW o \in {"ok", "err"},
                LateResult(c, t, o)
        PROVE  Reasoned'
    <3>1. HandleResult(c, t, o)
      BY <2>28, Zenon DEF LateResult
    <3>2. QED
      BY <2>t, <2>e, <2>n, <3>1, ResultReasons
  <2>29. ASSUME NEW r \in Run, TakeLock(r) PROVE Reasoned'
    BY <2>29, SameReasons, Zenon DEF TakeLock
  <2>30. ASSUME NEW r \in Run, LockRefused(r) PROVE Reasoned'
    BY <2>30, SameReasons, Zenon DEF LockRefused
  <2>31. ASSUME NEW r \in Run, RunningReported(r) PROVE Reasoned'
    <3>1. \A q \in Task : st'[q] = "absent" => st[q] = "absent"
      BY <2>31, <2>t DEF RunningReported, StateRunning
    <3>2. UNCHANGED <<clean, succeeded, count, busy, ending>>
      BY <2>31, Zenon DEF RunningReported
    <3>3. Uncounted'
      BY <2>u, <3>1, <3>2, Zenon DEF Uncounted
    <3>4. QED
      BY <3>2, <3>3, KeepsReasons, Zenon DEF AllDone, OneSpent
  <2>32. ASSUME NEW r \in Run, RunningFails(r) PROVE Reasoned'
    BY <2>32, SameReasons, Zenon DEF RunningFails
  <2>33. ASSUME NEW r \in Run, RunningRefused(r) PROVE Reasoned'
    BY <2>33, SameReasons, Zenon DEF RunningRefused
  <2>34. ASSUME NEW r \in Run, RunningGivenUp(r) PROVE Reasoned'
    BY <2>34, SameReasons, Zenon DEF RunningGivenUp
  <2>35. ASSUME NEW r \in Run, CommandEnds(r) PROVE Reasoned'
    BY <2>35, SameReasons, Zenon DEF CommandEnds
  <2>36. ASSUME NEW r \in Run, ResultGivenUp(r) PROVE Reasoned'
    BY <2>36, SameReasons, Zenon DEF ResultGivenUp
  <2>37. ASSUME NEW r \in Run, Release(r) PROVE Reasoned'
    BY <2>37, SameReasons, Zenon DEF Release
  <2>38. ASSUME NEW r \in Run, AgentCrash(r) PROVE Reasoned'
    BY <2>38, SameReasons, Zenon DEF AgentCrash
  <2>39. ASSUME NEW c \in Center, NEW r \in Run, ResultReported(c, r)
        PROVE  Reasoned'
    <3>1. task[r] \in Task
      BY <2>39, <2>t DEF ResultReported
    <3>2. HandleResult(c, task[r], pc[r]) /\ pc[r] \in {"ok", "err"}
      BY <2>39, Zenon DEF ResultReported
    <3>3. QED
      BY <2>t, <2>e, <2>n, <3>1, <3>2, ResultReasons
  <2>40. CASE UNCHANGED vars
    BY <2>40, SameReasons, Zenon DEF vars
  <2>41. QED
    BY <2>1, <2>2, <2>3, <2>4, <2>5, <2>6, <2>7, <2>8, <2>9, <2>10, <2>11,
       <2>12, <2>13, <2>14, <2>15, <2>16, <2>17, <2>18, <2>19, <2>20,
       <2>21, <2>22, <2>23, <2>24, <2>25, <2>26, <2>27, <2>28, <2>29,
       <2>30, <2>31, <2>32, <2>33, <2>34, <2>35, <2>36, <2>37, <2>38,
       <2>39, <2>40 DEF Next
<1>3. Reasoned => EndsForAReason
  BY DEF Reasoned, EndsForAReason, AllDone, OneSpent
<1>4. QED
  BY <1>1, <1>2, <1>3, WorkflowTypeCorrect, StaysOrderly, PTL DEF Spec
=============================================================================
