------------------------------ MODULE PlanTable ------------------------------
(***************************************************************************)
(* One task definition on its way from the center's etcd store to the plan *)
(* tables of the agents of its project.                                    *)
(*                                                                         *)
(* SaveTask and DeleteTask (app/etcd.go) send the change to every listed   *)
(* agent, one after the other, and write etcd only when all have answered. *)
(* An agent that registers is sent a snapshot of etcd.  On the agent the   *)
(* events cross a stream, a variable shared by the handler goroutines      *)
(* (registerv2.go), a channel and the scheduler's loop.                    *)
(***************************************************************************)
EXTENDS Naturals, Sequences, FiniteSets

CONSTANTS Agent,        \* the agents of the project
          Editor,       \* the API calls that save or delete the task
          Started,      \* the task's definitions with status START
          MaxPings,     \* bound: heartbeat pings sent
          MaxBreaks     \* bound: snapshots timed out, streams lost, reloads,
                        \* restarts, changed weights

ASSUME PlanAssumption ==
  /\ MaxPings \in Nat /\ MaxBreaks \in Nat
  /\ Editor \intersect {"load", "loadAgain", "ping", "none"} = {}

VARIABLES
  store,      \* the task's value in etcd, "gone" without one
  edit,       \* per editor: the call it makes
  stream,     \* per agent: its stream at the center
  doomed,     \* per agent: Cancel was called on its stream
  load,       \* per agent: the snapshot its RegisterAgentV2 dispatches
  wire,       \* per agent: events sent on the stream and not received
  cell,       \* per agent: the receive loop's variable resp
  hands,      \* per agent: handler goroutines waiting for the mutex
  replies,    \* per agent: answers under way to the center, by event
  inbox,      \* per agent: TaskEventChan
  table,      \* per agent: PlanTable's entry of the task
  hash,       \* per agent: planhash, as the entry it was computed from
  due,        \* per agent: the debounce timer runs
  sure,       \* history: nothing happened that may set the agent apart
  spent       \* the bounded events so far

planVars == <<store, edit, stream, doomed, load, wire, cell, hands,
              replies, inbox, table, hash, due, sure, spent>>

centerVars == <<store, edit, load>>
agentVars == <<cell, hands, inbox, table, hash, due>>

Version == Started \union {"off"}   \* what SaveTask may write: "off" is
                                    \* any definition that is not started
Definition == Version \union {"gone"}

Ping == [from |-> "ping", val |-> "gone"]
Nothing == [from |-> "none", val |-> "gone"]
Loads == {"load", "loadAgain"}     \* consecutive snapshots have other ids
Source == Editor \union Loads \union {"ping", "none"}
Event == [from : Source, val : Definition]

NoEdit == [step |-> "before", val |-> "gone", todo |-> {}, asked |-> {},
           told |-> {}, lost |-> {}, clean |-> {}]
Over == [NoEdit EXCEPT !.step = "over"]
NoLoad == [step |-> "none", val |-> "gone", clean |-> FALSE, id |-> "load"]

Open(a) == stream[a] \in {"new", "saved", "up"}
Listed(a) == stream[a] \in {"saved", "up"}
Busy == {e \in Editor : edit[e].step = "busy"}

\* Faulty variant of Effect: handleTaskEvent has no fall-through, so that a
\* task that is not started is planned.
EffectWithoutFallthrough(v) == v

(* What an event leaves in the plan table: a task that is not started is   *)
(* removed, by the fall-through of handleTaskEvent.                        *)
Effect(v) == IF v \in Started THEN v ELSE "gone"

PlanTypeOK ==
  /\ store \in Definition
  /\ \A e \in Editor :
       /\ edit[e].step \in {"before", "busy", "over"}
       /\ edit[e].val \in Definition
       /\ edit[e].todo \subseteq Agent /\ edit[e].asked \subseteq Agent
       /\ edit[e].told \subseteq Agent /\ edit[e].lost \subseteq Agent
       /\ edit[e].clean \subseteq Agent
  /\ stream \in [Agent -> {"down", "new", "saved", "up", "ending"}]
  /\ doomed \in [Agent -> BOOLEAN]
  /\ load \in [Agent -> [step : {"none", "read", "sent"},
                         val : Definition, clean : BOOLEAN, id : Loads]]
  /\ \A a \in Agent :
       /\ \A i \in 1..Len(wire[a]) : wire[a][i] \in Event
       /\ \A i \in 1..Len(inbox[a]) : inbox[a][i] \in Definition
  /\ cell \in [Agent -> Event] /\ hands \in [Agent -> Nat]
  /\ replies \in [Agent -> SUBSET Source]
  /\ table \in [Agent -> Started \union {"gone"}]
  /\ hash \in [Agent -> Started \union {"gone"}]
  /\ due \in [Agent -> BOOLEAN] /\ sure \in [Agent -> BOOLEAN]
  /\ spent \in [pings : 0..MaxPings, breaks : 0..MaxBreaks]

PlanInit ==
  /\ store = "gone"
  /\ edit = [e \in Editor |-> NoEdit]
  /\ stream = [a \in Agent |-> "down"]
  /\ doomed = [a \in Agent |-> FALSE]
  /\ load = [a \in Agent |-> NoLoad]
  /\ wire = [a \in Agent |-> <<>>]
  /\ cell = [a \in Agent |-> Nothing]
  /\ hands = [a \in Agent |-> 0]
  /\ replies = [a \in Agent |-> {}]
  /\ inbox = [a \in Agent |-> <<>>]
  /\ table = [a \in Agent |-> "gone"]
  /\ hash = [a \in Agent |-> "gone"]
  /\ due = [a \in Agent |-> FALSE]
  /\ sure = [a \in Agent |-> TRUE]
  /\ spent = [pings |-> 0, breaks |-> 0]

-----------------------------------------------------------------------------
(* The editor: SaveTask, DeleteTask, DispatchEvent, SendEvent.             *)

(* SaveTask takes the task's update lock, which has no owner and so refuses*)
(* nobody (see TaskLock); DeleteTask takes none but wants the key.         *)
(* SendEvent copies the list of streams it will call.                      *)
Begin(e, v) ==
  /\ edit[e].step = "before"
  /\ v = "gone" => store # "gone"
  /\ edit' = [f \in Editor |->
       IF f = e
         THEN [step |-> "busy", val |-> v, asked |-> {}, told |-> {},
               lost |-> {}, todo |-> {a \in Agent : Listed(a)},
               clean |-> IF Busy = {}
                           THEN {a \in Agent : load[a].step = "none"}
                           ELSE {}]
         ELSE [edit[f] EXCEPT !.clean = {}]]
  /\ load' = [a \in Agent |-> [load[a] EXCEPT !.clean = FALSE]]
  /\ UNCHANGED <<store, stream, doomed, wire, replies, agentVars, sure, spent>>

(* SendEventWaitResponse on the next stream of the copy.                   *)
Ask(e, a) ==
  /\ a \in edit[e].todo \ edit[e].lost /\ edit[e].asked = {}
  /\ Open(a)
  /\ edit' = [edit EXCEPT ![e].todo = @ \ {a}, ![e].asked = {a}]
  /\ wire' = [wire EXCEPT ![a] = Append(@, [from |-> e, val |-> edit[e].val])]
  /\ sure' = [sure EXCEPT ![a] = FALSE]
  /\ UNCHANGED <<store, stream, doomed, load, replies, agentVars,
                 spent>>

Answered(e, a) ==
  /\ edit[e].asked = {a}
  /\ e \in replies[a]
  /\ edit' = [edit EXCEPT ![e].asked = {}, ![e].told = @ \union {a}]
  /\ replies' = [replies EXCEPT ![a] = @ \ {e}]
  /\ UNCHANGED <<store, stream, doomed, load, wire, agentVars, sure,
                 spent>>

(* The first stream that fails ends the whole dispatch: the call returns   *)
(* an error, etcd keeps its value and the agents told so far the new one.  *)
Fail(e) ==
  /\ edit' = [edit EXCEPT ![e] = Over]
  /\ UNCHANGED <<store, stream, load, wire, agentVars, sure, spent>>

(* Send fails on a stream that ended after the list was copied.            *)
AskFails(e, a) ==
  /\ a \in edit[e].todo /\ edit[e].asked = {}
  /\ Open(a) => a \in edit[e].lost
  /\ Fail(e)
  /\ UNCHANGED <<doomed, replies>>

(* The answer did not come in time: SendEvent cancels the stream.          *)
Timeout(e, a) ==
  /\ edit[e].asked = {a}
  /\ Fail(e)
  /\ doomed' = [doomed EXCEPT ![a] = @ \/ (Open(a) /\ a \notin edit[e].lost)]
  /\ replies' = [replies EXCEPT ![a] = @ \ {e}]

(* The write to etcd, after all the answers.  It may fail.                 *)
Write(e, done) ==
  /\ e \in Busy /\ edit[e].todo = {} /\ edit[e].asked = {}
  /\ store' = IF done THEN edit[e].val ELSE store
  /\ sure' = IF done
       THEN [a \in Agent |-> a \in edit[e].told \intersect edit[e].clean]
       ELSE sure
  /\ edit' = [edit EXCEPT ![e] = Over]
  /\ UNCHANGED <<stream, doomed, load, wire, replies, agentVars, spent>>

-----------------------------------------------------------------------------
(* The stream: RegisterAgentV2 at the center.                              *)

(* The agent opened a stream and sent its registration.                    *)
Connect(a) ==
  /\ stream[a] = "down"
  /\ stream' = [stream EXCEPT ![a] = "new"]
  /\ UNCHANGED <<centerVars, doomed, wire, replies, agentVars, sure, spent>>

SaveStream(a) ==
  /\ stream[a] = "new"
  /\ stream' = [stream EXCEPT ![a] = "saved"]
  /\ UNCHANGED <<centerVars, doomed, wire, replies, agentVars, sure, spent>>

(* DispatchAgentJob reads etcd; a task that is not there sends nothing.    *)
ReadStore(a) ==
  /\ stream[a] = "saved" /\ load[a].step = "none"
  /\ IF store = "gone"
       THEN /\ stream' = [stream EXCEPT ![a] = "up"]
            /\ UNCHANGED <<load, edit>>
       ELSE /\ load' = [load EXCEPT ![a].step = "read", ![a].val = store,
                                     ![a].clean = (Busy = {})]
            /\ edit' = [e \in Editor |->
                 [edit[e] EXCEPT !.clean = @ \ {a}]]
            /\ UNCHANGED stream
  /\ UNCHANGED <<store, doomed, wire, replies, agentVars, sure,
                 spent>>

SendLoad(a) ==
  /\ load[a].step = "read"
  /\ load' = [load EXCEPT ![a].step = "sent"]
  /\ wire' = [wire EXCEPT ![a] =
       Append(@, [from |-> load[a].id, val |-> load[a].val])]
  /\ sure' = [sure EXCEPT ![a] = FALSE]
  /\ UNCHANGED <<store, edit, stream, doomed, replies, agentVars,
                 spent>>

LoadAnswered(a) ==
  /\ load[a].step = "sent" /\ load[a].id \in replies[a]
  /\ stream' = [stream EXCEPT ![a] = "up"]
  /\ \E id \in Loads \ {load[a].id} :
       load' = [load EXCEPT ![a] = [NoLoad EXCEPT !.id = id]]
  /\ replies' = [replies EXCEPT ![a] = @ \ {load[a].id}]
  /\ sure' = [sure EXCEPT ![a] = load[a].clean]
  /\ UNCHANGED <<store, edit, doomed, wire, agentVars, spent>>

(* RegisterAgentV2 returns: the agent can still receive what was sent.     *)
EndStream(a) ==
  /\ stream' = [stream EXCEPT ![a] = "ending"]
  /\ doomed' = [doomed EXCEPT ![a] = FALSE]
  /\ load' = [load EXCEPT ![a] = NoLoad]
  /\ UNCHANGED <<store, edit, wire, replies, agentVars, sure>>

LoadTimeout(a) ==
  /\ load[a].step = "sent" /\ spent.breaks < MaxBreaks
  /\ EndStream(a)
  /\ spent' = [spent EXCEPT !.breaks = @ + 1]

(* A cancelled stream ends when its handler is back in its select.         *)
HandlerReturns(a) ==
  /\ Open(a) /\ doomed[a] /\ load[a].step = "none"
  /\ EndStream(a)
  /\ UNCHANGED spent

SendPing(a) ==
  /\ stream[a] = "up"
  /\ spent.pings < MaxPings
  /\ wire' = [wire EXCEPT ![a] = Append(@, Ping)]
  /\ spent' = [spent EXCEPT !.pings = @ + 1]
  /\ UNCHANGED <<centerVars, stream, doomed, replies, agentVars, sure>>

-----------------------------------------------------------------------------
(* The agent: receive loop, handler goroutines, scheduler loop.            *)

(* The loop stores every event in one variable and starts a goroutine.     *)
Receive(a) ==
  /\ wire[a] # <<>> /\ stream[a] # "down"
  /\ cell' = [cell EXCEPT ![a] = Head(wire[a])]
  /\ wire' = [wire EXCEPT ![a] = Tail(@)]
  /\ hands' = [hands EXCEPT ![a] = @ + 1]
  /\ UNCHANGED <<centerVars, stream, doomed, replies, inbox, table, hash, due,
                 sure, spent>>

(* A goroutine with the mutex handles what the variable holds now, which   *)
(* may be a later event than the one it was started for.                   *)
Handle(a) ==
  /\ hands[a] > 0
  /\ hands' = [hands EXCEPT ![a] = @ - 1]
  /\ inbox' = IF cell[a].from = "ping"
                THEN inbox ELSE [inbox EXCEPT ![a] = Append(@, cell[a].val)]
  /\ replies' = IF Open(a) /\ \/ \E e \in Editor : /\ e = cell[a].from
                                                   /\ edit[e].asked = {a}
                              \/ /\ load[a].step = "sent"
                                 /\ cell[a].from = load[a].id
                  THEN [replies EXCEPT ![a] = @ \union {cell[a].from}]
                  ELSE replies
  /\ UNCHANGED <<centerVars, stream, doomed, wire, cell, table, hash, due,
                 sure, spent>>

\* Faulty variant of Apply: a DELETE is not passed to RemovePlan.
ApplyWithoutRemove(a) ==
  /\ inbox[a] # <<>>
  /\ table' = [table EXCEPT ![a] =
       IF Head(inbox[a]) = "gone" THEN @ ELSE Effect(Head(inbox[a]))]
  /\ inbox' = [inbox EXCEPT ![a] = Tail(@)]
  /\ due' = [due EXCEPT ![a] = TRUE]
  /\ UNCHANGED <<centerVars, stream, doomed, wire, cell, hands, replies, hash,
                 sure, spent>>

(* The scheduler's loop: SetPlan or RemovePlan, which start the timer.     *)
Apply(a) ==
  /\ inbox[a] # <<>>
  /\ table' = [table EXCEPT ![a] = Effect(Head(inbox[a]))]
  /\ inbox' = [inbox EXCEPT ![a] = Tail(@)]
  /\ due' = [due EXCEPT ![a] = TRUE]
  /\ UNCHANGED <<centerVars, stream, doomed, wire, cell, hands, replies, hash,
                 sure, spent>>

CalcPlanHash(a) ==
  /\ due[a]
  /\ hash' = [hash EXCEPT ![a] = table[a]]
  /\ due' = [due EXCEPT ![a] = FALSE]
  /\ UNCHANGED <<centerVars, stream, doomed, wire, cell, hands, replies, inbox,
                 table, sure, spent>>

(* The agent's side of a stream is over, its loop's variables with it.  An *)
(* edit that copied the stream holds one that has ended; clean is what     *)
(* remains of the edits' clean agents.                                     *)
Drop(a, clean) ==
  /\ stream' = [stream EXCEPT ![a] = "down"]
  /\ doomed' = [doomed EXCEPT ![a] = FALSE]
  /\ load' = [load EXCEPT ![a] = NoLoad]
  /\ wire' = [wire EXCEPT ![a] = <<>>]
  /\ cell' = [cell EXCEPT ![a] = Nothing]
  /\ hands' = [hands EXCEPT ![a] = 0]
  /\ replies' = [replies EXCEPT ![a] = {}]
  /\ edit' = [e \in Editor |-> [edit[e] EXCEPT
       !.lost = @ \union ({a} \intersect (edit[e].todo \union edit[e].asked)),
       !.clean = @ \intersect clean]]
  /\ UNCHANGED store

StreamEnds(a) ==
  /\ stream[a] = "ending" /\ wire[a] = <<>>
  /\ Drop(a, Agent)
  /\ UNCHANGED <<inbox, table, hash, due, sure, spent>>

(* The connection is lost with what it carried.                            *)
Break(a) ==
  /\ stream[a] # "down" /\ spent.breaks < MaxBreaks
  /\ Drop(a, Agent)
  /\ spent' = [spent EXCEPT !.breaks = @ + 1]
  /\ UNCHANGED <<inbox, table, hash, due, sure>>

(* The reload command: RemoveAll empties the table without starting the    *)
(* timer, the old service is shut down.  The channel keeps its events.     *)
Reload(a) ==
  /\ stream[a] = "up" /\ spent.breaks < MaxBreaks
  /\ Drop(a, Agent \ {a})
  /\ table' = [table EXCEPT ![a] = "gone"]
  /\ sure' = [sure EXCEPT ![a] = FALSE]
  /\ spent' = [spent EXCEPT !.breaks = @ + 1]
  /\ UNCHANGED <<inbox, hash, due>>

(* The agent's process ends and another one starts.                        *)
Restart(a) ==
  /\ stream[a] # "down" /\ spent.breaks < MaxBreaks
  /\ Drop(a, Agent \ {a})
  /\ table' = [table EXCEPT ![a] = "gone"]
  /\ hash' = [hash EXCEPT ![a] = "gone"]
  /\ inbox' = [inbox EXCEPT ![a] = <<>>]
  /\ due' = [due EXCEPT ![a] = FALSE]
  /\ sure' = [sure EXCEPT ![a] = FALSE]
  /\ spent' = [spent EXCEPT !.breaks = @ + 1]

(* A changed weight makes the agent register again on its open stream: the *)
(* center removes the stream from its list before it saves it again.       *)
Reregister(a) ==
  /\ stream[a] = "up" /\ spent.breaks < MaxBreaks
  /\ stream' = [stream EXCEPT ![a] = "new"]
  /\ spent' = [spent EXCEPT !.breaks = @ + 1]
  /\ UNCHANGED <<centerVars, doomed, wire, replies, agentVars, sure>>

PlanNext ==
  \/ \E e \in Editor, v \in Definition : Begin(e, v)
  \/ \E e \in Editor, a \in Agent :
       Ask(e, a) \/ AskFails(e, a) \/ Answered(e, a) \/ Timeout(e, a)
  \/ \E e \in Editor, done \in BOOLEAN : Write(e, done)
  \/ \E a \in Agent :
       \/ Connect(a) \/ SaveStream(a) \/ ReadStore(a) \/ SendLoad(a)
       \/ LoadAnswered(a) \/ LoadTimeout(a) \/ HandlerReturns(a)
       \/ SendPing(a) \/ Receive(a) \/ Handle(a) \/ Apply(a)
       \/ CalcPlanHash(a) \/ StreamEnds(a) \/ Break(a) \/ Reload(a)
       \/ Restart(a) \/ Reregister(a)

PlanSpec == PlanInit /\ [][PlanNext]_planVars

-----------------------------------------------------------------------------
(* An agent's plan table holds what etcd holds once its channel is empty,  *)
(* as long as every change reached it alone: each edit told the agent,     *)
(* got its answer and was written with no other edit and no snapshot for   *)
(* the agent beside it, or a snapshot was taken with no edit beside it.    *)
(* An answer therefore stands for the event it answers, although the       *)
(* handler goroutines share one variable, events are lost with streams and *)
(* arrive after the call that sent them gave up.  And a plan hash that     *)
(* differs from the table is about to be computed again; the one exception *)
(* is the table a reload emptied, whose old hash stays.                    *)
InSync ==
  \A a \in Agent :
    /\ sure[a] /\ inbox[a] = <<>> => table[a] = Effect(store)
    /\ hash[a] = table[a] \/ due[a] \/ table[a] = "gone"
=============================================================================
