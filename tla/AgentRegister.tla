---------------------------- MODULE AgentRegister ----------------------------
(***************************************************************************)
(* How an agent keeps one registered stream to the center.                 *)
(*                                                                         *)
(* The agent's side is remoteRegistryV2 (pkg/infra/register): Register,    *)
(* the receive loop of a stream, errHandler, reRegister.  The center's     *)
(* side is RegisterAgentV2 (cmd/service/rpc.go).  Thread 0 is the service  *)
(* that starts; thread s is the goroutine that runs the errHandler of      *)
(* stream s and registers anew.                                            *)
(***************************************************************************)
EXTENDS Naturals, Sequences

CONSTANTS MaxStreams,   \* bound: streams opened
          MaxFaults,    \* bound: streams lost or removed, late answers,
                        \* failures to open a stream
          MaxPushes     \* bound: events sent besides the snapshots

ASSUME RegAssumption == {MaxStreams, MaxFaults, MaxPushes} \subseteq Nat

VARIABLES
  cur,        \* currentStream, 0 for nil
  receiving,  \* the stream whose loop holds receivingLocker, 0 for none
  loop,       \* per stream: its receive loop
  killed,     \* the streams whose channel kill is closed
  hung,       \* the streams whose register() waits in <-hang
  owner,      \* the threads that hold locker, at most one
  pc,         \* per thread
  mine,       \* per thread: the stream it opened
  chan,       \* per stream: RegisterAgentV2 at the center
  half,       \* the streams on which the agent called CloseSend
  again,      \* streams with a registration the handler has not taken
  asked,      \* streams with a SendEventWaitResponse under way
  cancelled,  \* streams whose cancelFunc was called
  flight,     \* per stream: events on their way to the agent
  busy,       \* per stream: events its handler goroutines have in hand
  closed,     \* the registry was closed
  failed,     \* history: an event handler returned an error
  used        \* the bounded events so far

regVars == <<cur, receiving, loop, killed, hung, owner, pc, mine, chan, half,
             again, asked, cancelled, flight, busy, closed, failed, used>>

Stream == 1..MaxStreams
Thread == 0..MaxStreams
Kind == {"task", "malformed", "weight"}

registryVars == <<cur, receiving, killed, owner, pc, mine, half>>
centerSide == <<chan, again, asked, cancelled, flight>>

Alive(s) == chan[s] \in {"open", "load", "up"}
Looping(s) == loop[s] \in {"top", "recv"}
Opened == {s \in Stream : chan[s] # "none"}

RegTypeOK ==
  /\ cur \in Thread /\ receiving \in Thread
  /\ loop \in [Stream -> {"none", "top", "recv", "over"}]
  /\ \A S \in {killed, hung, half, again, asked, cancelled} : S \subseteq Stream
  /\ owner \subseteq Thread /\ \A t, u \in owner : t = u
  /\ pc \in [Thread -> {"idle", "register", "lock", "open", "hang", "sleep",
                        "done"}]
  /\ mine \in [Thread -> Thread]
  /\ chan \in [Stream -> {"none", "open", "load", "up", "over"}]
  /\ \A s \in Stream :
       /\ \A i \in 1..Len(flight[s]) : flight[s][i] \in Kind \union {"load"}
       /\ \A i \in 1..Len(busy[s]) : busy[s][i] \in Kind \union {"load"}
  /\ closed \in BOOLEAN /\ failed \in BOOLEAN
  /\ used \in [faults : 0..MaxFaults, pushes : 0..MaxPushes]

RegInit ==
  /\ cur = 0 /\ receiving = 0
  /\ loop = [s \in Stream |-> "none"]
  /\ killed = {} /\ hung = {} /\ owner = {}
  /\ pc = [t \in Thread |-> IF t = 0 THEN "register" ELSE "idle"]
  /\ mine = [t \in Thread |-> 0]
  /\ chan = [s \in Stream |-> "none"]
  /\ half = {} /\ again = {} /\ asked = {} /\ cancelled = {}
  /\ flight = [s \in Stream |-> <<>>] /\ busy = [s \in Stream |-> <<>>]
  /\ closed = FALSE /\ failed = FALSE
  /\ used = [faults |-> 0, pushes |-> 0]

Fault == /\ used.faults < MaxFaults
         /\ used' = [used EXCEPT !.faults = @ + 1]

-----------------------------------------------------------------------------
(* Registering: Register, register and reRegister.                         *)

(* With a current stream Register only sends the registration on it again; *)
(* on a stream that ended Send fails and reRegister tries once more.       *)
Register(t) ==
  /\ pc[t] = "register" /\ ~closed
  /\ IF cur = 0
       THEN pc' = [pc EXCEPT ![t] = "lock"] /\ UNCHANGED again
       ELSE /\ Alive(cur)
            /\ pc' = [pc EXCEPT ![t] = "done"]
            /\ again' = again \union {cur}
  /\ UNCHANGED <<cur, receiving, loop, killed, hung, owner, mine, chan, half,
                 asked, cancelled, flight, busy, closed, failed, used>>

Lock(t) ==
  /\ pc[t] = "lock" /\ owner = {}
  /\ owner' = {t}
  /\ pc' = [pc EXCEPT ![t] = "open"]
  /\ UNCHANGED <<cur, receiving, loop, killed, hung, mine, half, centerSide,
                 busy, closed, failed, used>>

(* register() opens a stream, sends the registration, and starts a receive *)
(* loop if it gets receivingLocker.  If an older loop still has it, nobody *)
(* receives on the new stream.                                             *)
OpenStream(t, s) ==
  /\ pc[t] = "open" /\ ~closed
  /\ chan[s] = "none" /\ \A r \in Stream : r < s => chan[r] # "none"
  /\ cur' = s
  /\ chan' = [chan EXCEPT ![s] = "open"]
  /\ IF receiving = 0
       THEN /\ receiving' = s
            /\ loop' = [loop EXCEPT ![s] = "top"]
            /\ hung' = hung \union {s}
            /\ pc' = [pc EXCEPT ![t] = "hang"]
            /\ mine' = [mine EXCEPT ![t] = s]
            /\ UNCHANGED owner
       ELSE /\ pc' = [pc EXCEPT ![t] = "done"]
            /\ owner' = {}
            /\ UNCHANGED <<receiving, loop, hung, mine>>
  /\ UNCHANGED <<killed, half, again, asked, cancelled, flight, busy, closed,
                 failed, used>>

(* The center cannot be reached: reRegister sleeps and tries again.  The   *)
(* service does not start without its first stream.                        *)
OpenFails(t) ==
  /\ pc[t] = "open" /\ t # 0
  /\ Fault
  /\ owner' = {}
  /\ pc' = [pc EXCEPT ![t] = "register"]
  /\ UNCHANGED <<cur, receiving, loop, killed, hung, mine, half, centerSide,
                 busy, closed, failed>>

HangEnds(t) ==
  /\ pc[t] = "hang" /\ mine[t] \notin hung
  /\ pc' = [pc EXCEPT ![t] = "done"]
  /\ owner' = {}
  /\ UNCHANGED <<cur, receiving, loop, killed, hung, mine, half, centerSide,
                 busy, closed, failed, used>>

-----------------------------------------------------------------------------
(* The receive loop of a stream and its handlers.                          *)

LoopTop(s) ==
  /\ loop[s] = "top"
  /\ IF s \in killed \/ closed
       THEN loop' = [loop EXCEPT ![s] = "over"] /\ receiving' = 0
       ELSE loop' = [loop EXCEPT ![s] = "recv"] /\ UNCHANGED receiving
  /\ UNCHANGED <<cur, killed, hung, owner, pc, mine, half, centerSide, busy,
                 closed, failed, used>>

(* A REGISTER_REPLY, which carries a task, ends the wait of register().    *)
LoopReceives(s) ==
  /\ loop[s] = "recv" /\ flight[s] # <<>>
  /\ loop' = [loop EXCEPT ![s] = "top"]
  /\ flight' = [flight EXCEPT ![s] = Tail(@)]
  /\ busy' = [busy EXCEPT ![s] = Append(@, Head(flight[s]))]
  /\ hung' = IF Head(flight[s]) = "weight" THEN hung ELSE hung \ {s}
  /\ UNCHANGED <<registryVars, chan, again, asked, cancelled, closed, failed,
                 used>>

\* Faulty variant of ErrHandler: the stream stays the current one.
ErrHandlerKeepsStream(s) ==
  IF s \in killed
    THEN UNCHANGED <<cur, killed, pc, half>>
    ELSE /\ killed' = killed \union {s}
         /\ half' = half \union {s}
         /\ pc' = [pc EXCEPT ![s] = "sleep"]
         /\ UNCHANGED cur

(* errHandler: the second one of a stream panics in close(kill) and is     *)
(* recovered; the first one drops the stream and will register anew.       *)
ErrHandler(s) ==
  IF s \in killed
    THEN UNCHANGED <<cur, killed, pc, half>>
    ELSE /\ killed' = killed \union {s}
         /\ half' = half \union {s}
         /\ cur' = 0
         /\ pc' = [pc EXCEPT ![s] = "sleep"]

\* Faulty variant of LoopFails: the loop ends without giving the lock back.
LoopFailsKeepsLock(s) ==
  /\ loop[s] = "recv" /\ chan[s] = "over" /\ flight[s] = <<>>
  /\ loop' = [loop EXCEPT ![s] = "over"]
  /\ hung' = hung \ {s}
  /\ ErrHandler(s)
  /\ UNCHANGED <<receiving, owner, mine, centerSide, busy, closed, failed,
                 used>>

LoopFails(s) ==
  /\ loop[s] = "recv" /\ chan[s] = "over" /\ flight[s] = <<>>
  /\ loop' = [loop EXCEPT ![s] = "over"]
  /\ receiving' = 0
  /\ hung' = hung \ {s}
  /\ ErrHandler(s)
  /\ UNCHANGED <<owner, mine, centerSide, busy, closed, failed, used>>

(* Is a reply read at the center?  The goroutine that reads the stream     *)
(* waits in newRegisterInfo <- for a handler that dispatches a snapshot.   *)
Read(s) == Alive(s) /\ ~(s \in again /\ chan[s] = "load")

(* A handler that succeeds replies; if the reply cannot be sent, or if the *)
(* task is malformed, it ends in errHandler.                               *)
HandleFails(s) ==
  /\ busy[s] # <<>>
  /\ Head(busy[s]) = "malformed" \/ ~Alive(s)
  /\ busy' = [busy EXCEPT ![s] = Tail(@)]
  /\ hung' = hung \ {s}
  /\ failed' = (failed \/ Head(busy[s]) = "malformed")
  /\ ErrHandler(s)
  /\ UNCHANGED <<receiving, loop, owner, mine, centerSide, closed, used>>

(* A weight event makes the agent register again, on its current stream;   *)
(* without one (after a handler failed) Register would open a stream from  *)
(* here, which is left out.                                                *)
HandleEvent(s) ==
  /\ busy[s] # <<>> /\ Head(busy[s]) # "malformed" /\ Alive(s)
  /\ busy' = [busy EXCEPT ![s] = Tail(@)]
  /\ chan' = IF Head(busy[s]) = "load" /\ Read(s)
               THEN [chan EXCEPT ![s] = "up"] ELSE chan
  /\ asked' = IF Head(busy[s]) # "load" /\ Read(s)
                THEN asked \ {s} ELSE asked
  /\ again' = IF Head(busy[s]) = "weight" /\ cur # 0 /\ Alive(cur)
                THEN again \union {cur} ELSE again
  /\ UNCHANGED <<registryVars, loop, hung, cancelled, flight, closed, failed,
                 used>>

\* Faulty variant of Wake: the stream is renewed without the second's sleep.
WakeAtOnce(s) ==
  /\ pc[s] = "sleep"
  /\ pc' = [pc EXCEPT ![s] = "register"]
  /\ UNCHANGED <<cur, receiving, loop, killed, hung, owner, mine, half,
                 centerSide, busy, closed, failed, used>>

(* errHandler sleeps a second, by which time the loop of a stream that has *)
(* ended has seen its end.  The loop of a stream that lives has not.       *)
Wake(s) ==
  /\ pc[s] = "sleep"
  /\ chan[s] = "over" => ~Looping(s)
  /\ pc' = [pc EXCEPT ![s] = "register"]
  /\ UNCHANGED <<cur, receiving, loop, killed, hung, owner, mine, half,
                 centerSide, busy, closed, failed, used>>

(* Close: the context of every stream ends, no thread registers any more.  *)
Close ==
  /\ ~closed
  /\ closed' = TRUE
  /\ chan' = [s \in Stream |-> IF Alive(s) THEN "over" ELSE chan[s]]
  /\ UNCHANGED <<registryVars, loop, hung, again, asked, cancelled, flight,
                 busy, failed, used>>

-----------------------------------------------------------------------------
(* The center: RegisterAgentV2 and those who send on its stream.           *)

(* A registration is taken: Register, SaveStream, DispatchAgentJob, which  *)
(* sends a task and waits, or has none to send.                            *)
Accept(s, kind) ==
  /\ chan[s] = "open" \/ (chan[s] = "up" /\ s \in again)
  /\ again' = IF chan[s] = "up" THEN again \ {s} ELSE again
  /\ \/ /\ kind = "none"
        /\ chan' = [chan EXCEPT ![s] = "up"]
        /\ UNCHANGED flight
     \/ /\ kind \in {"load", "malformed"}
        /\ chan' = [chan EXCEPT ![s] = "load"]
        /\ flight' = [flight EXCEPT ![s] = Append(@, kind)]
  /\ UNCHANGED <<registryVars, loop, hung, asked, cancelled, busy, closed,
                 failed, used>>

(* No answer in time: nobody receives or reads any more, or a fault.       *)
Late(s) ==
  \/ Fault
  \/ /\ \/ s # receiving \/ s \in again
        \/ flight[s] = <<>> /\ busy[s] = <<>>
     /\ UNCHANGED used

(* The handler waits five seconds for each task of the snapshot.           *)
SnapshotTimeout(s) ==
  /\ chan[s] = "load"
  /\ Late(s)
  /\ chan' = [chan EXCEPT ![s] = "over"]
  /\ UNCHANGED <<registryVars, loop, hung, again, asked, cancelled, flight,
                 busy, closed, failed>>

(* An event for the agent from SendEvent, on a listed stream.              *)
Push(s, kind) ==
  /\ chan[s] \in {"load", "up"} /\ s \notin asked
  /\ used.pushes < MaxPushes
  /\ used' = [used EXCEPT !.pushes = @ + 1]
  /\ asked' = asked \union {s}
  /\ flight' = [flight EXCEPT ![s] = Append(@, kind)]
  /\ UNCHANGED <<registryVars, loop, hung, chan, again, cancelled, busy,
                 closed, failed>>

(* No answer in time: the sender cancels the stream.                       *)
PushTimeout(s) ==
  /\ s \in asked
  /\ Late(s)
  /\ asked' = asked \ {s}
  /\ cancelled' = cancelled \union {s}
  /\ UNCHANGED <<registryVars, loop, hung, chan, again, flight, busy, closed,
                 failed>>

(* RemoveStream of the center's service cancels a listed stream.           *)
RemoveStream(s) ==
  /\ chan[s] \in {"load", "up"}
  /\ Fault
  /\ cancelled' = cancelled \union {s}
  /\ UNCHANGED <<registryVars, loop, hung, chan, again, asked, flight, busy,
                 closed, failed>>

(* The handler is in its select: the context is done, or the agent closed  *)
(* its sending side.                                                       *)
Return(s) ==
  /\ chan[s] = "up" /\ (s \in cancelled \/ s \in half)
  /\ chan' = [chan EXCEPT ![s] = "over"]
  /\ UNCHANGED <<registryVars, loop, hung, again, asked, cancelled, flight,
                 busy, closed, failed, used>>

(* The connection is lost.                                                 *)
Lose(s) ==
  /\ Alive(s)
  /\ Fault
  /\ chan' = [chan EXCEPT ![s] = "over"]
  /\ flight' = [flight EXCEPT ![s] = <<>>]
  /\ UNCHANGED <<registryVars, loop, hung, again, asked, cancelled, busy,
                 closed, failed>>

RegThread(t) == Register(t) \/ Lock(t) \/ HangEnds(t)
RegLoop(s) ==
  \/ LoopTop(s) \/ LoopReceives(s) \/ LoopFails(s)
  \/ HandleEvent(s) \/ HandleFails(s)

RegNext ==
  \/ \E t \in Thread : RegThread(t) \/ OpenFails(t)
  \/ \E t \in Thread, s \in Stream : OpenStream(t, s)
  \/ \E s \in Stream : RegLoop(s) \/ Wake(s) \/ SnapshotTimeout(s) \/ Lose(s)
                       \/ PushTimeout(s) \/ RemoveStream(s) \/ Return(s)
  \/ \E s \in Stream, kind \in {"none", "load", "malformed"} : Accept(s, kind)
  \/ \E s \in Stream, kind \in Kind : Push(s, kind)
  \/ Close

(* The goroutines of the agent and the center's handler run; the center    *)
(* can be reached except for finitely many times.                          *)
RegFairness ==
  /\ \A t \in Thread : /\ WF_regVars(RegThread(t))
                       /\ WF_regVars(\E s \in Stream : OpenStream(t, s))
  /\ \A s \in Stream : /\ WF_regVars(RegLoop(s)) /\ WF_regVars(Wake(s))
                       /\ WF_regVars(Return(s)) /\ WF_regVars(PushTimeout(s))
                       /\ WF_regVars(SnapshotTimeout(s))
                       /\ WF_regVars(\E k \in {"none", "load"} : Accept(s, k))

RegSpec == RegInit /\ [][RegNext]_regVars /\ RegFairness

-----------------------------------------------------------------------------
(* As long as no event handler failed, the agent receives on its current   *)
(* stream: no stream is open that nobody listens to.                       *)
NeverDeaf == ~failed /\ cur # 0 => receiving = cur \/ closed

(* Its streams are the one session of StreamSession: a new one is opened   *)
(* only when the loop of the old one has ended, and the agent never goes   *)
(* back to one it left, until a handler fails or the registry is closed.   *)
Unbound == failed \/ closed
Session == INSTANCE StreamSession WITH
  past <- IF Unbound THEN {} ELSE Opened,
  current <- IF Unbound THEN 0 ELSE cur,
  listening <- IF Unbound THEN 0 ELSE receiving,
  ended <- Unbound
OneSession == Session!Spec

(* After finitely many losses, late answers and failed attempts the agent  *)
(* ends with a stream the center has accepted and on which it receives,    *)
(* unless an event handler failed or the registry was closed.              *)
ComesBack ==
  <>[](failed \/ closed \/ (cur # 0 /\ receiving = cur /\ chan[cur] = "up"))
=============================================================================
