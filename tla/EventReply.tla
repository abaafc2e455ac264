----------------------------- MODULE EventReply -----------------------------
(***************************************************************************)
(* Waiting for the answer to one event on an agent's stream: responseMap,  *)
(* SendEventWaitResponse and RecvStreamResponse (app/registry.go).         *)
(*                                                                         *)
(* One event id: the waiter that sent it, the goroutine that closes the    *)
(* waiter's channel when its context is done, and the deliveries of        *)
(* answers with that id; an agent may answer an event twice.               *)
(***************************************************************************)
EXTENDS Naturals

CONSTANTS Delivery      \* calls of RecvStreamResponse for the event

Closer == "closer"

ASSUME ReplyAssumption == Closer \notin Delivery

VARIABLES
  waiter,     \* the waiter's step, then its result
  entry,      \* the id is in the map
  expired,    \* the waiter's context is done
  holder,     \* who holds the mutex: a delivery or the closer, if anybody
  isClose,    \* the entry's flag
  gone,       \* the channel is closed
  buffered,   \* answers in the channel, which has room for one
  delivery    \* per delivery: its step

replyVars == <<waiter, entry, expired, holder, isClose, gone, buffered,
               delivery>>

ReplyTypeOK ==
  /\ waiter \in {"idle", "waiting", "answered", "gave up"}
  /\ entry \in BOOLEAN /\ expired \in BOOLEAN
  /\ holder \subseteq Delivery \union {Closer}
  /\ \A x, y \in holder : x = y
  /\ isClose \in BOOLEAN /\ gone \in BOOLEAN /\ buffered \in 0..1
  /\ delivery \in [Delivery -> {"before", "found", "locked", "open", "over",
                                "panic"}]

ReplyInit ==
  /\ waiter = "idle" /\ entry = FALSE /\ expired = FALSE
  /\ holder = {} /\ isClose = FALSE /\ gone = FALSE /\ buffered = 0
  /\ delivery = [d \in Delivery |-> "before"]

(* responseMap.set, then Send.                                             *)
SetEntry ==
  /\ waiter = "idle"
  /\ waiter' = "waiting" /\ entry' = TRUE
  /\ UNCHANGED <<expired, holder, isClose, gone, buffered, delivery>>

(* The caller's deadline, or its cancellation.                             *)
Expire ==
  /\ waiter = "waiting" /\ ~expired
  /\ expired' = TRUE
  /\ UNCHANGED <<waiter, entry, holder, isClose, gone, buffered, delivery>>

(* The select of SendEventWaitResponse: an answer, the end of the context  *)
(* or a closed channel.  The deferred calls cancel and remove the entry.   *)
Finish(result) ==
  /\ waiter = "waiting"
  /\ \/ /\ result = "answered" /\ buffered > 0
        /\ buffered' = buffered - 1
     \/ /\ result = "gave up" /\ (expired \/ (gone /\ buffered = 0))
        /\ UNCHANGED buffered
  /\ waiter' = result
  /\ entry' = FALSE /\ expired' = TRUE
  /\ UNCHANGED <<holder, isClose, gone, delivery>>

(* Send fails: the waiter returns at once.                                 *)
SendFails ==
  /\ waiter = "waiting" /\ \A d \in Delivery : delivery[d] = "before"
  /\ waiter' = "gave up"
  /\ entry' = FALSE /\ expired' = TRUE
  /\ UNCHANGED <<holder, isClose, gone, buffered, delivery>>

CloserLocks ==
  /\ waiter # "idle" /\ expired /\ ~gone /\ holder = {}
  /\ holder' = {Closer}
  /\ isClose' = TRUE
  /\ UNCHANGED <<waiter, entry, expired, gone, buffered, delivery>>

CloserCloses ==
  /\ holder = {Closer}
  /\ gone' = TRUE
  /\ holder' = {}
  /\ UNCHANGED <<waiter, entry, expired, isClose, buffered, delivery>>

Step(d, from, to) ==
  /\ delivery[d] = from
  /\ delivery' = [delivery EXCEPT ![d] = to]
  /\ UNCHANGED <<waiter, entry, expired, gone>>

(* The entry is looked up; what was found stays usable after its removal.  *)
Find(d) ==
  /\ waiter # "idle"
  /\ Step(d, "before", IF entry THEN "found" ELSE "over")
  /\ UNCHANGED <<holder, isClose, buffered>>

(* TryLock: an answer that finds the mutex taken is dropped.               *)
TryLock(d) ==
  /\ Step(d, "found", IF holder = {} THEN "locked" ELSE "over")
  /\ holder' = IF holder = {} THEN {d} ELSE holder
  /\ UNCHANGED <<isClose, buffered>>

CheckOpen(d) ==
  /\ Step(d, "locked", IF isClose THEN "over" ELSE "open")
  /\ holder' = IF isClose THEN {} ELSE holder
  /\ UNCHANGED <<isClose, buffered>>

\* Faulty variant of Deliver: isClose is not set after the answer.
DeliverStaysOpen(d) ==
  /\ Step(d, "open", IF gone \/ buffered = 1 THEN "panic" ELSE "over")
  /\ buffered' = IF gone \/ buffered = 1 THEN buffered ELSE buffered + 1
  /\ holder' = {}
  /\ UNCHANGED isClose

(* The send that must not block: a full channel panics, by the code, and a *)
(* closed one, by the language.                                            *)
Deliver(d) ==
  /\ Step(d, "open", IF gone \/ buffered = 1 THEN "panic" ELSE "over")
  /\ IF gone \/ buffered = 1
       THEN UNCHANGED <<isClose, buffered>>
       ELSE buffered' = buffered + 1 /\ isClose' = TRUE
  /\ holder' = {}

ReplyNext ==
  \/ SetEntry \/ Expire \/ SendFails \/ CloserLocks \/ CloserCloses
  \/ \E result \in {"answered", "gave up"} : Finish(result)
  \/ \E d \in Delivery : Find(d) \/ TryLock(d) \/ CheckOpen(d) \/ Deliver(d)

ReplySpec == ReplyInit /\ [][ReplyNext]_replyVars

-----------------------------------------------------------------------------
(* No delivery of an answer panics: neither a second answer to the event   *)
(* nor the end of the waiter's context at any moment makes it send on a    *)
(* full or a closed channel.                                               *)
NoPanic == \A d \in Delivery : delivery[d] # "panic"
=============================================================================
