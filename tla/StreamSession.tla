--------------------------- MODULE StreamSession ---------------------------
(***************************************************************************)
(* What the registry of an agent promises of its streams, as long as       *)
(* nothing made it give up: it has one stream at a time and listens to it, *)
(* a new one is opened only when nobody listens to an old one any more,    *)
(* and it never goes back to a stream it left.                             *)
(***************************************************************************)
CONSTANT Stream   \* the streams, numbers from 1 on

VARIABLES
  past,       \* the streams that were opened
  current,    \* the stream of the agent, 0 for none
  listening,  \* the stream that is received on, 0 for none
  ended       \* the promise has ended

sessionVars == <<past, current, listening, ended>>

Init == past = {} /\ current = 0 /\ listening = 0 /\ ended = FALSE

\* The agent opens a stream and listens to it.
Open(s) ==
  /\ ~ended /\ listening = 0 /\ s \notin past
  /\ past' = past \union {s} /\ current' = s /\ listening' = s
  /\ UNCHANGED ended

\* The stream is given up, with its receive loop or before it.
Drop ==
  /\ ~ended /\ current # 0
  /\ current' = 0 /\ listening' \in {listening, 0}
  /\ UNCHANGED <<past, ended>>

\* The receive loop of a stream that was given up ends.
Stop ==
  /\ ~ended /\ current = 0 /\ listening # 0 /\ listening' = 0
  /\ UNCHANGED <<past, current, ended>>

\* The registry is closed, or a handler failed, and nothing is promised.
GiveUp ==
  /\ ended' = TRUE
  /\ past' = {} /\ current' = 0 /\ listening' = 0

Next == (\E s \in Stream : Open(s)) \/ Drop \/ Stop \/ GiveUp

Spec == Init /\ [][Next]_sessionVars
=============================================================================
