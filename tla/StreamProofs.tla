---------------------------- MODULE StreamProofs ----------------------------
(***************************************************************************)
(* Proofs about what crosses the streams between centers and agents: a     *)
(* task definition on its way to the plan tables (PlanTable), an answer to *)
(* an event (EventReply) and an agent that registers (AgentRegister), for  *)
(* any number of agents, calls, answers, streams and faults.               *)
(***************************************************************************)
EXTENDS PlanTable, EventReply, AgentRegister, TLAPS

-----------------------------------------------------------------------------
(***************************************************************************)
(* PlanTable.  Once nothing is under way, every agent that is registered   *)
(* has the task the database has.  PlanInv says where the difference may   *)
(* be at every moment: in a wire, in a receiving loop's hands, in an inbox,*)
(* or in a call that has not finished.                                     *)
(***************************************************************************)
\* On a wire: nothing but pings; no event of one source; the event of one
\* source, with its value, and after it nothing but pings.
Pings(w) == \A i \in 1..Len(w) : w[i].from = "ping"
Lacking(w, src) == \A i \in 1..Len(w) : w[i].from # src
EndsWith(w, src, v) ==
  \A i \in 1..Len(w) : w[i].from = src =>
    w[i].val = v /\ \A j \in 1..Len(w) : j > i => w[j].from = "ping"

Once(w, src) ==
  \A i, j \in 1..Len(w) : w[i].from = src /\ w[j].from = src => i = j

\* An agent that has taken v, or will without another event: w, c, h, i and t
\* are its wire, cell, hands, inbox and entry of the table.
Settled(i, t) == IF i = <<>> THEN t ELSE Effect(i[Len(i)])
Quiet(w, c, h, i, t, v) ==
  /\ Pings(w)
  /\ h > 0 /\ c.from # "ping" => Effect(c.val) = v
  /\ Settled(i, t) = v

\* No event of a source is on its way to an agent, nor an answer to one.
Unknown(w, c, r, src) == Lacking(w, src) /\ c.from # src /\ src \notin r

\* The event of a source is the last one for the agent, and an answer to it
\* means that the agent has taken it.
Last(w, c, h, i, t, r, src, v) ==
  /\ EndsWith(w, src, v)
  /\ c.from = src => c.val = v /\ Pings(w)
  /\ src \in r => Quiet(w, c, h, i, t, Effect(v))

QuietAt(a, v) == Quiet(wire[a], cell[a], hands[a], inbox[a], table[a], v)
UnknownAt(a, src) == Unknown(wire[a], cell[a], replies[a], src)
LastAt(a, src, v) ==
  Last(wire[a], cell[a], hands[a], inbox[a], table[a], replies[a], src, v)

\* The calls are records of this type.
Edits == [step : {"before", "busy", "over"}, val : Definition,
          todo : SUBSET Agent, asked : SUBSET Agent, told : SUBSET Agent,
          lost : SUBSET Agent, clean : SUBSET Agent]
EditTyped == edit \in [Editor -> Edits]

\* A call that is not under way asks nobody; one that is asks nobody twice; an
\* agent is clean for the only call under way, and no snapshot is taken for it.
EditsInTurn ==
  \A e \in Editor :
    /\ edit[e].step # "busy" =>
         edit[e].todo = {} /\ edit[e].asked = {} /\ edit[e].clean = {}
    /\ edit[e].todo \intersect (edit[e].asked \union edit[e].told) = {}
    /\ \A a \in edit[e].clean :
         Busy \subseteq {e} /\ load[a].step = "none"

\* Nothing is known of a call before it asks.
EditsUnknown ==
  \A e \in Editor, a \in Agent :
    edit[e].step = "before" \/ a \in edit[e].todo => UnknownAt(a, e)

\* Consecutive snapshots on one stream are told apart by their ids.
NoLoads(w) == \A id \in Loads : Lacking(w, id)
LoadTurn(s, w, c, r, p, id) ==
  /\ s = "down" => w = <<>> /\ c = Nothing /\ r = {}
  /\ s \notin {"new", "saved", "up"} => p = "none"
  /\ s \in {"new", "saved", "up"} /\ p # "sent" =>
       NoLoads(w) /\ c.from # id /\ r \intersect Loads = {}
  /\ s \in {"new", "saved", "up"} /\ p = "sent" =>
       /\ \A other \in Loads \ {id} : Lacking(w, other) /\ other \notin r
       /\ Once(w, id)
       /\ c.from = id => NoLoads(w)
       /\ id \in r =>
            NoLoads(w) /\ \A other \in Loads \ {id} : c.from # other
LoadsInTurn ==
  \A a \in Agent : LoadTurn(stream[a], wire[a], cell[a], replies[a],
                           load[a].step, load[a].id)

\* A clean snapshot is what the store holds; no call is under way.
LoadsClean ==
  \A a \in Agent : load[a].clean =>
    load[a].step # "none" /\ Busy = {} /\ load[a].val = store

\* What a clean agent has been asked or told is the last that was sent to it.
EditsLast ==
  \A e \in Editor : \A a \in edit[e].clean :
    /\ edit[e].asked = {a} => LastAt(a, e, edit[e].val)
    /\ a \in edit[e].told => QuietAt(a, Effect(edit[e].val))

LoadsLast ==
  \A a \in Agent : load[a].clean /\ load[a].step = "sent" =>
    LastAt(a, load[a].id, load[a].val)

SureIsQuiet == \A a \in Agent : sure[a] => QuietAt(a, Effect(store))

\* Taking the first event from a wire.
LEMMA WireTaken ==
  ASSUME NEW w \in Seq(Event), w # <<>>
  PROVE  /\ Pings(w) => Head(w).from = "ping" /\ Pings(Tail(w))
         /\ \A src : Lacking(w, src) =>
              Head(w).from # src /\ Lacking(Tail(w), src)
         /\ \A src : Once(w, src) =>
              Once(Tail(w), src)
                /\ (Head(w).from = src => Lacking(Tail(w), src))
         /\ \A src, v : EndsWith(w, src, v) =>
              EndsWith(Tail(w), src, v)
                /\ (Head(w).from = src => Head(w).val = v /\ Pings(Tail(w)))
<1>1. /\ Len(w) \in Nat /\ Len(w) > 0 /\ Head(w) = w[1]
      /\ Len(Tail(w)) = Len(w) - 1
      /\ \A i \in 1..Len(Tail(w)) : i + 1 \in 1..Len(w)
                                    /\ Tail(w)[i] = w[i + 1]
  OBVIOUS
<1>2. ASSUME Pings(w) PROVE Head(w).from = "ping" /\ Pings(Tail(w))
  BY <1>1, <1>2 DEF Pings
<1>3. ASSUME NEW src, Lacking(w, src)
      PROVE  Head(w).from # src /\ Lacking(Tail(w), src)
  BY <1>1, <1>3 DEF Lacking
<1>4. ASSUME NEW src, Once(w, src)
      PROVE  Once(Tail(w), src)
               /\ (Head(w).from = src => Lacking(Tail(w), src))
  BY <1>1, <1>4 DEF Once, Lacking
<1>5. ASSUME NEW src, NEW v, EndsWith(w, src, v)
      PROVE  EndsWith(Tail(w), src, v)
               /\ (Head(w).from = src => Head(w).val = v /\ Pings(Tail(w)))
  BY <1>1, <1>5 DEF EndsWith, Pings
<1>6. QED
  BY <1>2, <1>3, <1>4, <1>5

\* Sending an event on a wire.
LEMMA WireGiven ==
  ASSUME NEW w \in Seq(Event), NEW x \in Event
  PROVE  /\ \A src : Lacking(w, src) /\ x.from # src =>
              Lacking(Append(w, x), src)
         /\ \A src : Lacking(w, src) => Once(Append(w, x), src)
         /\ \A src, v : Lacking(w, src) /\ (x.from = src => x.val = v) =>
              EndsWith(Append(w, x), src, v)
         /\ x.from = "ping" =>
              /\ Pings(w) => Pings(Append(w, x))
              /\ \A src : src # "ping" /\ Once(w, src) =>
                   Once(Append(w, x), src)
              /\ \A src, v : src # "ping" /\ EndsWith(w, src, v) =>
                   EndsWith(Append(w, x), src, v)
<1>1. /\ Len(w) \in Nat /\ Len(Append(w, x)) = Len(w) + 1
      /\ Append(w, x)[Len(w) + 1] = x
      /\ \A i \in 1..Len(w) : Append(w, x)[i] = w[i]
      /\ \A i \in 1..Len(Append(w, x)) : i \in 1..Len(w) \/ i = Len(w) + 1
  OBVIOUS
<1>2. ASSUME NEW src, Lacking(w, src), x.from # src
      PROVE  Lacking(Append(w, x), src)
  BY <1>1, <1>2 DEF Lacking
<1>3. ASSUME NEW src, Lacking(w, src) PROVE Once(Append(w, x), src)
  BY <1>1, <1>3 DEF Lacking, Once
<1>4. ASSUME NEW src, NEW v, Lacking(w, src), x.from = src => x.val = v
      PROVE  EndsWith(Append(w, x), src, v)
  <2>1. ASSUME NEW i \in 1..Len(Append(w, x)), Append(w, x)[i].from = src
        PROVE  i = Len(w) + 1 /\ Append(w, x)[i].val = v
    BY <1>1, <1>4, <2>1 DEF Lacking
  <2>2. QED
    BY <1>1, <2>1 DEF EndsWith
<1>5. ASSUME x.from = "ping", Pings(w) PROVE Pings(Append(w, x))
  BY <1>1, <1>5 DEF Pings
<1>6. ASSUME x.from = "ping", NEW src, src # "ping", Once(w, src)
      PROVE  Once(Append(w, x), src)
  BY <1>1, <1>6 DEF Once
<1>7. ASSUME x.from = "ping", NEW src, NEW v, src # "ping", EndsWith(w, src, v)
      PROVE  EndsWith(Append(w, x), src, v)
  <2>1. ASSUME NEW i \in 1..Len(Append(w, x)), Append(w, x)[i].from = src
        PROVE  i \in 1..Len(w) /\ w[i].from = src /\ Append(w, x)[i] = w[i]
    BY <1>1, <1>7, <2>1
  <2>2. ASSUME NEW i \in 1..Len(w), w[i].from = src,
               NEW j \in 1..Len(Append(w, x)), j > i
        PROVE  Append(w, x)[j].from = "ping"
    BY <1>1, <1>7, <2>2 DEF EndsWith
  <2>3. QED
    BY <1>7, <2>1, <2>2 DEF EndsWith
<1>8. QED
  BY <1>2, <1>3, <1>4, <1>5, <1>6, <1>7

\* An empty wire.
LEMMA WireEmpty ==
  /\ Pings(<<>>)
  /\ \A src : Lacking(<<>>, src) /\ Once(<<>>, src)
  /\ \A src, v : EndsWith(<<>>, src, v)
BY DEF Pings, Lacking, Once, EndsWith

\* The channel of an agent: what it leaves in the table.
LEMMA SettledKept ==
  ASSUME NEW i \in Seq(Definition), NEW t
  PROVE  /\ i # <<>> => Settled(Tail(i), Effect(Head(i))) = Settled(i, t)
         /\ \A v \in Definition : Settled(Append(i, v), t) = Effect(v)
<1>1. ASSUME i # <<>>
      PROVE  Settled(Tail(i), Effect(Head(i))) = Settled(i, t)
  <2>1. CASE Tail(i) = <<>>
    <3>a. Len(Tail(i)) = 0
      <4>1. Len(<<>>) = 0
        OBVIOUS
      <4>2. QED
        BY <2>1, <4>1, Zenon
    <3>b. Len(i) \in Nat /\ Len(Tail(i)) = Len(i) - 1 /\ Head(i) = i[1]
      BY <1>1
    <3>1. Len(i) = 1 /\ Head(i) = i[1]
      BY <3>a, <3>b
    <3>2. QED
      BY <1>1, <2>1, <3>1, Zenon DEF Settled
  <2>2. CASE Tail(i) # <<>>
    <3>1. Tail(i)[Len(Tail(i))] = i[Len(i)]
      BY <1>1, <2>2
    <3>2. QED
      BY <1>1, <2>2, <3>1, Zenon DEF Settled
  <2>3. QED
    BY <2>1, <2>2
<1>2. ASSUME NEW v \in Definition
      PROVE  Settled(Append(i, v), t) = Effect(v)
  <2>1. Append(i, v) # <<>> /\ Append(i, v)[Len(Append(i, v))] = v
    OBVIOUS
  <2>2. QED
    BY <2>1, Zenon DEF Settled
<1>3. QED
  BY <1>1, <1>2

\* The sources whose events matter are neither a ping nor nothing.
Author == Editor \union Loads

\* Pings and nothing are no event of an author.
LEMMA AuthorsAreNoPings ==
  /\ "ping" \notin Author /\ "none" \notin Author
  /\ Ping.from = "ping" /\ Nothing.from = "none"
  /\ Ping \in Event /\ Nothing \in Event
  /\ Editor \subseteq Author /\ Loads \subseteq Author /\ Author \subseteq Source
  /\ Editor \intersect Loads = {}
BY PlanAssumption
   DEF Author, Loads, Ping, Nothing, Event, Source, Definition

\* What a receive loop, a handler, the scheduler's loop, a ping and the end of
\* a stream keep.
LEMMA ReceiveKeeps ==
  ASSUME NEW w \in Seq(Event), w # <<>>, NEW c, NEW h, NEW i, NEW t, NEW r
  PROVE  /\ \A v : Quiet(w, c, h, i, t, v) =>
              Quiet(Tail(w), Head(w), h + 1, i, t, v)
         /\ \A src : Unknown(w, c, r, src) =>
              Unknown(Tail(w), Head(w), r, src)
         /\ \A src, v : Last(w, c, h, i, t, r, src, v) =>
              Last(Tail(w), Head(w), h + 1, i, t, r, src, v)
<1>1. ASSUME NEW v, Quiet(w, c, h, i, t, v)
      PROVE  Quiet(Tail(w), Head(w), h + 1, i, t, v)
  BY <1>1, WireTaken, Zenon DEF Quiet
<1>2. ASSUME NEW src, Unknown(w, c, r, src)
      PROVE  Unknown(Tail(w), Head(w), r, src)
  BY <1>2, WireTaken, Zenon DEF Unknown
<1>3. ASSUME NEW src, NEW v, Last(w, c, h, i, t, r, src, v)
      PROVE  Last(Tail(w), Head(w), h + 1, i, t, r, src, v)
  BY <1>1, <1>3, WireTaken, Zenon DEF Last
<1>4. QED
  BY <1>1, <1>2, <1>3, Zenon

\* A handler goroutine that has cell c, channel i and answers r leaves k and q.
Handling(c, h, i, r, k, q) ==
  /\ h > 0
  /\ k = IF c.from = "ping" THEN i ELSE Append(i, c.val)
  /\ q = r \/ q = r \union {c.from}

\* A handler goroutine,
LEMMA HandleKeeps ==
  ASSUME NEW c \in Event, NEW h, NEW i \in Seq(Definition), NEW r, NEW k, NEW q,
         Handling(c, h, i, r, k, q)
  PROVE  /\ \A w, t, g, v :
              Quiet(w, c, h, i, t, v) => Quiet(w, c, g, k, t, v)
         /\ \A w, src : Unknown(w, c, r, src) => Unknown(w, c, q, src)
         /\ \A w, t, g : \A src \in Author, v \in Definition :
              Last(w, c, h, i, t, r, src, v) => Last(w, c, g, k, t, q, src, v)
<1>0. /\ h > 0
      /\ c.from = "ping" => k = i
      /\ c.from # "ping" => k = Append(i, c.val)
      /\ q = r \/ q = r \union {c.from}
  BY DEF Handling
<1>1. ASSUME NEW t, c.from # "ping" PROVE Settled(k, t) = Effect(c.val)
  <2>1. c.val \in Definition
    BY DEF Event
  <2>2. Settled(Append(i, c.val), t) = Effect(c.val)
    BY <2>1, SettledKept, Zenon
  <2>3. QED
    BY <1>0, <1>1, <2>2
<1>2. ASSUME NEW w, NEW t, NEW g, NEW v, Quiet(w, c, h, i, t, v)
      PROVE  Quiet(w, c, g, k, t, v)
  BY <1>0, <1>1, <1>2, Zenon DEF Quiet
<1>3. ASSUME NEW w, NEW src, Unknown(w, c, r, src) PROVE Unknown(w, c, q, src)
  BY <1>0, <1>3 DEF Unknown
<1>4. ASSUME NEW w, NEW t, NEW g, NEW src \in Author, NEW v \in Definition,
             Last(w, c, h, i, t, r, src, v)
      PROVE  Last(w, c, g, k, t, q, src, v)
  <2>1. src \in q => src \in r \/ c.from = src
    BY <1>0
  <2>2. ASSUME c.from = src PROVE Quiet(w, c, g, k, t, Effect(v))
    <3>1. c.from # "ping" /\ c.val = v /\ Pings(w)
      BY <1>4, <2>2, AuthorsAreNoPings, Zenon DEF Last
    <3>2. QED
      BY <1>1, <3>1, Zenon DEF Quiet
  <2>3. QED
    BY <1>2, <1>4, <2>1, <2>2, Zenon DEF Last
<1>5. QED
  BY <1>2, <1>3, <1>4, Zenon

\* the scheduler's loop,
LEMMA ApplyKeeps ==
  ASSUME NEW w, NEW c, NEW h, NEW i \in Seq(Definition), i # <<>>, NEW t, NEW r
  PROVE  /\ \A v : Quiet(w, c, h, i, t, v) =>
              Quiet(w, c, h, Tail(i), Effect(Head(i)), v)
         /\ \A src, v : Last(w, c, h, i, t, r, src, v) =>
              Last(w, c, h, Tail(i), Effect(Head(i)), r, src, v)
BY SettledKept, Zenon DEF Quiet, Last

\* a ping,
LEMMA PingKeeps ==
  ASSUME NEW w \in Seq(Event), NEW c, NEW h, NEW i, NEW t, NEW r
  PROVE  /\ \A v : Quiet(w, c, h, i, t, v) =>
              Quiet(Append(w, Ping), c, h, i, t, v)
         /\ \A src \in Author : Unknown(w, c, r, src) =>
              Unknown(Append(w, Ping), c, r, src)
         /\ \A src \in Author : \A v : Last(w, c, h, i, t, r, src, v) =>
              Last(Append(w, Ping), c, h, i, t, r, src, v)
<1>1. /\ Pings(w) => Pings(Append(w, Ping))
      /\ \A src \in Author : Lacking(w, src) => Lacking(Append(w, Ping), src)
      /\ \A src \in Author : \A v : EndsWith(w, src, v) =>
           EndsWith(Append(w, Ping), src, v)
  BY WireGiven, AuthorsAreNoPings, Zenon
<1>2. QED
  BY <1>1, Zenon DEF Quiet, Unknown, Last

\* and the end of the stream.
LEMMA DropKeeps ==
  ASSUME NEW w, NEW c, NEW h, NEW i, NEW t
  PROVE  /\ \A v : Quiet(w, c, h, i, t, v) =>
              Quiet(<<>>, Nothing, 0, i, t, v)
         /\ \A src \in Author : Unknown(<<>>, Nothing, {}, src)
         /\ \A src \in Author : \A v : Last(<<>>, Nothing, 0, i, t, {}, src, v)
<1>1. ~(0 > 0)
  OBVIOUS
<1>2. \A src \in Author : Nothing.from # src /\ src \notin {}
  BY AuthorsAreNoPings, Zenon
<1>3. QED
  BY <1>1, <1>2, WireEmpty, Zenon DEF Quiet, Unknown, Last

\* Fewer answers under way change nothing.
LEMMA AnswerTakenKeeps ==
  ASSUME NEW w, NEW c, NEW h, NEW i, NEW t, NEW r, NEW q, q \subseteq r
  PROVE  /\ \A src : Unknown(w, c, r, src) => Unknown(w, c, q, src)
         /\ \A src, v : Last(w, c, h, i, t, r, src, v) =>
              Last(w, c, h, i, t, q, src, v)
BY DEF Unknown, Last

\* What is sent to an agent that knows nothing of its source is the last that
\* was sent, and the agent still knows nothing of the others.
LEMMA SentIsLast ==
  ASSUME NEW w \in Seq(Event), NEW c, NEW h, NEW i, NEW t, NEW r,
         NEW src \in Source, NEW v \in Definition
  PROVE  /\ Unknown(w, c, r, src) =>
              Last(Append(w, [from |-> src, val |-> v]), c, h, i, t, r, src, v)
         /\ \A other : other # src /\ Unknown(w, c, r, other) =>
              Unknown(Append(w, [from |-> src, val |-> v]), c, r, other)
<1> DEFINE x == [from |-> src, val |-> v]
<1>1. x \in Event /\ x.from = src /\ x.val = v
  BY DEF Event
<1>2. ASSUME Unknown(w, c, r, src)
      PROVE  Last(Append(w, x), c, h, i, t, r, src, v)
  <2> HIDE DEF x
  <2> QED
    BY <1>1, <1>2, WireGiven, Zenon DEF Unknown, Last
<1>3. ASSUME NEW other, other # src, Unknown(w, c, r, other)
      PROVE  Unknown(Append(w, x), c, r, other)
  <2> HIDE DEF x
  <2> QED
    BY <1>1, <1>3, WireGiven, Zenon DEF Unknown
<1>4. QED
  BY <1>2, <1>3, Zenon

\* What PlanTypeOK says, in parts.
WiresTyped ==
  /\ stream \in [Agent -> {"down", "new", "saved", "up", "ending"}]
  /\ doomed \in [Agent -> BOOLEAN]
  /\ wire \in [Agent -> Seq(Event)] /\ inbox \in [Agent -> Seq(Definition)]
  /\ cell \in [Agent -> Event]
  /\ replies \in [Agent -> SUBSET Source]
  /\ table \in [Agent -> Started \union {"gone"}]
  /\ hash \in [Agent -> Started \union {"gone"}]
  /\ due \in [Agent -> BOOLEAN]
HandsTyped == hands \in [Agent -> Nat]
SureTyped == sure \in [Agent -> BOOLEAN]
Snapshots == [step : {"none", "read", "sent"}, val : Definition,
              clean : BOOLEAN, id : Loads]
LoadTyped == load \in [Agent -> Snapshots]
StoreTyped == store \in Definition
SpentTyped == spent \in [pings : 0..MaxPings, breaks : 0..MaxBreaks]
PlanTyped == EditTyped /\ WiresTyped /\ HandsTyped /\ LoadTyped /\ StoreTyped

\* What an event makes of the table's entry is one of its values.
LEMMA EffectTyped == \A v \in Definition : Effect(v) \in Started \union {"gone"}
BY DEF Effect

\* A call stays one when some of its parts are set.
LEMMA CallTyping ==
  ASSUME NEW r \in Edits, NEW a \in Agent, NEW C
  PROVE  /\ [r EXCEPT !.todo = @ \ {a}, !.asked = {a}] \in Edits
         /\ [r EXCEPT !.asked = {}, !.told = @ \union {a}] \in Edits
         /\ [r EXCEPT !.clean = {}] \in Edits
         /\ [r EXCEPT !.clean = @ \ {a}] \in Edits
         /\ [r EXCEPT !.lost = @ \union ({a} \intersect (r.todo \union r.asked)),
                      !.clean = @ \intersect C] \in Edits
         /\ NoEdit \in Edits /\ Over \in Edits
<1>1. /\ {a} \in SUBSET Agent /\ {} \in SUBSET Agent
      /\ r.todo \ {a} \in SUBSET Agent /\ r.told \union {a} \in SUBSET Agent
      /\ r.clean \ {a} \in SUBSET Agent /\ r.clean \intersect C \in SUBSET Agent
      /\ r.lost \union ({a} \intersect (r.todo \union r.asked)) \in SUBSET Agent
  BY DEF Edits
<1>2. [r EXCEPT !.todo = @ \ {a}, !.asked = {a}] \in Edits
  BY <1>1 DEF Edits
<1>3. [r EXCEPT !.asked = {}, !.told = @ \union {a}] \in Edits
  BY <1>1 DEF Edits
<1>4. [r EXCEPT !.clean = {}] \in Edits /\ [r EXCEPT !.clean = @ \ {a}] \in Edits
  BY <1>1 DEF Edits
<1>5. [r EXCEPT !.lost = @ \union ({a} \intersect (r.todo \union r.asked)),
               !.clean = @ \intersect C] \in Edits
  BY <1>1 DEF Edits
<1>6. NoEdit \in Edits /\ Over \in Edits
  BY DEF Edits, NoEdit, Over, Definition
<1>7. QED
  BY <1>2, <1>3, <1>4, <1>5, <1>6

\* So the calls stay typed when an agent's stream is dropped.
LEMMA DropTyping ==
  ASSUME EditTyped, NEW a \in Agent, NEW C, Drop(a, C)
  PROVE  EditTyped'
<1>1. edit' = [e \in Editor |-> [edit[e] EXCEPT
        !.lost = @ \union ({a} \intersect (edit[e].todo \union edit[e].asked)),
        !.clean = @ \intersect C]]
  BY Zenon DEF Drop
<1>2. QED
  BY <1>1, CallTyping, Zenon DEF EditTyped

\* Every step keeps each of the parts, given those it reads: the calls,
LEMMA EditTypedStep ==
  EditTyped /\ StoreTyped /\ [PlanNext]_planVars => EditTyped'
<1>1. SUFFICES ASSUME EditTyped, StoreTyped, [PlanNext]_planVars
               PROVE  EditTyped'
  OBVIOUS
<1>2. QED
  <2>1. ASSUME NEW e \in Editor, NEW v \in Definition, Begin(e, v)
        PROVE  EditTyped'
    <3> DEFINE n == [step |-> "busy", val |-> v, asked |-> {}, told |-> {},
                     lost |-> {}, todo |-> {a \in Agent : Listed(a)},
                     clean |-> IF Busy = {}
                                 THEN {a \in Agent : load[a].step = "none"}
                                 ELSE {}]
    <3>1. n \in Edits
      BY DEF Edits
    <3>2. edit' = [f \in Editor |-> IF f = e THEN n
                                   ELSE [edit[f] EXCEPT !.clean = {}]]
      BY <2>1, Zenon DEF Begin
    <3>3. \A f \in Editor : [edit[f] EXCEPT !.clean = {}] \in Edits
      BY <1>1 DEF EditTyped, Edits
    <3> HIDE DEF n
    <3>4. QED
      BY <3>1, <3>2, <3>3 DEF EditTyped
  <2>2. ASSUME NEW e \in Editor, NEW a \in Agent, Ask(e, a)
        PROVE  EditTyped'
    <3>1. edit' = [edit EXCEPT
            ![e] = [edit[e] EXCEPT !.todo = @ \ {a}, !.asked = {a}]]
      BY <1>1, <2>2 DEF EditTyped, Edits, Ask
    <3>2. QED
      BY <1>1, <3>1, CallTyping DEF EditTyped
  <2>3. ASSUME NEW e \in Editor, NEW a \in Agent,
               AskFails(e, a) \/ Timeout(e, a)
        PROVE  EditTyped'
    <3>1. edit' = [edit EXCEPT ![e] = Over]
      BY <2>3, Zenon DEF AskFails, Timeout, Fail
    <3>2. QED
      BY <1>1, <2>3, <3>1, CallTyping DEF EditTyped
  <2>4. ASSUME NEW e \in Editor, NEW a \in Agent, Answered(e, a)
        PROVE  EditTyped'
    <3>1. edit' = [edit EXCEPT
            ![e] = [edit[e] EXCEPT !.asked = {}, !.told = @ \union {a}]]
      BY <1>1, <2>4 DEF EditTyped, Edits, Answered
    <3>2. QED
      BY <1>1, <3>1, CallTyping DEF EditTyped
  <2>5. ASSUME NEW e \in Editor, NEW done \in BOOLEAN, Write(e, done)
        PROVE  EditTyped'
    <3>1. edit' = [edit EXCEPT ![e] = Over]
      BY <2>5, Zenon DEF Write
    <3>2. Over \in Edits
      BY DEF Edits, NoEdit, Over, Definition
    <3>3. QED
      BY <1>1, <3>1, <3>2 DEF EditTyped
  <2>6. ASSUME NEW a \in Agent, ReadStore(a)
        PROVE  EditTyped'
    <3>1. \/ edit' = edit
          \/ edit' = [e \in Editor |-> [edit[e] EXCEPT !.clean = @ \ {a}]]
      BY <2>6, Zenon DEF ReadStore
    <3>2. \A e \in Editor : [edit[e] EXCEPT !.clean = @ \ {a}] \in Edits
      BY <1>1, CallTyping, Zenon DEF EditTyped
    <3>3. QED
      BY <1>1, <3>1, <3>2, Zenon DEF EditTyped
  <2>7. ASSUME NEW a \in Agent,
               StreamEnds(a) \/ Break(a) \/ Reload(a) \/ Restart(a)
        PROVE  EditTyped'
    <3>1. \E C : Drop(a, C)
      BY <2>7, Zenon DEF StreamEnds, Break, Reload, Restart
    <3>2. QED
      BY <1>1, <3>1, DropTyping, Zenon
  <2>8. ASSUME NEW a \in Agent,
               \/ Connect(a) \/ SaveStream(a) \/ SendLoad(a)
               \/ LoadAnswered(a) \/ LoadTimeout(a) \/ HandlerReturns(a)
               \/ SendPing(a) \/ Receive(a) \/ Handle(a) \/ Apply(a)
               \/ CalcPlanHash(a) \/ Reregister(a)
        PROVE  EditTyped'
    <3>1. edit' = edit
      BY <2>8, Zenon
         DEF Connect, SaveStream, SendLoad, LoadAnswered, LoadTimeout,
             HandlerReturns, EndStream, SendPing, Receive, Handle, Apply,
             CalcPlanHash, Reregister, centerVars, agentVars
    <3>2. QED
      BY <1>1, <3>1, Zenon DEF EditTyped
  <2>9. CASE UNCHANGED planVars
    BY <1>1, <2>9, Zenon DEF planVars, EditTyped
  <2>10. QED
    BY <1>1, <2>1, <2>2, <2>3, <2>4, <2>5, <2>6, <2>7, <2>8, <2>9, Zenon
       DEF PlanNext

\* etcd's value,
LEMMA StoreTypedStep ==
  EditTyped /\ StoreTyped /\ [PlanNext]_planVars => StoreTyped'
<1>1. SUFFICES ASSUME EditTyped, StoreTyped, [PlanNext]_planVars
               PROVE  StoreTyped'
  OBVIOUS
<1>2. QED
  <2>1. ASSUME NEW e \in Editor, NEW done \in BOOLEAN, Write(e, done)
        PROVE  StoreTyped'
    <3>1. store' = store \/ store' = edit[e].val
      BY <2>1, Zenon DEF Write
    <3>2. edit[e].val \in Definition
      BY <1>1 DEF EditTyped, Edits
    <3>3. QED
      BY <1>1, <3>1, <3>2, Zenon DEF StoreTyped
  <2>2. ASSUME \/ \E e \in Editor, v \in Definition : Begin(e, v)
               \/ \E e \in Editor, a \in Agent :
                    \/ Ask(e, a) \/ AskFails(e, a) \/ Answered(e, a)
                    \/ Timeout(e, a)
               \/ UNCHANGED planVars
        PROVE  StoreTyped'
    <3>1. store' = store
      BY <2>2, Zenon
         DEF Begin, Ask, AskFails, Answered, Timeout, Fail, centerVars,
             agentVars, planVars
    <3>2. QED
      BY <1>1, <3>1, Zenon DEF StoreTyped
  <2>3. ASSUME NEW a \in Agent,
               \/ Connect(a) \/ SaveStream(a) \/ ReadStore(a) \/ SendLoad(a)
               \/ LoadAnswered(a) \/ LoadTimeout(a) \/ HandlerReturns(a)
               \/ SendPing(a)
        PROVE  StoreTyped'
    <3>1. store' = store
      BY <2>3, Zenon
         DEF Connect, SaveStream, ReadStore, SendLoad, LoadAnswered,
             LoadTimeout, HandlerReturns, SendPing, EndStream, centerVars,
             agentVars
    <3>2. QED
      BY <1>1, <3>1, Zenon DEF StoreTyped
  <2>4. ASSUME NEW a \in Agent,
               \/ Receive(a) \/ Handle(a) \/ Apply(a) \/ CalcPlanHash(a)
               \/ StreamEnds(a) \/ Break(a) \/ Reload(a) \/ Restart(a)
               \/ Reregister(a)
        PROVE  StoreTyped'
    <3>1. store' = store
      BY <2>4, Zenon
         DEF Receive, Handle, Apply, CalcPlanHash, StreamEnds, Break, Reload,
             Restart, Reregister, Drop, centerVars, agentVars
    <3>2. QED
      BY <1>1, <3>1, Zenon DEF StoreTyped
  <2>5. QED
    BY <1>1, <2>1, <2>2, <2>3, <2>4, Zenon
       DEF PlanNext

\* the snapshots under way,
LEMMA LoadTypedStep ==
  LoadTyped /\ StoreTyped /\ [PlanNext]_planVars => LoadTyped'
<1>1. SUFFICES ASSUME LoadTyped, StoreTyped, [PlanNext]_planVars
               PROVE  LoadTyped'
  OBVIOUS
<1>2. QED
  <2>1. ASSUME NEW e \in Editor, NEW v \in Definition, Begin(e, v)
        PROVE  LoadTyped'
    <3>1. load' = [a \in Agent |-> [load[a] EXCEPT !.clean = FALSE]]
      BY <2>1, Zenon DEF Begin
    <3>2. \A a \in Agent : [load[a] EXCEPT !.clean = FALSE] \in Snapshots
      BY <1>1 DEF LoadTyped, Snapshots
    <3>3. QED
      BY <3>1, <3>2, Zenon DEF LoadTyped
  <2>2. ASSUME NEW a \in Agent, ReadStore(a)
        PROVE  LoadTyped'
    <3>1. \/ load' = load
          \/ load' = [load EXCEPT ![a] =
                       [load[a] EXCEPT !.step = "read", !.val = store,
                                       !.clean = (Busy = {})]]
      BY <1>1, <2>2 DEF ReadStore, LoadTyped, Snapshots
    <3>2. (Busy = {}) \in BOOLEAN
      OBVIOUS
    <3>3. [load[a] EXCEPT !.step = "read", !.val = store,
                          !.clean = (Busy = {})] \in Snapshots
      BY <1>1, <3>2 DEF LoadTyped, StoreTyped, Snapshots
    <3>4. QED
      BY <1>1, <3>1, <3>3 DEF LoadTyped
  <2>3. ASSUME NEW a \in Agent, SendLoad(a)
        PROVE  LoadTyped'
    <3>1. load' = [load EXCEPT ![a] = [load[a] EXCEPT !.step = "sent"]]
      BY <1>1, <2>3 DEF SendLoad, LoadTyped, Snapshots
    <3>2. [load[a] EXCEPT !.step = "sent"] \in Snapshots
      BY <1>1 DEF LoadTyped, Snapshots
    <3>3. QED
      BY <1>1, <3>1, <3>2 DEF LoadTyped
  <2>4. ASSUME NEW a \in Agent, LoadAnswered(a)
        PROVE  LoadTyped'
    <3>1. PICK id \in Loads : load' = [load EXCEPT ![a] = [NoLoad EXCEPT !.id = id]]
      BY <2>4, Zenon DEF LoadAnswered
    <3>2. [NoLoad EXCEPT !.id = id] \in Snapshots
      BY DEF NoLoad, Snapshots, Definition
    <3>3. QED
      BY <1>1, <3>1, <3>2 DEF LoadTyped
  <2>5. ASSUME NEW a \in Agent,
               \/ LoadTimeout(a) \/ HandlerReturns(a) \/ StreamEnds(a)
               \/ Break(a) \/ Reload(a) \/ Restart(a)
        PROVE  LoadTyped'
    <3>1. load' = [load EXCEPT ![a] = NoLoad]
      BY <2>5, Zenon
         DEF LoadTimeout, HandlerReturns, EndStream, StreamEnds, Break, Reload,
             Restart, Drop
    <3>2. NoLoad \in Snapshots
      BY DEF NoLoad, Snapshots, Loads, Definition
    <3>3. QED
      BY <1>1, <3>1, <3>2 DEF LoadTyped
  <2>6. ASSUME \/ \E e \in Editor, a \in Agent :
                    \/ Ask(e, a) \/ AskFails(e, a) \/ Answered(e, a)
                    \/ Timeout(e, a)
               \/ \E e \in Editor, done \in BOOLEAN : Write(e, done)
               \/ UNCHANGED planVars
        PROVE  LoadTyped'
    <3>1. load' = load
      BY <2>6, Zenon
         DEF Ask, AskFails, Answered, Timeout, Write, Fail, centerVars,
             agentVars, planVars
    <3>2. QED
      BY <1>1, <3>1, Zenon DEF LoadTyped
  <2>7. ASSUME NEW a \in Agent,
               \/ Connect(a) \/ SaveStream(a) \/ SendPing(a)
        PROVE  LoadTyped'
    <3>1. load' = load
      BY <2>7, Zenon
         DEF Connect, SaveStream, SendPing, EndStream, centerVars, agentVars
    <3>2. QED
      BY <1>1, <3>1, Zenon DEF LoadTyped
  <2>8. ASSUME NEW a \in Agent,
               \/ Receive(a) \/ Handle(a) \/ Apply(a) \/ CalcPlanHash(a)
               \/ Reregister(a)
        PROVE  LoadTyped'
    <3>1. load' = load
      BY <2>8, Zenon
         DEF Receive, Handle, Apply, CalcPlanHash, Reregister, Drop,
             centerVars, agentVars
    <3>2. QED
      BY <1>1, <3>1, Zenon DEF LoadTyped
  <2>9. QED
    BY <1>1, <2>1, <2>2, <2>3, <2>4, <2>5, <2>6, <2>7, <2>8, Zenon
       DEF PlanNext

\* the handler goroutines,
LEMMA HandsTypedStep ==
  HandsTyped /\ [PlanNext]_planVars => HandsTyped'
<1>1. SUFFICES ASSUME HandsTyped, [PlanNext]_planVars
               PROVE  HandsTyped'
  OBVIOUS
<1>2. QED
  <2>1. ASSUME NEW a \in Agent, Receive(a) \/ Handle(a)
        PROVE  HandsTyped'
    BY <1>1, <2>1 DEF Receive, Handle, HandsTyped
  <2>2. ASSUME NEW a \in Agent,
               StreamEnds(a) \/ Break(a) \/ Reload(a) \/ Restart(a)
        PROVE  HandsTyped'
    <3>1. hands' = [hands EXCEPT ![a] = 0]
      BY <2>2, Zenon DEF StreamEnds, Break, Reload, Restart, Drop
    <3>2. QED
      BY <1>1, <3>1 DEF HandsTyped
  <2>3. ASSUME \/ \E e \in Editor, v \in Definition : Begin(e, v)
               \/ \E e \in Editor, a \in Agent :
                    \/ Ask(e, a) \/ AskFails(e, a) \/ Answered(e, a)
                    \/ Timeout(e, a)
               \/ \E e \in Editor, done \in BOOLEAN : Write(e, done)
               \/ UNCHANGED planVars
        PROVE  HandsTyped'
    <3>1. hands' = hands
      BY <2>3, Zenon
         DEF Begin, Ask, AskFails, Answered, Timeout, Write, Fail, centerVars,
             agentVars, planVars
    <3>2. QED
      BY <1>1, <3>1, Zenon DEF HandsTyped
  <2>4. ASSUME NEW a \in Agent,
               \/ Connect(a) \/ SaveStream(a) \/ ReadStore(a) \/ SendLoad(a)
               \/ LoadAnswered(a) \/ LoadTimeout(a) \/ HandlerReturns(a)
               \/ SendPing(a)
        PROVE  HandsTyped'
    <3>1. hands' = hands
      BY <2>4, Zenon
         DEF Connect, SaveStream, ReadStore, SendLoad, LoadAnswered,
             LoadTimeout, HandlerReturns, SendPing, EndStream, centerVars,
             agentVars
    <3>2. QED
      BY <1>1, <3>1, Zenon DEF HandsTyped
  <2>5. ASSUME NEW a \in Agent,
               \/ Apply(a) \/ CalcPlanHash(a) \/ Reregister(a)
        PROVE  HandsTyped'
    <3>1. hands' = hands
      BY <2>5, Zenon
         DEF Apply, CalcPlanHash, Reregister, Drop, centerVars, agentVars
    <3>2. QED
      BY <1>1, <3>1, Zenon DEF HandsTyped
  <2>6. QED
    BY <1>1, <2>1, <2>2, <2>3, <2>4, <2>5, Zenon
       DEF PlanNext

\* what is said of an agent,
LEMMA SureTypedStep ==
  SureTyped /\ LoadTyped /\ [PlanNext]_planVars => SureTyped'
<1>1. SUFFICES ASSUME SureTyped, LoadTyped, [PlanNext]_planVars
               PROVE  SureTyped'
  OBVIOUS
<1>2. QED
  <2>1. ASSUME NEW e \in Editor, NEW done \in BOOLEAN, Write(e, done)
        PROVE  SureTyped'
    <3>1. \/ sure' = sure
          \/ sure' = [a \in Agent |-> a \in edit[e].told \intersect edit[e].clean]
      BY <2>1, Zenon DEF Write
    <3>2. \A a \in Agent :
            (a \in edit[e].told \intersect edit[e].clean) \in BOOLEAN
      OBVIOUS
    <3>3. QED
      BY <1>1, <3>1, <3>2, Zenon DEF SureTyped
  <2>2. ASSUME NEW a \in Agent,
               \/ \E e \in Editor : Ask(e, a)
               \/ SendLoad(a) \/ Reload(a) \/ Restart(a)
        PROVE  SureTyped'
    <3>1. sure' = [sure EXCEPT ![a] = FALSE]
      BY <2>2, Zenon DEF Ask, SendLoad, Reload, Restart
    <3>2. QED
      BY <1>1, <3>1 DEF SureTyped
  <2>3. ASSUME NEW a \in Agent, LoadAnswered(a)
        PROVE  SureTyped'
    <3>1. sure' = [sure EXCEPT ![a] = load[a].clean]
      BY <2>3, Zenon DEF LoadAnswered
    <3>2. load[a].clean \in BOOLEAN
      BY <1>1 DEF LoadTyped, Snapshots
    <3>3. QED
      BY <1>1, <3>1, <3>2 DEF SureTyped
  <2>4. ASSUME \/ \E e \in Editor, v \in Definition : Begin(e, v)
               \/ \E e \in Editor, a \in Agent :
                    \/ AskFails(e, a) \/ Answered(e, a) \/ Timeout(e, a)
               \/ UNCHANGED planVars
        PROVE  SureTyped'
    <3>1. sure' = sure
      BY <2>4, Zenon
         DEF Begin, AskFails, Answered, Timeout, Fail, centerVars, agentVars,
             planVars
    <3>2. QED
      BY <1>1, <3>1, Zenon DEF SureTyped
  <2>5. ASSUME NEW a \in Agent,
               \/ Connect(a) \/ SaveStream(a) \/ ReadStore(a)
               \/ LoadTimeout(a) \/ HandlerReturns(a) \/ SendPing(a)
        PROVE  SureTyped'
    <3>1. sure' = sure
      BY <2>5, Zenon
         DEF Connect, SaveStream, ReadStore, LoadTimeout, HandlerReturns,
             SendPing, EndStream, centerVars, agentVars
    <3>2. QED
      BY <1>1, <3>1, Zenon DEF SureTyped
  <2>6. ASSUME NEW a \in Agent,
               \/ Receive(a) \/ Handle(a) \/ Apply(a) \/ CalcPlanHash(a)
               \/ StreamEnds(a) \/ Break(a) \/ Reregister(a)
        PROVE  SureTyped'
    <3>1. sure' = sure
      BY <2>6, Zenon
         DEF Receive, Handle, Apply, CalcPlanHash, StreamEnds, Break,
             Reregister, Drop, centerVars, agentVars
    <3>2. QED
      BY <1>1, <3>1, Zenon DEF SureTyped
  <2>7. QED
    BY <1>1, <2>1, <2>2, <2>3, <2>4, <2>5, <2>6, Zenon
       DEF PlanNext

\* the bounded events,
LEMMA SpentTypedStep ==
  SpentTyped /\ [PlanNext]_planVars => SpentTyped'
<1>1. SUFFICES ASSUME SpentTyped, [PlanNext]_planVars
               PROVE  SpentTyped'
  OBVIOUS
<1>2. QED
  <2>1. ASSUME NEW a \in Agent, SendPing(a)
        PROVE  SpentTyped'
    BY <1>1, <2>1, PlanAssumption DEF SendPing, SpentTyped
  <2>2. ASSUME NEW a \in Agent,
               \/ LoadTimeout(a) \/ Break(a) \/ Reload(a) \/ Restart(a)
               \/ Reregister(a)
        PROVE  SpentTyped'
    <3>1. /\ spent.breaks < MaxBreaks
          /\ spent' = [spent EXCEPT !.breaks = @ + 1]
      BY <2>2, Zenon DEF LoadTimeout, Break, Reload, Restart, Reregister
    <3>2. QED
      BY <1>1, <3>1, PlanAssumption DEF SpentTyped
  <2>3. ASSUME \/ \E e \in Editor, v \in Definition : Begin(e, v)
               \/ \E e \in Editor, a \in Agent :
                    \/ Ask(e, a) \/ AskFails(e, a) \/ Answered(e, a)
                    \/ Timeout(e, a)
               \/ \E e \in Editor, done \in BOOLEAN : Write(e, done)
               \/ UNCHANGED planVars
        PROVE  SpentTyped'
    <3>1. spent' = spent
      BY <2>3, Zenon
         DEF Begin, Ask, AskFails, Answered, Timeout, Write, Fail, centerVars,
             agentVars, planVars
    <3>2. QED
      BY <1>1, <3>1, Zenon DEF SpentTyped
  <2>4. ASSUME NEW a \in Agent,
               \/ Connect(a) \/ SaveStream(a) \/ ReadStore(a) \/ SendLoad(a)
               \/ LoadAnswered(a) \/ HandlerReturns(a)
        PROVE  SpentTyped'
    <3>1. spent' = spent
      BY <2>4, Zenon
         DEF Connect, SaveStream, ReadStore, SendLoad, LoadAnswered,
             HandlerReturns, EndStream, centerVars, agentVars
    <3>2. QED
      BY <1>1, <3>1, Zenon DEF SpentTyped
  <2>5. ASSUME NEW a \in Agent,
               \/ Receive(a) \/ Handle(a) \/ Apply(a) \/ CalcPlanHash(a)
               \/ StreamEnds(a)
        PROVE  SpentTyped'
    <3>1. spent' = spent
      BY <2>5, Zenon
         DEF Receive, Handle, Apply, CalcPlanHash, StreamEnds, Drop,
             centerVars, agentVars
    <3>2. QED
      BY <1>1, <3>1, Zenon DEF SpentTyped
  <2>6. QED
    BY <1>1, <2>1, <2>2, <2>3, <2>4, <2>5, Zenon
       DEF PlanNext

\* and an agent's places.
LEMMA WiresTypedStep ==
  WiresTyped /\ EditTyped /\ LoadTyped /\ [PlanNext]_planVars => WiresTyped'
<1>1. SUFFICES ASSUME WiresTyped, EditTyped, LoadTyped, [PlanNext]_planVars
               PROVE  WiresTyped'
  OBVIOUS
<1>2. QED
  <2> USE <1>1 DEF WiresTyped
  <2>1. ASSUME NEW a \in Agent, NEW x \in Event,
               wire' = [wire EXCEPT ![a] = Append(@, x)],
               UNCHANGED <<stream, doomed, replies, inbox, cell, table, hash,
                           due>>
        PROVE  WiresTyped'
    <3>1. Append(wire[a], x) \in Seq(Event)
      OBVIOUS
    <3>2. QED
      BY <2>1, <3>1
  <2>2. ASSUME NEW e \in Editor, NEW a \in Agent, Ask(e, a)
        PROVE  WiresTyped'
    <3>1. [from |-> e, val |-> edit[e].val] \in Event
      BY AuthorsAreNoPings DEF Event, EditTyped, Edits
    <3>2. QED
      BY <2>1, <2>2, <3>1, Zenon DEF Ask, agentVars
  <2>3. ASSUME NEW a \in Agent, SendLoad(a)
        PROVE  WiresTyped'
    <3>1. [from |-> load[a].id, val |-> load[a].val] \in Event
      BY AuthorsAreNoPings DEF Event, LoadTyped, Snapshots
    <3>2. QED
      BY <2>1, <2>3, <3>1, Zenon DEF SendLoad, agentVars
  <2>4. ASSUME NEW a \in Agent, SendPing(a)
        PROVE  WiresTyped'
    BY <2>1, <2>4, AuthorsAreNoPings, Zenon DEF SendPing, agentVars
  <2>5. ASSUME NEW e \in Editor, NEW a \in Agent, Answered(e, a) \/ Timeout(e, a)
        PROVE  WiresTyped'
    <3>1. /\ replies' = [replies EXCEPT ![a] = @ \ {e}]
          /\ \/ doomed' = doomed
             \/ doomed' = [doomed EXCEPT
                             ![a] = @ \/ (Open(a) /\ a \notin edit[e].lost)]
          /\ UNCHANGED <<stream, wire, inbox, cell, table, hash, due>>
      BY <2>5, Zenon DEF Answered, Timeout, Fail, agentVars
    <3>2. doomed' \in [Agent -> BOOLEAN]
      BY <3>1
    <3>3. replies' \in [Agent -> SUBSET Source]
      BY <3>1
    <3>4. QED
      BY <3>1, <3>2, <3>3, Zenon
  <2>6. ASSUME NEW a \in Agent, LoadAnswered(a)
        PROVE  WiresTyped'
    <3>1. /\ stream' = [stream EXCEPT ![a] = "up"]
          /\ replies' = [replies EXCEPT ![a] = @ \ {load[a].id}]
          /\ UNCHANGED <<doomed, wire, inbox, cell, table, hash, due>>
      BY <2>6, Zenon DEF LoadAnswered, agentVars
    <3>2. QED
      BY <3>1
  <2>7. ASSUME NEW a \in Agent,
               \/ Connect(a) \/ SaveStream(a) \/ ReadStore(a)
               \/ LoadTimeout(a) \/ HandlerReturns(a) \/ Reregister(a)
        PROVE  WiresTyped'
    <3>1. /\ \/ stream' = stream
             \/ \E p \in {"new", "saved", "up", "ending"} :
                  stream' = [stream EXCEPT ![a] = p]
          /\ doomed' = doomed \/ doomed' = [doomed EXCEPT ![a] = FALSE]
          /\ UNCHANGED <<wire, replies, inbox, cell, table, hash, due>>
      BY <2>7
         DEF Connect, SaveStream, ReadStore, LoadTimeout, HandlerReturns,
             EndStream, Reregister, agentVars
    <3>2. stream' \in [Agent -> {"down", "new", "saved", "up", "ending"}]
      BY <3>1
    <3>3. doomed' \in [Agent -> BOOLEAN]
      BY <3>1
    <3>4. QED
      BY <3>1, <3>2, <3>3, Zenon
  <2>8. ASSUME NEW a \in Agent, Receive(a)
        PROVE  WiresTyped'
    <3>1. Head(wire[a]) \in Event /\ Tail(wire[a]) \in Seq(Event)
      BY <2>8 DEF Receive
    <3>2. QED
      BY <2>8, <3>1 DEF Receive
  <2>9. ASSUME NEW a \in Agent, Handle(a)
        PROVE  WiresTyped'
    <3>1. /\ UNCHANGED <<stream, doomed, wire, cell, table, hash, due>>
          /\ \/ inbox' = inbox
             \/ inbox' = [inbox EXCEPT ![a] = Append(@, cell[a].val)]
          /\ \/ replies' = replies
             \/ replies' = [replies EXCEPT ![a] = @ \union {cell[a].from}]
      BY <2>9, Zenon DEF Handle
    <3>2. cell[a].val \in Definition /\ cell[a].from \in Source
      BY DEF Event
    <3>3. /\ Append(inbox[a], cell[a].val) \in Seq(Definition)
          /\ replies[a] \union {cell[a].from} \in SUBSET Source
      BY <3>2
    <3>4. inbox' \in [Agent -> Seq(Definition)]
      BY <3>1, <3>3
    <3>5. replies' \in [Agent -> SUBSET Source]
      BY <3>1, <3>3
    <3>6. QED
      BY <3>1, <3>4, <3>5, Zenon
  <2>10. ASSUME NEW a \in Agent, Apply(a)
         PROVE  WiresTyped'
    <3>1. /\ inbox' = [inbox EXCEPT ![a] = Tail(@)]
          /\ table' = [table EXCEPT ![a] = Effect(Head(inbox[a]))]
          /\ due' = [due EXCEPT ![a] = TRUE]
          /\ inbox[a] # <<>>
          /\ UNCHANGED <<stream, doomed, wire, cell, replies, hash>>
      BY <2>10, Zenon DEF Apply
    <3>2. /\ Tail(inbox[a]) \in Seq(Definition)
          /\ Effect(Head(inbox[a])) \in Started \union {"gone"}
      BY <3>1, EffectTyped
    <3>3. QED
      BY <3>1, <3>2
  <2>11. ASSUME NEW a \in Agent, CalcPlanHash(a)
         PROVE  WiresTyped'
    BY <2>11 DEF CalcPlanHash
  <2>12. ASSUME NEW a \in Agent,
                StreamEnds(a) \/ Break(a) \/ Reload(a) \/ Restart(a)
         PROVE  WiresTyped'
    <3>1. /\ stream' = [stream EXCEPT ![a] = "down"]
          /\ doomed' = [doomed EXCEPT ![a] = FALSE]
          /\ wire' = [wire EXCEPT ![a] = <<>>]
          /\ cell' = [cell EXCEPT ![a] = Nothing]
          /\ replies' = [replies EXCEPT ![a] = {}]
      BY <2>12, Zenon DEF StreamEnds, Break, Reload, Restart, Drop
    <3>2. /\ inbox' = inbox \/ inbox' = [inbox EXCEPT ![a] = <<>>]
          /\ table' = table \/ table' = [table EXCEPT ![a] = "gone"]
          /\ hash' = hash \/ hash' = [hash EXCEPT ![a] = "gone"]
          /\ due' = due \/ due' = [due EXCEPT ![a] = FALSE]
      BY <2>12, Zenon DEF StreamEnds, Break, Reload, Restart
    <3>3. <<>> \in Seq(Event) /\ <<>> \in Seq(Definition)
      OBVIOUS
    <3>4. /\ stream' \in [Agent -> {"down", "new", "saved", "up", "ending"}]
          /\ doomed' \in [Agent -> BOOLEAN]
          /\ wire' \in [Agent -> Seq(Event)] /\ cell' \in [Agent -> Event]
          /\ replies' \in [Agent -> SUBSET Source]
      BY <3>1, <3>3, AuthorsAreNoPings
    <3>5. inbox' \in [Agent -> Seq(Definition)]
      BY <3>2, <3>3
    <3>6. /\ table' \in [Agent -> Started \union {"gone"}]
          /\ hash' \in [Agent -> Started \union {"gone"}]
      BY <3>2
    <3>7. due' \in [Agent -> BOOLEAN]
      BY <3>2
    <3>8. QED
      BY <3>4, <3>5, <3>6, <3>7, Zenon
  <2>13. ASSUME \/ \E e \in Editor, v \in Definition : Begin(e, v)
                \/ \E e \in Editor, a \in Agent : AskFails(e, a)
                \/ \E e \in Editor, done \in BOOLEAN : Write(e, done)
                \/ UNCHANGED planVars
         PROVE  WiresTyped'
    <3>1. UNCHANGED <<stream, doomed, wire, replies, inbox, cell, table, hash,
                      due>>
      BY <2>13, Zenon
         DEF Begin, AskFails, Fail, Write, agentVars, planVars
    <3>2. QED
      BY <3>1
  <2> HIDE DEF WiresTyped
  <2>14. QED
    BY <2>2, <2>3, <2>4, <2>5, <2>6, <2>7, <2>8, <2>9, <2>10, <2>11, <2>12,
       <2>13, Zenon
       DEF PlanNext

\* A step keeps what has been said of an agent's places.
Keeps(b) ==
  /\ \A v : QuietAt(b, v) =>
       Quiet(wire'[b], cell'[b], hands'[b], inbox'[b], table'[b], v)
  /\ \A src \in Author : UnknownAt(b, src) =>
       Unknown(wire'[b], cell'[b], replies'[b], src)
  /\ \A src \in Author, v \in Definition : LastAt(b, src, v) =>
       Last(wire'[b], cell'[b], hands'[b], inbox'[b], table'[b], replies'[b],
            src, v)

\* The steps that change an agent's places otherwise.
Moves(b) ==
  \/ \E e \in Editor : Ask(e, b)
  \/ SendLoad(b) \/ Reload(b) \/ Restart(b)

\* A step leaves an agent's places alone, but for answers the center takes.
Alike(b) ==
  /\ wire'[b] = wire[b] /\ cell'[b] = cell[b] /\ hands'[b] = hands[b]
  /\ inbox'[b] = inbox[b] /\ table'[b] = table[b]
  /\ replies'[b] \subseteq replies[b]

\* Then it keeps what has been said of them;
LEMMA SameKeeps ==
  ASSUME NEW b, Alike(b)
  PROVE  Keeps(b)
<1>1. /\ \A src : Unknown(wire[b], cell[b], replies[b], src) =>
           Unknown(wire[b], cell[b], replies'[b], src)
      /\ \A src, v :
           Last(wire[b], cell[b], hands[b], inbox[b], table[b], replies[b], src, v)
           => Last(wire[b], cell[b], hands[b], inbox[b], table[b], replies'[b],
                   src, v)
  BY AnswerTakenKeeps, Zenon DEF Alike
<1>2. QED
  BY <1>1, Zenon DEF Alike, Keeps, QuietAt, UnknownAt, LastAt

\* so does the end of a stream,
LEMMA DroppedKeeps ==
  ASSUME NEW b, wire'[b] = <<>>, cell'[b] = Nothing, hands'[b] = 0,
         inbox'[b] = inbox[b], table'[b] = table[b], replies'[b] = {}
  PROVE  Keeps(b)
BY DropKeeps, Zenon DEF Keeps, QuietAt, UnknownAt, LastAt

\* and so does a handler goroutine.
LEMMA HandledKeeps ==
  ASSUME NEW b, cell[b] \in Event, inbox[b] \in Seq(Definition),
         Handling(cell[b], hands[b], inbox[b], replies[b], inbox'[b],
                  replies'[b])
  PROVE  wire'[b] = wire[b] /\ cell'[b] = cell[b] /\ table'[b] = table[b]
           => Keeps(b)
<1>1. \A w, t, g, v : Quiet(w, cell[b], hands[b], inbox[b], t, v) =>
        Quiet(w, cell[b], g, inbox'[b], t, v)
  BY HandleKeeps, Zenon
<1>2. \A w, src : Unknown(w, cell[b], replies[b], src) =>
        Unknown(w, cell[b], replies'[b], src)
  BY HandleKeeps, Zenon
<1>3. \A w, t, g : \A src \in Author, v \in Definition :
        Last(w, cell[b], hands[b], inbox[b], t, replies[b], src, v)
        => Last(w, cell[b], g, inbox'[b], t, replies'[b], src, v)
  BY HandleKeeps, Zenon
<1>4. QED
  BY <1>1, <1>2, <1>3, Zenon DEF Keeps, QuietAt, UnknownAt, LastAt

\* Most steps leave an agent's places alone: all of a call but the asking,
LEMMA CallsAlone ==
  ASSUME PlanTyped, NEW b \in Agent,
         \/ \E e \in Editor, v \in Definition : Begin(e, v)
         \/ \E e \in Editor, a \in Agent :
              Ask(e, a) \/ AskFails(e, a) \/ Answered(e, a) \/ Timeout(e, a)
         \/ \E e \in Editor, done \in BOOLEAN : Write(e, done)
         \/ UNCHANGED planVars
  PROVE  Alike(b) \/ \E e \in Editor : Ask(e, b)
<1>1. ASSUME \/ \E e \in Editor, v \in Definition : Begin(e, v)
             \/ \E e \in Editor, a \in Agent : AskFails(e, a)
             \/ \E e \in Editor, done \in BOOLEAN : Write(e, done)
             \/ UNCHANGED planVars
      PROVE  Alike(b)
  <2>1. UNCHANGED <<wire, cell, hands, inbox, table>>
    BY <1>1, Zenon DEF Begin, AskFails, Fail, Write, agentVars, planVars
  <2>2. replies' = replies
    BY <1>1, Zenon DEF Begin, AskFails, Write, planVars
  <2>3. QED
    BY <2>1, <2>2 DEF Alike
<1>2. ASSUME NEW e \in Editor, NEW a \in Agent, Answered(e, a) \/ Timeout(e, a)
      PROVE  Alike(b)
  <2>1. /\ UNCHANGED <<wire, cell, hands, inbox, table>>
        /\ replies' = [replies EXCEPT ![a] = @ \ {e}]
    BY <1>2, Zenon DEF Answered, Timeout, Fail, agentVars
  <2>2. QED
    BY <2>1 DEF Alike, PlanTyped, WiresTyped
<1>3. ASSUME NEW e \in Editor, NEW a \in Agent, Ask(e, a), a # b
      PROVE  Alike(b)
  BY <1>3 DEF Ask, agentVars, Alike, PlanTyped, WiresTyped
<1>4. QED
  BY <1>1, <1>2, <1>3, Zenon

\* and of the stream, but a message of it;
LEMMA CenterAlone ==
  ASSUME PlanTyped, NEW b \in Agent, NEW a \in Agent,
         \/ Connect(a) \/ SaveStream(a) \/ ReadStore(a) \/ SendLoad(a)
         \/ LoadAnswered(a) \/ LoadTimeout(a) \/ HandlerReturns(a)
         \/ SendPing(a) \/ Reregister(a)
  PROVE  Alike(b) \/ (a = b /\ (SendLoad(b) \/ SendPing(b)))
<1>1. ASSUME \/ Connect(a) \/ SaveStream(a) \/ ReadStore(a) \/ LoadTimeout(a)
             \/ HandlerReturns(a) \/ Reregister(a)
      PROVE  Alike(b)
  <2>1. UNCHANGED <<wire, cell, hands, inbox, table, replies>>
    BY <1>1, Zenon
       DEF Connect, SaveStream, ReadStore, LoadTimeout, HandlerReturns,
           EndStream, Reregister, agentVars
  <2>2. QED
    BY <2>1 DEF Alike
<1>2. ASSUME LoadAnswered(a) PROVE Alike(b)
  BY <1>2 DEF LoadAnswered, agentVars, Alike, PlanTyped, WiresTyped
<1>3. ASSUME SendLoad(a) \/ SendPing(a), a # b PROVE Alike(b)
  <2>1. /\ \E x : wire' = [wire EXCEPT ![a] = Append(@, x)]
        /\ UNCHANGED <<cell, hands, inbox, table, replies>>
    BY <1>3, Zenon DEF SendLoad, SendPing, agentVars
  <2>2. QED
    BY <1>3, <2>1 DEF Alike, PlanTyped, WiresTyped
<1>4. QED
  BY <1>1, <1>2, <1>3, Zenon

\* another agent's steps do so as well.
LEMMA OthersAlone ==
  ASSUME PlanTyped, NEW b \in Agent, NEW a \in Agent, a # b,
         \/ Receive(a) \/ Handle(a) \/ Apply(a) \/ StreamEnds(a) \/ Break(a)
         \/ Reload(a) \/ Restart(a)
  PROVE  Alike(b)
<1> USE DEF Alike, PlanTyped, WiresTyped, HandsTyped
<1>1. CASE Receive(a)
  BY <1>1 DEF Receive
<1>2. CASE Handle(a)
  BY <1>2 DEF Handle
<1>3. CASE Apply(a)
  BY <1>3 DEF Apply
<1>4. CASE StreamEnds(a) \/ Break(a)
  BY <1>4 DEF StreamEnds, Break, Drop
<1>5. CASE Reload(a)
  BY <1>5 DEF Reload, Drop
<1>6. CASE Restart(a)
  BY <1>6 DEF Restart, Drop
<1>7. QED
  BY <1>1, <1>2, <1>3, <1>4, <1>5, <1>6

\* Every other step keeps what has been said of the places.
LEMMA StepKeeps ==
  ASSUME PlanTyped, [PlanNext]_planVars, NEW b \in Agent
  PROVE  Keeps(b) \/ Moves(b)
<1> USE DEF PlanTyped, WiresTyped, HandsTyped
<1>1. ASSUME \/ \E e \in Editor, v \in Definition : Begin(e, v)
             \/ \E e \in Editor, a \in Agent :
                  Ask(e, a) \/ AskFails(e, a) \/ Answered(e, a) \/ Timeout(e, a)
             \/ \E e \in Editor, done \in BOOLEAN : Write(e, done)
             \/ UNCHANGED planVars
      PROVE  Keeps(b) \/ Moves(b)
  BY <1>1, CallsAlone, SameKeeps, Zenon DEF Moves
<1>2. ASSUME SendPing(b) PROVE Keeps(b)
  <2>1. /\ wire[b] \in Seq(Event) /\ wire'[b] = Append(wire[b], Ping)
        /\ cell'[b] = cell[b] /\ hands'[b] = hands[b]
        /\ inbox'[b] = inbox[b] /\ table'[b] = table[b]
        /\ replies'[b] = replies[b]
    BY <1>2 DEF SendPing, agentVars
  <2>2. QED
    BY <2>1, PingKeeps, Zenon DEF Keeps, QuietAt, UnknownAt, LastAt
<1>3. ASSUME NEW a \in Agent,
             \/ Connect(a) \/ SaveStream(a) \/ ReadStore(a) \/ SendLoad(a)
             \/ LoadAnswered(a) \/ LoadTimeout(a) \/ HandlerReturns(a)
             \/ SendPing(a) \/ Reregister(a)
      PROVE  Keeps(b) \/ Moves(b)
  BY <1>2, <1>3, CenterAlone, SameKeeps, Zenon DEF Moves
<1>4. ASSUME NEW a \in Agent, a # b,
             \/ Receive(a) \/ Handle(a) \/ Apply(a) \/ StreamEnds(a)
             \/ Break(a) \/ Reload(a) \/ Restart(a)
      PROVE  Keeps(b)
  BY <1>4, OthersAlone, SameKeeps, Zenon
<1>5. ASSUME Receive(b) PROVE Keeps(b)
  <2>1. /\ wire[b] # <<>> /\ wire[b] \in Seq(Event)
        /\ wire'[b] = Tail(wire[b]) /\ cell'[b] = Head(wire[b])
        /\ hands'[b] = hands[b] + 1 /\ inbox'[b] = inbox[b]
        /\ table'[b] = table[b] /\ replies'[b] = replies[b]
    BY <1>5 DEF Receive
  <2>2. QED
    BY <2>1, ReceiveKeeps, Zenon DEF Keeps, QuietAt, UnknownAt, LastAt
<1>6. ASSUME Handle(b) PROVE Keeps(b)
  <2>1. /\ hands[b] > 0 /\ wire'[b] = wire[b] /\ cell'[b] = cell[b]
        /\ table'[b] = table[b]
    BY <1>6 DEF Handle
  <2>2. inbox'[b] = IF cell[b].from = "ping"
                      THEN inbox[b] ELSE Append(inbox[b], cell[b].val)
    BY <1>6 DEF Handle
  <2>3. \/ replies' = replies
        \/ replies' = [replies EXCEPT ![b] = @ \union {cell[b].from}]
    BY <1>6, Zenon DEF Handle
  <2>4. \/ replies'[b] = replies[b]
        \/ replies'[b] = replies[b] \union {cell[b].from}
    BY <2>3
  <2>5. cell[b] \in Event /\ inbox[b] \in Seq(Definition)
    OBVIOUS
  <2>6. Handling(cell[b], hands[b], inbox[b], replies[b], inbox'[b], replies'[b])
    BY <2>1, <2>2, <2>4, Zenon DEF Handling
  <2>7. QED
    BY <2>1, <2>5, <2>6, HandledKeeps, Zenon
<1>7. ASSUME Apply(b) PROVE Keeps(b)
  <2>1. /\ inbox[b] # <<>> /\ inbox[b] \in Seq(Definition)
        /\ wire'[b] = wire[b] /\ cell'[b] = cell[b]
        /\ hands'[b] = hands[b] /\ inbox'[b] = Tail(inbox[b])
        /\ table'[b] = Effect(Head(inbox[b])) /\ replies'[b] = replies[b]
    BY <1>7 DEF Apply
  <2>2. QED
    BY <2>1, ApplyKeeps, Zenon DEF Keeps, QuietAt, UnknownAt, LastAt
<1>8. ASSUME NEW a \in Agent, CalcPlanHash(a) PROVE Keeps(b)
  <2>1. UNCHANGED <<wire, cell, hands, inbox, table, replies>>
    BY <1>8, Zenon DEF CalcPlanHash
  <2>2. Alike(b)
    BY <2>1 DEF Alike
  <2>3. QED
    BY <2>2, SameKeeps
<1>9. ASSUME StreamEnds(b) \/ Break(b) PROVE Keeps(b)
  <2>1. /\ wire'[b] = <<>> /\ cell'[b] = Nothing /\ hands'[b] = 0
        /\ inbox'[b] = inbox[b] /\ table'[b] = table[b] /\ replies'[b] = {}
    BY <1>9 DEF StreamEnds, Break, Drop
  <2>2. QED
    BY <2>1, DroppedKeeps, Zenon
<1>10. ASSUME NEW a \in Agent,
              \/ Receive(a) \/ Handle(a) \/ Apply(a) \/ CalcPlanHash(a)
              \/ StreamEnds(a) \/ Break(a) \/ Reload(a) \/ Restart(a)
       PROVE  Keeps(b) \/ Moves(b)
  BY <1>4, <1>5, <1>6, <1>7, <1>8, <1>9, <1>10, Zenon DEF Moves
<1>11. QED
  BY <1>1, <1>3, <1>10, Zenon DEF PlanNext

\* The end of an agent's side changes an edit only in what it has lost.
LEMMA DropEdits ==
  ASSUME EditTyped, NEW a \in Agent, NEW C, Drop(a, C)
  PROVE  \A f \in Editor :
           /\ edit'[f].step = edit[f].step /\ edit'[f].val = edit[f].val
           /\ edit'[f].todo = edit[f].todo /\ edit'[f].asked = edit[f].asked
           /\ edit'[f].told = edit[f].told
           /\ edit'[f].clean = edit[f].clean \intersect C
BY DEF EditTyped, Edits, Drop

\* So does the reading of the store.
LEMMA ReadEdits ==
  ASSUME EditTyped, NEW a \in Agent, ReadStore(a)
  PROVE  \A f \in Editor :
           /\ edit'[f].step = edit[f].step /\ edit'[f].val = edit[f].val
           /\ edit'[f].todo = edit[f].todo /\ edit'[f].asked = edit[f].asked
           /\ edit'[f].told = edit[f].told
           /\ edit'[f].clean \subseteq edit[f].clean
           /\ load'[a].step # load[a].step => a \notin edit'[f].clean
<1>1. CASE store = "gone"
  BY <1>1, Zenon DEF ReadStore
<1>2. CASE store # "gone"
  <2>1. edit' = [e \in Editor |-> [edit[e] EXCEPT !.clean = @ \ {a}]]
    BY <1>2, Zenon DEF ReadStore
  <2>2. QED
    BY <2>1 DEF EditTyped, Edits
<1>3. QED
  BY <1>1, <1>2

\* Every step keeps the calls in turn.
LEMMA EditsInTurnStep ==
  EditsInTurn /\ EditTyped /\ LoadTyped /\ [PlanNext]_planVars => EditsInTurn'
<1>1. SUFFICES ASSUME EditsInTurn, EditTyped, LoadTyped, [PlanNext]_planVars
               PROVE  EditsInTurn'
  OBVIOUS
<1>2. QED
  <2> USE <1>1
          DEF EditsInTurn, EditTyped, Edits, LoadTyped, Snapshots, Busy, NoEdit,
              Over, NoLoad, Loads
  <2>1. ASSUME NEW e \in Editor, NEW v \in Definition, Begin(e, v)
        PROVE  EditsInTurn'
    BY <2>1 DEF Busy, Begin, centerVars, agentVars
  <2>2. ASSUME NEW e \in Editor, NEW a \in Agent, Ask(e, a)
        PROVE  EditsInTurn'
    BY <2>2 DEF Ask, centerVars, agentVars
  <2>3. ASSUME NEW e \in Editor, NEW a \in Agent, AskFails(e, a)
        PROVE  EditsInTurn'
    BY <2>3 DEF AskFails, Fail, centerVars, agentVars
  <2>4. ASSUME NEW e \in Editor, NEW a \in Agent, Answered(e, a)
        PROVE  EditsInTurn'
    BY <2>4 DEF Answered, centerVars, agentVars
  <2>5. ASSUME NEW e \in Editor, NEW a \in Agent, Timeout(e, a)
        PROVE  EditsInTurn'
    BY <2>5 DEF Timeout, Fail, centerVars, agentVars
  <2>6. ASSUME NEW e \in Editor, NEW done \in BOOLEAN, Write(e, done)
        PROVE  EditsInTurn'
    BY <2>6 DEF Write, centerVars, agentVars
  <2>7. ASSUME NEW a \in Agent, Connect(a)
        PROVE  EditsInTurn'
    BY <2>7 DEF Connect, centerVars, agentVars
  <2>8. ASSUME NEW a \in Agent, SaveStream(a)
        PROVE  EditsInTurn'
    BY <2>8 DEF SaveStream, centerVars, agentVars
  <2>9. ASSUME NEW a \in Agent, ReadStore(a)
        PROVE  EditsInTurn'
    <3>1. \A b \in Agent : b # a => load'[b].step = load[b].step
      BY <2>9 DEF ReadStore
    <3>2. QED
      BY <2>9, <3>1, ReadEdits DEF Busy
  <2>10. ASSUME NEW a \in Agent, SendLoad(a)
        PROVE  EditsInTurn'
    BY <2>10 DEF SendLoad, centerVars, agentVars
  <2>11. ASSUME NEW a \in Agent, LoadAnswered(a)
        PROVE  EditsInTurn'
    BY <2>11 DEF LoadAnswered, centerVars, agentVars
  <2>12. ASSUME NEW a \in Agent, LoadTimeout(a)
        PROVE  EditsInTurn'
    BY <2>12 DEF LoadTimeout, EndStream, centerVars, agentVars
  <2>13. ASSUME NEW a \in Agent, HandlerReturns(a)
        PROVE  EditsInTurn'
    BY <2>13 DEF HandlerReturns, EndStream, centerVars, agentVars
  <2>14. ASSUME NEW a \in Agent, SendPing(a)
        PROVE  EditsInTurn'
    BY <2>14 DEF SendPing, centerVars, agentVars
  <2>15. ASSUME NEW a \in Agent, Receive(a)
        PROVE  EditsInTurn'
    BY <2>15 DEF Receive, centerVars, agentVars
  <2>16. ASSUME NEW a \in Agent, Handle(a)
        PROVE  EditsInTurn'
    BY <2>16 DEF Handle, centerVars, agentVars
  <2>17. ASSUME NEW a \in Agent, Apply(a)
        PROVE  EditsInTurn'
    BY <2>17 DEF Apply, centerVars, agentVars
  <2>18. ASSUME NEW a \in Agent, CalcPlanHash(a)
        PROVE  EditsInTurn'
    BY <2>18 DEF CalcPlanHash, centerVars, agentVars
  <2>19. ASSUME NEW a \in Agent, StreamEnds(a)
        PROVE  EditsInTurn'
    <3>1. load' = [load EXCEPT ![a] = NoLoad]
      BY <2>19, Zenon DEF StreamEnds, Drop
    <3>2. \A b \in Agent : load'[b].step = "none" \/ load'[b].step = load[b].step
      BY <3>1 DEF NoLoad
    <3>3. \A f \in Editor :
            /\ edit'[f].step = edit[f].step
            /\ edit'[f].todo = edit[f].todo /\ edit'[f].asked = edit[f].asked
            /\ edit'[f].told = edit[f].told
            /\ edit'[f].clean \subseteq edit[f].clean
      <4>1. \E C : Drop(a, C)
        BY <2>19, Zenon DEF StreamEnds
      <4>2. QED
        BY <4>1, DropEdits
    <3>4. QED
      BY <3>2, <3>3 DEF Busy
  <2>20. ASSUME NEW a \in Agent, Break(a)
        PROVE  EditsInTurn'
    <3>1. load' = [load EXCEPT ![a] = NoLoad]
      BY <2>20, Zenon DEF Break, Drop
    <3>2. \A b \in Agent : load'[b].step = "none" \/ load'[b].step = load[b].step
      BY <3>1 DEF NoLoad
    <3>3. \A f \in Editor :
            /\ edit'[f].step = edit[f].step
            /\ edit'[f].todo = edit[f].todo /\ edit'[f].asked = edit[f].asked
            /\ edit'[f].told = edit[f].told
            /\ edit'[f].clean \subseteq edit[f].clean
      <4>1. \E C : Drop(a, C)
        BY <2>20, Zenon DEF Break
      <4>2. QED
        BY <4>1, DropEdits
    <3>4. QED
      BY <3>2, <3>3 DEF Busy
  <2>21. ASSUME NEW a \in Agent, Reload(a)
        PROVE  EditsInTurn'
    <3>1. load' = [load EXCEPT ![a] = NoLoad]
      BY <2>21, Zenon DEF Reload, Drop
    <3>2. \A b \in Agent : load'[b].step = "none" \/ load'[b].step = load[b].step
      BY <3>1 DEF NoLoad
    <3>3. \A f \in Editor :
            /\ edit'[f].step = edit[f].step
            /\ edit'[f].todo = edit[f].todo /\ edit'[f].asked = edit[f].asked
            /\ edit'[f].told = edit[f].told
            /\ edit'[f].clean \subseteq edit[f].clean
      <4>1. \E C : Drop(a, C)
        BY <2>21, Zenon DEF Reload
      <4>2. QED
        BY <4>1, DropEdits
    <3>4. QED
      BY <3>2, <3>3 DEF Busy
  <2>22. ASSUME NEW a \in Agent, Restart(a)
        PROVE  EditsInTurn'
    <3>1. load' = [load EXCEPT ![a] = NoLoad]
      BY <2>22, Zenon DEF Restart, Drop
    <3>2. \A b \in Agent : load'[b].step = "none" \/ load'[b].step = load[b].step
      BY <3>1 DEF NoLoad
    <3>3. \A f \in Editor :
            /\ edit'[f].step = edit[f].step
            /\ edit'[f].todo = edit[f].todo /\ edit'[f].asked = edit[f].asked
            /\ edit'[f].told = edit[f].told
            /\ edit'[f].clean \subseteq edit[f].clean
      <4>1. \E C : Drop(a, C)
        BY <2>22, Zenon DEF Restart
      <4>2. QED
        BY <4>1, DropEdits
    <3>4. QED
      BY <3>2, <3>3 DEF Busy
  <2>23. ASSUME NEW a \in Agent, Reregister(a)
        PROVE  EditsInTurn'
    BY <2>23 DEF Reregister, centerVars, agentVars
  <2>24. CASE UNCHANGED planVars
    BY <2>24 DEF planVars, centerVars, agentVars
  <2> HIDE DEF EditsInTurn
  <2> QED
    BY <2>1, <2>2, <2>3, <2>4, <2>5, <2>6, <2>7, <2>8, <2>9, <2>10,
       <2>11, <2>12, <2>13, <2>14, <2>15, <2>16, <2>17, <2>18, <2>19, <2>20,
       <2>21, <2>22, <2>23, <2>24, Zenon
       DEF PlanNext

\* Whom a call has not asked, it had not.
LEMMA EditsAsk ==
  ASSUME EditTyped, EditsInTurn, [PlanNext]_planVars,
         NEW f \in Editor, NEW b \in Agent
  PROVE  edit'[f].step = "before" \/ b \in edit'[f].todo =>
           edit[f].step = "before" \/ b \in edit[f].todo
<1> DEFINE Goal ==
           edit'[f].step = "before" \/ b \in edit'[f].todo =>
           edit[f].step = "before" \/ b \in edit[f].todo
<1>1. Goal
  <2> USE EditTyped, EditsInTurn DEF EditTyped, Edits, EditsInTurn, NoEdit, Over
  <2>1. ASSUME NEW e \in Editor, NEW v \in Definition, Begin(e, v)
        PROVE  Goal
    BY <2>1 DEF Begin, centerVars, agentVars
  <2>2. ASSUME NEW e \in Editor, NEW a \in Agent, Ask(e, a)
        PROVE  Goal
    BY <2>2 DEF Ask, centerVars, agentVars
  <2>3. ASSUME NEW e \in Editor, NEW a \in Agent, AskFails(e, a)
        PROVE  Goal
    BY <2>3 DEF AskFails, Fail, centerVars, agentVars
  <2>4. ASSUME NEW e \in Editor, NEW a \in Agent, Answered(e, a)
        PROVE  Goal
    BY <2>4 DEF Answered, centerVars, agentVars
  <2>5. ASSUME NEW e \in Editor, NEW a \in Agent, Timeout(e, a)
        PROVE  Goal
    BY <2>5 DEF Timeout, Fail, centerVars, agentVars
  <2>6. ASSUME NEW e \in Editor, NEW done \in BOOLEAN, Write(e, done)
        PROVE  Goal
    BY <2>6 DEF Write, centerVars, agentVars
  <2>7. ASSUME NEW a \in Agent, Connect(a)
        PROVE  Goal
    <3>1. edit' = edit
      BY <2>7, Zenon DEF Connect, centerVars
    <3>2. QED
      BY <3>1
  <2>8. ASSUME NEW a \in Agent, SaveStream(a)
        PROVE  Goal
    <3>1. edit' = edit
      BY <2>8, Zenon DEF SaveStream, centerVars
    <3>2. QED
      BY <3>1
  <2>9. ASSUME NEW a \in Agent, ReadStore(a)
        PROVE  Goal
    BY <2>9, ReadEdits
  <2>10. ASSUME NEW a \in Agent, SendLoad(a)
        PROVE  Goal
    <3>1. edit' = edit
      BY <2>10, Zenon DEF SendLoad, centerVars
    <3>2. QED
      BY <3>1
  <2>11. ASSUME NEW a \in Agent, LoadAnswered(a)
        PROVE  Goal
    <3>1. edit' = edit
      BY <2>11, Zenon DEF LoadAnswered, centerVars
    <3>2. QED
      BY <3>1
  <2>12. ASSUME NEW a \in Agent, LoadTimeout(a)
        PROVE  Goal
    <3>1. edit' = edit
      BY <2>12, Zenon DEF LoadTimeout, EndStream, centerVars
    <3>2. QED
      BY <3>1
  <2>13. ASSUME NEW a \in Agent, HandlerReturns(a)
        PROVE  Goal
    <3>1. edit' = edit
      BY <2>13, Zenon DEF HandlerReturns, EndStream, centerVars
    <3>2. QED
      BY <3>1
  <2>14. ASSUME NEW a \in Agent, SendPing(a)
        PROVE  Goal
    <3>1. edit' = edit
      BY <2>14, Zenon DEF SendPing, centerVars
    <3>2. QED
      BY <3>1
  <2>15. ASSUME NEW a \in Agent, Receive(a)
        PROVE  Goal
    <3>1. edit' = edit
      BY <2>15, Zenon DEF Receive, centerVars
    <3>2. QED
      BY <3>1
  <2>16. ASSUME NEW a \in Agent, Handle(a)
        PROVE  Goal
    <3>1. edit' = edit
      BY <2>16, Zenon DEF Handle, centerVars
    <3>2. QED
      BY <3>1
  <2>17. ASSUME NEW a \in Agent, Apply(a)
        PROVE  Goal
    <3>1. edit' = edit
      BY <2>17, Zenon DEF Apply, centerVars
    <3>2. QED
      BY <3>1
  <2>18. ASSUME NEW a \in Agent, CalcPlanHash(a)
        PROVE  Goal
    <3>1. edit' = edit
      BY <2>18, Zenon DEF CalcPlanHash, centerVars
    <3>2. QED
      BY <3>1
  <2>19. ASSUME NEW a \in Agent, StreamEnds(a)
        PROVE  Goal
    <3>1. \E C : Drop(a, C)
      BY <2>19, Zenon DEF StreamEnds
    <3>2. QED
      BY <3>1, DropEdits
  <2>20. ASSUME NEW a \in Agent, Break(a)
        PROVE  Goal
    <3>1. \E C : Drop(a, C)
      BY <2>20, Zenon DEF Break
    <3>2. QED
      BY <3>1, DropEdits
  <2>21. ASSUME NEW a \in Agent, Reload(a)
        PROVE  Goal
    <3>1. \E C : Drop(a, C)
      BY <2>21, Zenon DEF Reload
    <3>2. QED
      BY <3>1, DropEdits
  <2>22. ASSUME NEW a \in Agent, Restart(a)
        PROVE  Goal
    <3>1. \E C : Drop(a, C)
      BY <2>22, Zenon DEF Restart
    <3>2. QED
      BY <3>1, DropEdits
  <2>23. ASSUME NEW a \in Agent, Reregister(a)
        PROVE  Goal
    <3>1. edit' = edit
      BY <2>23, Zenon DEF Reregister, centerVars
    <3>2. QED
      BY <3>1
  <2>24. CASE UNCHANGED planVars
    <3>1. edit' = edit
      BY <2>24, Zenon DEF planVars
    <3>2. QED
      BY <3>1
  <2> HIDE DEF EditTyped, Edits, EditsInTurn, NoEdit, Over, Goal
  <2> QED
    BY <2>1, <2>2, <2>3, <2>4, <2>5, <2>6, <2>7, <2>8, <2>9, <2>10,
       <2>11, <2>12, <2>13, <2>14, <2>15, <2>16, <2>17, <2>18, <2>19, <2>20,
       <2>21, <2>22, <2>23, <2>24, Zenon
       DEF PlanNext
<1>2. QED
  BY <1>1

\* A call asks an agent once.
LEMMA AskIsOnce ==
  ASSUME EditTyped, EditsInTurn, NEW f \in Editor, NEW b \in Agent, Ask(f, b)
  PROVE  /\ edit[f].step = "busy" /\ b \in edit[f].todo
         /\ edit'[f].step = "busy" /\ b \notin edit'[f].todo
         /\ edit'[f].asked = {b} /\ b \notin edit'[f].told
         /\ edit'[f].val = edit[f].val /\ edit'[f].clean = edit[f].clean
         /\ \A e \in Editor : e # f => edit'[e] = edit[e]
BY DEF EditTyped, Edits, EditsInTurn, Ask

\* What a clean agent has been asked or told it was asked before, or is now.
LEMMA EditsStay ==
  ASSUME EditTyped, EditsInTurn, [PlanNext]_planVars,
         NEW f \in Editor, NEW b \in Agent
  PROVE  b \in edit'[f].clean =>
           /\ b \in edit[f].clean \/ (edit'[f].asked = {} /\ edit'[f].told = {})
           /\ edit'[f].asked = {b} =>
                \/ Ask(f, b)
                \/ edit[f].asked = {b} /\ edit'[f].val = edit[f].val
           /\ b \in edit'[f].told =>
                /\ edit'[f].val = edit[f].val
                /\ b \in edit[f].told \/ Answered(f, b)
<1> DEFINE Goal ==
           b \in edit'[f].clean =>
           /\ b \in edit[f].clean \/ (edit'[f].asked = {} /\ edit'[f].told = {})
           /\ edit'[f].asked = {b} =>
                \/ Ask(f, b)
                \/ edit[f].asked = {b} /\ edit'[f].val = edit[f].val
           /\ b \in edit'[f].told =>
                /\ edit'[f].val = edit[f].val
                /\ b \in edit[f].told \/ Answered(f, b)
<1>1. Goal
  <2> USE EditTyped, EditsInTurn DEF EditTyped, Edits, EditsInTurn, NoEdit, Over
  <2>1. ASSUME NEW e \in Editor, NEW v \in Definition, Begin(e, v)
        PROVE  Goal
    BY <2>1 DEF Begin, centerVars, agentVars
  <2>2. ASSUME NEW e \in Editor, NEW a \in Agent, Ask(e, a)
        PROVE  Goal
    <3>1. CASE e = f /\ a # b
      <4>1. edit'[f].asked # {b}
        BY <2>2, <3>1 DEF Ask
      <4>2. /\ edit'[f].told = edit[f].told /\ edit'[f].clean = edit[f].clean
            /\ edit'[f].val = edit[f].val
        BY <2>2, <3>1 DEF Ask
      <4>3. QED
        BY <4>1, <4>2
    <3>2. CASE e = f /\ a = b
      BY <2>2, <3>2, AskIsOnce
    <3>3. CASE e # f
      <4>1. edit'[f] = edit[f]
        BY <2>2, <3>3 DEF Ask
      <4>2. QED
        BY <4>1
    <3>4. QED
      BY <3>1, <3>2, <3>3
  <2>3. ASSUME NEW e \in Editor, NEW a \in Agent, AskFails(e, a)
        PROVE  Goal
    BY <2>3 DEF AskFails, Fail, centerVars, agentVars
  <2>4. ASSUME NEW e \in Editor, NEW a \in Agent, Answered(e, a)
        PROVE  Goal
    <3>1. CASE e = f /\ a # b
      <4>1. /\ edit'[f].asked = {} /\ edit'[f].told = edit[f].told \union {a}
            /\ edit'[f].clean = edit[f].clean /\ edit'[f].val = edit[f].val
        BY <2>4, <3>1 DEF Answered
      <4>2. QED
        BY <3>1, <4>1
    <3>2. CASE e = f /\ a = b
      <4>1. /\ edit'[f].asked = {}
            /\ edit'[f].clean = edit[f].clean /\ edit'[f].val = edit[f].val
        BY <2>4, <3>2 DEF Answered
      <4>2. Answered(f, b)
        BY <2>4, <3>2
      <4>3. QED
        BY <4>1, <4>2
    <3>3. CASE e # f
      <4>1. edit'[f] = edit[f]
        BY <2>4, <3>3 DEF Answered
      <4>2. QED
        BY <4>1
    <3>4. QED
      BY <3>1, <3>2, <3>3
  <2>5. ASSUME NEW e \in Editor, NEW a \in Agent, Timeout(e, a)
        PROVE  Goal
    BY <2>5 DEF Timeout, Fail, centerVars, agentVars
  <2>6. ASSUME NEW e \in Editor, NEW done \in BOOLEAN, Write(e, done)
        PROVE  Goal
    BY <2>6 DEF Write, centerVars, agentVars
  <2>7. ASSUME NEW a \in Agent, Connect(a)
        PROVE  Goal
    <3>1. edit' = edit
      BY <2>7, Zenon DEF Connect, centerVars
    <3>2. QED
      BY <3>1
  <2>8. ASSUME NEW a \in Agent, SaveStream(a)
        PROVE  Goal
    <3>1. edit' = edit
      BY <2>8, Zenon DEF SaveStream, centerVars
    <3>2. QED
      BY <3>1
  <2>9. ASSUME NEW a \in Agent, ReadStore(a)
        PROVE  Goal
    BY <2>9, ReadEdits
  <2>10. ASSUME NEW a \in Agent, SendLoad(a)
        PROVE  Goal
    <3>1. edit' = edit
      BY <2>10, Zenon DEF SendLoad, centerVars
    <3>2. QED
      BY <3>1
  <2>11. ASSUME NEW a \in Agent, LoadAnswered(a)
        PROVE  Goal
    <3>1. edit' = edit
      BY <2>11, Zenon DEF LoadAnswered, centerVars
    <3>2. QED
      BY <3>1
  <2>12. ASSUME NEW a \in Agent, LoadTimeout(a)
        PROVE  Goal
    <3>1. edit' = edit
      BY <2>12, Zenon DEF LoadTimeout, EndStream, centerVars
    <3>2. QED
      BY <3>1
  <2>13. ASSUME NEW a \in Agent, HandlerReturns(a)
        PROVE  Goal
    <3>1. edit' = edit
      BY <2>13, Zenon DEF HandlerReturns, EndStream, centerVars
    <3>2. QED
      BY <3>1
  <2>14. ASSUME NEW a \in Agent, SendPing(a)
        PROVE  Goal
    <3>1. edit' = edit
      BY <2>14, Zenon DEF SendPing, centerVars
    <3>2. QED
      BY <3>1
  <2>15. ASSUME NEW a \in Agent, Receive(a)
        PROVE  Goal
    <3>1. edit' = edit
      BY <2>15, Zenon DEF Receive, centerVars
    <3>2. QED
      BY <3>1
  <2>16. ASSUME NEW a \in Agent, Handle(a)
        PROVE  Goal
    <3>1. edit' = edit
      BY <2>16, Zenon DEF Handle, centerVars
    <3>2. QED
      BY <3>1
  <2>17. ASSUME NEW a \in Agent, Apply(a)
        PROVE  Goal
    <3>1. edit' = edit
      BY <2>17, Zenon DEF Apply, centerVars
    <3>2. QED
      BY <3>1
  <2>18. ASSUME NEW a \in Agent, CalcPlanHash(a)
        PROVE  Goal
    <3>1. edit' = edit
      BY <2>18, Zenon DEF CalcPlanHash, centerVars
    <3>2. QED
      BY <3>1
  <2>19. ASSUME NEW a \in Agent, StreamEnds(a)
        PROVE  Goal
    <3>1. \E C : Drop(a, C)
      BY <2>19, Zenon DEF StreamEnds
    <3>2. QED
      BY <3>1, DropEdits
  <2>20. ASSUME NEW a \in Agent, Break(a)
        PROVE  Goal
    <3>1. \E C : Drop(a, C)
      BY <2>20, Zenon DEF Break
    <3>2. QED
      BY <3>1, DropEdits
  <2>21. ASSUME NEW a \in Agent, Reload(a)
        PROVE  Goal
    <3>1. \E C : Drop(a, C)
      BY <2>21, Zenon DEF Reload
    <3>2. QED
      BY <3>1, DropEdits
  <2>22. ASSUME NEW a \in Agent, Restart(a)
        PROVE  Goal
    <3>1. \E C : Drop(a, C)
      BY <2>22, Zenon DEF Restart
    <3>2. QED
      BY <3>1, DropEdits
  <2>23. ASSUME NEW a \in Agent, Reregister(a)
        PROVE  Goal
    <3>1. edit' = edit
      BY <2>23, Zenon DEF Reregister, centerVars
    <3>2. QED
      BY <3>1
  <2>24. CASE UNCHANGED planVars
    <3>1. edit' = edit
      BY <2>24, Zenon DEF planVars
    <3>2. QED
      BY <3>1
  <2> HIDE DEF EditTyped, Edits, EditsInTurn, NoEdit, Over, Goal
  <2> QED
    BY <2>1, <2>2, <2>3, <2>4, <2>5, <2>6, <2>7, <2>8, <2>9, <2>10,
       <2>11, <2>12, <2>13, <2>14, <2>15, <2>16, <2>17, <2>18, <2>19, <2>20,
       <2>21, <2>22, <2>23, <2>24, Zenon
       DEF PlanNext
<1>2. QED
  BY <1>1

\* A clean agent is neither sent a snapshot nor reloaded nor restarted.
LEMMA CleanIsLeft ==
  ASSUME EditTyped, EditsInTurn, LoadTyped, NEW f \in Editor, NEW b \in Agent,
         b \in edit'[f].clean
  PROVE  ~Reload(b) /\ ~Restart(b) /\ ~SendLoad(b)
<1>1. ASSUME Reload(b) \/ Restart(b) PROVE FALSE
  <2>1. Drop(b, Agent \ {b})
    BY <1>1, Zenon DEF Reload, Restart
  <2>2. QED
    BY <2>1, DropEdits
<1>2. ASSUME SendLoad(b) PROVE FALSE
  <2>1. edit' = edit /\ load[b].step = "read"
    BY <1>2, Zenon DEF SendLoad
  <2>2. QED
    BY <2>1 DEF EditsInTurn
<1>3. QED
  BY <1>1, <1>2

\* What is at an agent's places after a call, a snapshot, a reload or restart.
LEMMA AskPlaces ==
  ASSUME PlanTyped, NEW e \in Editor, NEW b \in Agent, Ask(e, b)
  PROVE  /\ wire'[b] = Append(wire[b], [from |-> e, val |-> edit[e].val])
         /\ cell' = cell /\ hands' = hands /\ inbox' = inbox
         /\ table' = table /\ replies' = replies
         /\ edit[e].val \in Definition /\ wire[b] \in Seq(Event)
<1>1. wire'[b] = Append(wire[b], [from |-> e, val |-> edit[e].val])
  BY DEF PlanTyped, WiresTyped, Ask
<1>2. edit[e].val \in Definition /\ wire[b] \in Seq(Event)
  BY DEF PlanTyped, WiresTyped, EditTyped, Edits
<1>3. QED
  BY <1>1, <1>2, Zenon DEF Ask, agentVars

\* What a snapshot changes in an agent's places,
LEMMA SendPlaces ==
  ASSUME PlanTyped, NEW b \in Agent, SendLoad(b)
  PROVE  /\ wire'[b] = Append(wire[b], [from |-> load[b].id, val |-> load[b].val])
         /\ cell' = cell /\ hands' = hands /\ inbox' = inbox
         /\ table' = table /\ replies' = replies
         /\ load[b].val \in Definition /\ load[b].id \in Loads
         /\ wire[b] \in Seq(Event)
<1>1. wire'[b] = Append(wire[b], [from |-> load[b].id, val |-> load[b].val])
  BY DEF PlanTyped, WiresTyped, SendLoad
<1>2. /\ load[b].val \in Definition /\ load[b].id \in Loads
      /\ wire[b] \in Seq(Event)
  BY DEF PlanTyped, WiresTyped, LoadTyped, Snapshots
<1>3. QED
  BY <1>1, <1>2, Zenon DEF SendLoad, agentVars

\* and what a reload or a restart does.
LEMMA ResetPlaces ==
  ASSUME PlanTyped, NEW b \in Agent, Reload(b) \/ Restart(b)
  PROVE  /\ wire'[b] = <<>> /\ cell'[b] = Nothing /\ hands'[b] = 0
         /\ replies'[b] = {} /\ load'[b] = NoLoad
<1>1. \E C : Drop(b, C)
  BY Zenon DEF Reload, Restart
<1>2. /\ wire'[b] = <<>> /\ cell'[b] = Nothing /\ hands'[b] = 0
      /\ replies'[b] = {} /\ load'[b] = NoLoad
  BY <1>1 DEF PlanTyped, WiresTyped, HandsTyped, LoadTyped, Snapshots, Drop
<1>3. QED
  BY <1>2

\* A call of which an agent knows nothing stays unknown until it asks.
LEMMA EditsUnknownStep ==
  PlanTyped /\ EditsInTurn /\ EditsUnknown /\ [PlanNext]_planVars => EditsUnknown'
<1>1. SUFFICES ASSUME PlanTyped, EditsInTurn, EditsUnknown, [PlanNext]_planVars,
                      NEW f \in Editor, NEW b \in Agent,
                      edit'[f].step = "before" \/ b \in edit'[f].todo
               PROVE  Unknown(wire'[b], cell'[b], replies'[b], f)
  BY Zenon DEF EditsUnknown, UnknownAt
<1>2. EditTyped /\ f \in Author /\ f \in Source
  BY <1>1, AuthorsAreNoPings DEF PlanTyped
<1>3. edit[f].step = "before" \/ b \in edit[f].todo
  BY <1>1, <1>2, EditsAsk, Zenon
<1>4. UnknownAt(b, f)
  BY <1>1, <1>3, Zenon DEF EditsUnknown
<1>5. CASE Keeps(b)
  BY <1>2, <1>4, <1>5, Zenon DEF Keeps
<1>6. ASSUME NEW e \in Editor, Ask(e, b)
      PROVE  Unknown(wire'[b], cell'[b], replies'[b], f)
  <2>1. e # f
    BY <1>1, <1>2, <1>6, AskIsOnce
  <2>2. e \in Source
    BY AuthorsAreNoPings
  <2>3. QED
    BY <1>1, <1>4, <1>6, <2>1, <2>2, AskPlaces, SentIsLast, Zenon DEF UnknownAt
<1>7. CASE SendLoad(b)
  <2>1. load[b].id \in Source /\ load[b].id # f
    BY <1>1, <1>7, SendPlaces, AuthorsAreNoPings
  <2>2. QED
    BY <1>1, <1>4, <1>7, <2>1, SendPlaces, SentIsLast, Zenon DEF UnknownAt
<1>8. CASE Reload(b) \/ Restart(b)
  <2>1. wire'[b] = <<>> /\ cell'[b] = Nothing /\ replies'[b] = {}
    BY <1>1, <1>8, ResetPlaces
  <2>2. QED
    BY <1>2, <2>1, DropKeeps, Zenon
<1>9. QED
  BY <1>1, <1>5, <1>6, <1>7, <1>8, StepKeeps, Zenon DEF Moves

\* An event of another source leaves those of one source as they are.
LEMMA OtherKeepsOnce ==
  ASSUME NEW w \in Seq(Event), NEW x \in Event, NEW src, x.from # src,
         Once(w, src)
  PROVE  Once(Append(w, x), src)
<1>1. /\ Len(w) \in Nat /\ Len(Append(w, x)) = Len(w) + 1
      /\ Append(w, x)[Len(w) + 1] = x
      /\ \A i \in 1..Len(w) : Append(w, x)[i] = w[i]
      /\ \A i \in 1..Len(Append(w, x)) : i \in 1..Len(w) \/ i = Len(w) + 1
  OBVIOUS
<1>2. QED
  BY <1>1 DEF Once

\* Every step keeps the snapshots of a stream in turn.
LEMMA LoadsInTurnStep ==
  ASSUME PlanTyped, LoadsInTurn, [PlanNext]_planVars
  PROVE  LoadsInTurn'
<1>1. SUFFICES ASSUME NEW b \in Agent
               PROVE  LoadTurn(stream'[b], wire'[b], cell'[b], replies'[b],
                               load'[b].step, load'[b].id)
  BY Zenon DEF LoadsInTurn
<1>2. LoadTurn(stream[b], wire[b], cell[b], replies[b], load[b].step, load[b].id)
  BY Zenon DEF LoadsInTurn
<1> DEFINE Goal == LoadTurn(stream'[b], wire'[b], cell'[b], replies'[b],
                            load'[b].step, load'[b].id)
<1>3. Goal
  <2> USE PlanTyped, <1>2 DEF PlanTyped, WiresTyped, LoadTyped, Snapshots
  <2>1. ASSUME NEW e \in Editor, NEW v \in Definition, Begin(e, v)
        PROVE  Goal
    <3>1. /\ stream'[b] = stream[b] /\ wire'[b] = wire[b] /\ cell'[b] = cell[b]
          /\ replies'[b] = replies[b] /\ load'[b].step = load[b].step
          /\ load'[b].id = load[b].id
      BY <2>1 DEF Begin, centerVars, agentVars
    <3>2. QED
      BY <3>1, Zenon
  <2>2. ASSUME NEW e \in Editor, NEW a \in Agent, Ask(e, a)
        PROVE  Goal
    <3>1. CASE b # a
      <4>1. /\ stream'[b] = stream[b] /\ wire'[b] = wire[b]
            /\ cell'[b] = cell[b] /\ replies'[b] = replies[b]
            /\ load'[b] = load[b]
        BY <2>2, <3>1 DEF Ask, centerVars, agentVars
      <4>2. QED
        BY <4>1, Zenon
    <3>2. CASE b = a
      <4>1. /\ stream'[b] = stream[b] /\ load'[b] = load[b] /\ Open(b)
        BY <2>2, <3>2 DEF Ask
      <4>2. /\ wire'[b] = Append(wire[b], [from |-> e, val |-> edit[e].val])
            /\ cell'[b] = cell[b] /\ replies'[b] = replies[b]
            /\ wire[b] \in Seq(Event) /\ edit[e].val \in Definition
            /\ e \in Source /\ e \notin Loads
        BY <2>2, <3>2, AskPlaces, AuthorsAreNoPings
      <4> DEFINE x == [from |-> e, val |-> edit[e].val]
      <4>3. x \in Event /\ x.from = e
        BY <4>2 DEF Event
      <4> HIDE DEF x
      <4>4. /\ \A src \in Loads : Lacking(wire[b], src) =>
                 Lacking(Append(wire[b], x), src)
        BY <4>2, <4>3, WireGiven
      <4>5. \A src \in Loads : Once(wire[b], src) => Once(Append(wire[b], x), src)
        BY <4>2, <4>3, OtherKeepsOnce
      <4>6. wire'[b] = Append(wire[b], x) /\ load[b].id \in Loads
        BY <4>2 DEF x
      <4>7. stream[b] \in {"new", "saved", "up"}
        BY <4>1 DEF Open
      <4>8. QED
        BY <4>1, <4>2, <4>4, <4>5, <4>6, <4>7 DEF LoadTurn, NoLoads
    <3>3. QED
      BY <3>1, <3>2
  <2>3. ASSUME NEW e \in Editor, NEW a \in Agent, AskFails(e, a)
        PROVE  Goal
    <3>1. /\ stream'[b] = stream[b] /\ wire'[b] = wire[b] /\ cell'[b] = cell[b]
          /\ replies'[b] = replies[b] /\ load'[b].step = load[b].step
          /\ load'[b].id = load[b].id
      BY <2>3 DEF AskFails, Fail, centerVars, agentVars
    <3>2. QED
      BY <3>1, Zenon
  <2>4. ASSUME NEW e \in Editor, NEW a \in Agent, Answered(e, a)
        PROVE  Goal
    <3>1. CASE b # a
      <4>1. /\ stream'[b] = stream[b] /\ wire'[b] = wire[b]
            /\ cell'[b] = cell[b] /\ replies'[b] = replies[b]
            /\ load'[b] = load[b]
        BY <2>4, <3>1 DEF Answered, centerVars, agentVars
      <4>2. QED
        BY <4>1, Zenon
    <3>2. CASE b = a
      <4>1. /\ stream'[b] = stream[b] /\ wire'[b] = wire[b]
            /\ cell'[b] = cell[b] /\ load'[b] = load[b]
        BY <2>4, Zenon DEF Answered, agentVars
      <4>2. replies' = [replies EXCEPT ![a] = @ \ {e}]
        BY <2>4, Zenon DEF Answered
      <4>3. replies'[b] \subseteq replies[b]
        BY <4>2
      <4>4. QED
        BY <4>1, <4>3 DEF LoadTurn
    <3>3. QED
      BY <3>1, <3>2
  <2>5. ASSUME NEW e \in Editor, NEW a \in Agent, Timeout(e, a)
        PROVE  Goal
    <3>1. CASE b # a
      <4>1. /\ stream'[b] = stream[b] /\ wire'[b] = wire[b]
            /\ cell'[b] = cell[b] /\ replies'[b] = replies[b]
            /\ load'[b] = load[b]
        BY <2>5, <3>1 DEF Timeout, Fail, centerVars, agentVars
      <4>2. QED
        BY <4>1, Zenon
    <3>2. CASE b = a
      <4>1. /\ stream'[b] = stream[b] /\ wire'[b] = wire[b]
            /\ cell'[b] = cell[b] /\ load'[b] = load[b]
        BY <2>5, Zenon DEF Timeout, Fail, agentVars
      <4>2. replies' = [replies EXCEPT ![a] = @ \ {e}]
        BY <2>5, Zenon DEF Timeout, Fail
      <4>3. replies'[b] \subseteq replies[b]
        BY <4>2
      <4>4. QED
        BY <4>1, <4>3 DEF LoadTurn
    <3>3. QED
      BY <3>1, <3>2
  <2>6. ASSUME NEW e \in Editor, NEW done \in BOOLEAN, Write(e, done)
        PROVE  Goal
    <3>1. /\ stream'[b] = stream[b] /\ wire'[b] = wire[b] /\ cell'[b] = cell[b]
          /\ replies'[b] = replies[b] /\ load'[b].step = load[b].step
          /\ load'[b].id = load[b].id
      BY <2>6 DEF Write, centerVars, agentVars
    <3>2. QED
      BY <3>1, Zenon
  <2>7. ASSUME NEW a \in Agent, Connect(a)
        PROVE  Goal
    <3>1. CASE b # a
      <4>1. /\ stream'[b] = stream[b] /\ wire'[b] = wire[b]
            /\ cell'[b] = cell[b] /\ replies'[b] = replies[b]
            /\ load'[b] = load[b]
        BY <2>7, <3>1 DEF Connect, centerVars, agentVars
      <4>2. QED
        BY <4>1, Zenon
    <3>2. CASE b = a
      <4>1. /\ stream[b] = "down" /\ stream'[b] = "new" /\ wire'[b] = wire[b]
            /\ cell'[b] = cell[b] /\ replies'[b] = replies[b]
            /\ load'[b] = load[b]
        BY <2>7, <3>2 DEF Connect, centerVars, agentVars
      <4>2. /\ wire[b] = <<>> /\ cell[b] = Nothing /\ replies[b] = {}
            /\ load[b].step = "none"
        BY <4>1 DEF LoadTurn
      <4>3. NoLoads(<<>>) /\ Nothing.from # load[b].id
        BY WireEmpty, AuthorsAreNoPings DEF NoLoads
      <4>4. QED
        BY <4>1, <4>2, <4>3 DEF LoadTurn
    <3>3. QED
      BY <3>1, <3>2
  <2>8. ASSUME NEW a \in Agent, SaveStream(a)
        PROVE  Goal
    <3>1. CASE b # a
      <4>1. /\ stream'[b] = stream[b] /\ wire'[b] = wire[b]
            /\ cell'[b] = cell[b] /\ replies'[b] = replies[b]
            /\ load'[b] = load[b]
        BY <2>8, <3>1 DEF SaveStream, centerVars, agentVars
      <4>2. QED
        BY <4>1, Zenon
    <3>2. CASE b = a
      <4>1. /\ stream[b] \in {"new", "saved", "up"}
            /\ stream'[b] \in {"new", "saved", "up"} /\ wire'[b] = wire[b]
            /\ cell'[b] = cell[b] /\ replies'[b] = replies[b]
            /\ load'[b].id = load[b].id
            /\ load'[b].step = load[b].step
               \/ (load[b].step = "none" /\ load'[b].step = "read")
        BY <2>8, <3>2 DEF SaveStream, centerVars, agentVars
      <4>2. QED
        BY <4>1 DEF LoadTurn
    <3>3. QED
      BY <3>1, <3>2
  <2>9. ASSUME NEW a \in Agent, ReadStore(a)
        PROVE  Goal
    <3>1. CASE b # a
      <4>1. /\ stream'[b] = stream[b] /\ wire'[b] = wire[b]
            /\ cell'[b] = cell[b] /\ replies'[b] = replies[b]
            /\ load'[b] = load[b]
        BY <2>9, <3>1 DEF ReadStore, centerVars, agentVars
      <4>2. QED
        BY <4>1, Zenon
    <3>2. CASE b = a
      <4>1. /\ stream[b] \in {"new", "saved", "up"}
            /\ stream'[b] \in {"new", "saved", "up"} /\ wire'[b] = wire[b]
            /\ cell'[b] = cell[b] /\ replies'[b] = replies[b]
            /\ load'[b].id = load[b].id
            /\ load'[b].step = load[b].step
               \/ (load[b].step = "none" /\ load'[b].step = "read")
        BY <2>9, <3>2 DEF ReadStore, centerVars, agentVars
      <4>2. QED
        BY <4>1 DEF LoadTurn
    <3>3. QED
      BY <3>1, <3>2
  <2>10. ASSUME NEW a \in Agent, SendLoad(a)
        PROVE  Goal
    <3>1. CASE b # a
      <4>1. /\ stream'[b] = stream[b] /\ wire'[b] = wire[b]
            /\ cell'[b] = cell[b] /\ replies'[b] = replies[b]
            /\ load'[b] = load[b]
        BY <2>10, <3>1 DEF SendLoad, centerVars, agentVars
      <4>2. QED
        BY <4>1, Zenon
    <3>2. CASE b = a
      <4>1. /\ stream'[b] = stream[b] /\ load[b].step = "read"
            /\ load'[b].step = "sent" /\ load'[b].id = load[b].id
        BY <2>10, <3>2 DEF SendLoad
      <4>2. /\ wire'[b] = Append(wire[b], [from |-> load[b].id, val |-> load[b].val])
            /\ cell'[b] = cell[b] /\ replies'[b] = replies[b]
            /\ wire[b] \in Seq(Event)
            /\ load[b].id \in Source /\ load[b].val \in Definition
        BY <2>10, <3>2, SendPlaces, AuthorsAreNoPings
      <4>3. /\ stream[b] \in {"new", "saved", "up"} /\ NoLoads(wire[b])
            /\ cell[b].from # load[b].id /\ replies[b] \intersect Loads = {}
        BY <4>1 DEF LoadTurn
      <4> DEFINE x == [from |-> load[b].id, val |-> load[b].val]
      <4>4. x \in Event /\ x.from = load[b].id
        BY <4>2 DEF Event
      <4> HIDE DEF x
      <4>5. /\ \A other \in Loads \ {load[b].id} : Lacking(Append(wire[b], x), other)
            /\ Once(Append(wire[b], x), load[b].id)
        BY <4>2, <4>3, <4>4, WireGiven DEF NoLoads
      <4>6. wire'[b] = Append(wire[b], x)
        BY <4>2, Zenon DEF x
      <4>7. QED
        BY <4>1, <4>2, <4>3, <4>5, <4>6 DEF LoadTurn
    <3>3. QED
      BY <3>1, <3>2
  <2>11. ASSUME NEW a \in Agent, LoadAnswered(a)
        PROVE  Goal
    <3>1. CASE b # a
      <4>1. /\ stream'[b] = stream[b] /\ wire'[b] = wire[b]
            /\ cell'[b] = cell[b] /\ replies'[b] = replies[b]
            /\ load'[b] = load[b]
        BY <2>11, <3>1 DEF LoadAnswered, centerVars, agentVars
      <4>2. QED
        BY <4>1, Zenon
    <3>2. CASE b = a
      <4>1. /\ stream'[b] = "up" /\ wire'[b] = wire[b] /\ cell'[b] = cell[b]
            /\ load[b].step = "sent" /\ load[b].id \in replies[b]
            /\ replies'[b] = replies[b] \ {load[b].id}
        BY <2>11, <3>2 DEF LoadAnswered, agentVars
      <4>2. PICK id \in Loads \ {load[b].id} :
              load' = [load EXCEPT ![b] = [NoLoad EXCEPT !.id = id]]
        BY <2>11, <3>2, Zenon DEF LoadAnswered
      <4>3. load'[b].step = "none" /\ load'[b].id = id
        BY <4>2 DEF NoLoad
      <4>4. QED
        BY <4>1, <4>3 DEF LoadTurn
    <3>3. QED
      BY <3>1, <3>2
  <2>12. ASSUME NEW a \in Agent, LoadTimeout(a)
        PROVE  Goal
    <3>1. CASE b # a
      <4>1. /\ stream'[b] = stream[b] /\ wire'[b] = wire[b]
            /\ cell'[b] = cell[b] /\ replies'[b] = replies[b]
            /\ load'[b] = load[b]
        BY <2>12, <3>1 DEF LoadTimeout, EndStream, centerVars, agentVars
      <4>2. QED
        BY <4>1, Zenon
    <3>2. CASE b = a
      <4>1. /\ stream'[b] = "ending" /\ load'[b].step = "none"
        BY <2>12, <3>2 DEF LoadTimeout, EndStream, NoLoad
      <4>2. QED
        BY <4>1 DEF LoadTurn
    <3>3. QED
      BY <3>1, <3>2
  <2>13. ASSUME NEW a \in Agent, HandlerReturns(a)
        PROVE  Goal
    <3>1. CASE b # a
      <4>1. /\ stream'[b] = stream[b] /\ wire'[b] = wire[b]
            /\ cell'[b] = cell[b] /\ replies'[b] = replies[b]
            /\ load'[b] = load[b]
        BY <2>13, <3>1 DEF HandlerReturns, EndStream, centerVars, agentVars
      <4>2. QED
        BY <4>1, Zenon
    <3>2. CASE b = a
      <4>1. /\ stream'[b] = "ending" /\ load'[b].step = "none"
        BY <2>13, <3>2 DEF HandlerReturns, EndStream, NoLoad
      <4>2. QED
        BY <4>1 DEF LoadTurn
    <3>3. QED
      BY <3>1, <3>2
  <2>14. ASSUME NEW a \in Agent, SendPing(a)
        PROVE  Goal
    <3>1. CASE b # a
      <4>1. /\ stream'[b] = stream[b] /\ wire'[b] = wire[b]
            /\ cell'[b] = cell[b] /\ replies'[b] = replies[b]
            /\ load'[b] = load[b]
        BY <2>14, <3>1 DEF SendPing, centerVars, agentVars
      <4>2. QED
        BY <4>1, Zenon
    <3>2. CASE b = a
      <4>1. /\ stream[b] = "up" /\ stream'[b] = stream[b]
            /\ wire'[b] = Append(wire[b], Ping)
            /\ cell'[b] = cell[b] /\ replies'[b] = replies[b]
            /\ load'[b] = load[b] /\ wire[b] \in Seq(Event)
        BY <2>14, <3>2 DEF SendPing, centerVars, agentVars
      <4>2. /\ \A src \in Loads : Lacking(wire[b], src) =>
                 Lacking(Append(wire[b], Ping), src)
            /\ \A src \in Loads : Once(wire[b], src) =>
                 Once(Append(wire[b], Ping), src)
        BY <4>1, WireGiven, AuthorsAreNoPings
      <4>3. load[b].id \in Loads
        OBVIOUS
      <4>4. QED
        BY <4>1, <4>2, <4>3 DEF LoadTurn, NoLoads
    <3>3. QED
      BY <3>1, <3>2
  <2>15. ASSUME NEW a \in Agent, Receive(a)
        PROVE  Goal
    <3>1. CASE b # a
      <4>1. /\ stream'[b] = stream[b] /\ wire'[b] = wire[b]
            /\ cell'[b] = cell[b] /\ replies'[b] = replies[b]
            /\ load'[b] = load[b]
        BY <2>15, <3>1 DEF Receive, centerVars, agentVars
      <4>2. QED
        BY <4>1, Zenon
    <3>2. CASE b = a
      <4>1. /\ wire[b] # <<>> /\ wire[b] \in Seq(Event) /\ stream[b] # "down"
            /\ wire'[b] = Tail(wire[b]) /\ cell'[b] = Head(wire[b])
            /\ replies'[b] = replies[b] /\ stream'[b] = stream[b]
            /\ load'[b] = load[b]
        BY <2>15, <3>2 DEF Receive, centerVars
      <4>2. /\ \A src : Lacking(wire[b], src) =>
                 Head(wire[b]).from # src /\ Lacking(Tail(wire[b]), src)
            /\ \A src : Once(wire[b], src) =>
                 Once(Tail(wire[b]), src)
                   /\ (Head(wire[b]).from = src => Lacking(Tail(wire[b]), src))
        BY <4>1, WireTaken, Zenon
      <4>3. load[b].id \in Loads
        OBVIOUS
      <4>4. QED
        BY <4>1, <4>2, <4>3 DEF LoadTurn, NoLoads
    <3>3. QED
      BY <3>1, <3>2
  <2>16. ASSUME NEW a \in Agent, Handle(a)
        PROVE  Goal
    <3>1. CASE b # a
      <4>1. /\ stream'[b] = stream[b] /\ wire'[b] = wire[b]
            /\ cell'[b] = cell[b] /\ replies'[b] = replies[b]
            /\ load'[b] = load[b]
        BY <2>16, <3>1 DEF Handle, centerVars, agentVars
      <4>2. QED
        BY <4>1, Zenon
    <3>2. CASE b = a
      <4>1. /\ stream'[b] = stream[b] /\ wire'[b] = wire[b]
            /\ cell'[b] = cell[b] /\ load'[b] = load[b]
        BY <2>16, <3>2 DEF Handle, centerVars
      <4>2. \/ replies' = replies
            \/ /\ replies' = [replies EXCEPT ![a] = @ \union {cell[a].from}]
               /\ Open(a)
               /\ \/ \E e \in Editor : e = cell[a].from
                  \/ load[a].step = "sent" /\ cell[a].from = load[a].id
        BY <2>16, Zenon DEF Handle
      <4>3. CASE replies' = replies
        BY <4>1, <4>3, Zenon
      <4>4. CASE /\ replies' = [replies EXCEPT ![a] = @ \union {cell[a].from}]
                 /\ Open(a)
                 /\ \/ \E e \in Editor : e = cell[a].from
                    \/ load[a].step = "sent" /\ cell[a].from = load[a].id
        <5>1. replies'[b] = replies[b] \union {cell[b].from}
          BY <3>2, <4>4
        <5>2. stream[b] \in {"new", "saved", "up"}
          BY <3>2, <4>4 DEF Open
        <5>3. CASE \E e \in Editor : e = cell[a].from
          <6>1. cell[b].from \notin Loads
            BY <3>2, <5>3, AuthorsAreNoPings
          <6>2. QED
            BY <4>1, <5>1, <5>2, <6>1 DEF LoadTurn
        <5>4. CASE load[a].step = "sent" /\ cell[a].from = load[a].id
          BY <3>2, <4>1, <5>1, <5>2, <5>4 DEF LoadTurn
        <5>5. QED
          BY <4>4, <5>3, <5>4
      <4>5. QED
        BY <4>2, <4>3, <4>4, Zenon
    <3>3. QED
      BY <3>1, <3>2
  <2>17. ASSUME NEW a \in Agent, Apply(a)
        PROVE  Goal
    <3>1. /\ stream'[b] = stream[b] /\ wire'[b] = wire[b] /\ cell'[b] = cell[b]
          /\ replies'[b] = replies[b] /\ load'[b].step = load[b].step
          /\ load'[b].id = load[b].id
      BY <2>17 DEF Apply, centerVars, agentVars
    <3>2. QED
      BY <3>1, Zenon
  <2>18. ASSUME NEW a \in Agent, CalcPlanHash(a)
        PROVE  Goal
    <3>1. /\ stream'[b] = stream[b] /\ wire'[b] = wire[b] /\ cell'[b] = cell[b]
          /\ replies'[b] = replies[b] /\ load'[b].step = load[b].step
          /\ load'[b].id = load[b].id
      BY <2>18 DEF CalcPlanHash, centerVars, agentVars
    <3>2. QED
      BY <3>1, Zenon
  <2>19. ASSUME NEW a \in Agent, StreamEnds(a)
        PROVE  Goal
    <3>1. CASE b # a
      <4>1. /\ stream'[b] = stream[b] /\ wire'[b] = wire[b]
            /\ cell'[b] = cell[b] /\ replies'[b] = replies[b]
            /\ load'[b] = load[b]
        BY <2>19, <3>1 DEF StreamEnds, Drop, centerVars, agentVars
      <4>2. QED
        BY <4>1, Zenon
    <3>2. CASE b = a
      <4>1. /\ stream'[b] = "down" /\ load'[b].step = "none"
            /\ wire'[b] = <<>> /\ cell'[b] = Nothing /\ replies'[b] = {}
        BY <2>19, <3>2 DEF StreamEnds, Drop, NoLoad
      <4>2. QED
        BY <4>1 DEF LoadTurn
    <3>3. QED
      BY <3>1, <3>2
  <2>20. ASSUME NEW a \in Agent, Break(a)
        PROVE  Goal
    <3>1. CASE b # a
      <4>1. /\ stream'[b] = stream[b] /\ wire'[b] = wire[b]
            /\ cell'[b] = cell[b] /\ replies'[b] = replies[b]
            /\ load'[b] = load[b]
        BY <2>20, <3>1 DEF Break, Drop, centerVars, agentVars
      <4>2. QED
        BY <4>1, Zenon
    <3>2. CASE b = a
      <4>1. /\ stream'[b] = "down" /\ load'[b].step = "none"
            /\ wire'[b] = <<>> /\ cell'[b] = Nothing /\ replies'[b] = {}
        BY <2>20, <3>2 DEF Break, Drop, NoLoad
      <4>2. QED
        BY <4>1 DEF LoadTurn
    <3>3. QED
      BY <3>1, <3>2
  <2>21. ASSUME NEW a \in Agent, Reload(a)
        PROVE  Goal
    <3>1. CASE b # a
      <4>1. /\ stream'[b] = stream[b] /\ wire'[b] = wire[b]
            /\ cell'[b] = cell[b] /\ replies'[b] = replies[b]
            /\ load'[b] = load[b]
        BY <2>21, <3>1 DEF Reload, Drop, centerVars, agentVars
      <4>2. QED
        BY <4>1, Zenon
    <3>2. CASE b = a
      <4>1. /\ stream'[b] = "down" /\ load'[b].step = "none"
            /\ wire'[b] = <<>> /\ cell'[b] = Nothing /\ replies'[b] = {}
        BY <2>21, <3>2 DEF Reload, Drop, NoLoad
      <4>2. QED
        BY <4>1 DEF LoadTurn
    <3>3. QED
      BY <3>1, <3>2
  <2>22. ASSUME NEW a \in Agent, Restart(a)
        PROVE  Goal
    <3>1. CASE b # a
      <4>1. /\ stream'[b] = stream[b] /\ wire'[b] = wire[b]
            /\ cell'[b] = cell[b] /\ replies'[b] = replies[b]
            /\ load'[b] = load[b]
        BY <2>22, <3>1 DEF Restart, Drop, centerVars, agentVars
      <4>2. QED
        BY <4>1, Zenon
    <3>2. CASE b = a
      <4>1. /\ stream'[b] = "down" /\ load'[b].step = "none"
            /\ wire'[b] = <<>> /\ cell'[b] = Nothing /\ replies'[b] = {}
        BY <2>22, <3>2 DEF Restart, Drop, NoLoad
      <4>2. QED
        BY <4>1 DEF LoadTurn
    <3>3. QED
      BY <3>1, <3>2
  <2>23. ASSUME NEW a \in Agent, Reregister(a)
        PROVE  Goal
    <3>1. CASE b # a
      <4>1. /\ stream'[b] = stream[b] /\ wire'[b] = wire[b]
            /\ cell'[b] = cell[b] /\ replies'[b] = replies[b]
            /\ load'[b] = load[b]
        BY <2>23, <3>1 DEF Reregister, centerVars, agentVars
      <4>2. QED
        BY <4>1, Zenon
    <3>2. CASE b = a
      <4>1. /\ stream[b] \in {"new", "saved", "up"}
            /\ stream'[b] \in {"new", "saved", "up"} /\ wire'[b] = wire[b]
            /\ cell'[b] = cell[b] /\ replies'[b] = replies[b]
            /\ load'[b].id = load[b].id
            /\ load'[b].step = load[b].step
               \/ (load[b].step = "none" /\ load'[b].step = "read")
        BY <2>23, <3>2 DEF Reregister, centerVars, agentVars
      <4>2. QED
        BY <4>1 DEF LoadTurn
    <3>3. QED
      BY <3>1, <3>2
  <2>24. CASE UNCHANGED planVars
    BY <2>24, Zenon DEF planVars
  <2> HIDE DEF PlanTyped, Goal
  <2> QED
    BY <2>1, <2>2, <2>3, <2>4, <2>5, <2>6, <2>7, <2>8, <2>9, <2>10,
       <2>11, <2>12, <2>13, <2>14, <2>15, <2>16, <2>17, <2>18, <2>19, <2>20,
       <2>21, <2>22, <2>23, <2>24, Zenon
       DEF PlanNext
<1>4. QED
  BY <1>3

\* A clean snapshot stays what the store holds, and no call is under way.
LEMMA LoadsCleanStep ==
  ASSUME PlanTyped, EditsInTurn, LoadsClean, [PlanNext]_planVars
  PROVE  LoadsClean'
<1>1. SUFFICES ASSUME NEW b \in Agent
               PROVE  load'[b].clean => /\ load'[b].step # "none"
                                        /\ Busy' = {} /\ load'[b].val = store'
  BY Zenon DEF LoadsClean
<1>2. EditTyped
  BY DEF PlanTyped
<1> DEFINE Goal == load'[b].clean => /\ load'[b].step # "none"
                                     /\ Busy' = {} /\ load'[b].val = store'
<1>3. Goal
  <2> USE PlanTyped, <1>2, LoadsClean DEF PlanTyped, LoadTyped, Snapshots
  <2>1. ASSUME NEW e \in Editor, NEW v \in Definition, Begin(e, v)
        PROVE  Goal
    <3>1. load' = [c \in Agent |-> [load[c] EXCEPT !.clean = FALSE]]
      BY <2>1, Zenon DEF Begin
    <3>2. ~load'[b].clean
      BY <3>1
    <3>3. QED
      BY <3>2
  <2>2. ASSUME NEW e \in Editor, NEW a \in Agent, Ask(e, a)
        PROVE  Goal
    <3>1. e \in Busy /\ load' = load
      BY <2>2 DEF Ask, EditsInTurn, EditTyped, Edits, Busy
    <3>2. QED
      BY <3>1 DEF LoadsClean
  <2>3. ASSUME NEW e \in Editor, NEW a \in Agent, AskFails(e, a)
        PROVE  Goal
    <3>1. e \in Busy /\ load' = load
      BY <2>3 DEF AskFails, Fail, EditsInTurn, EditTyped, Edits, Busy
    <3>2. QED
      BY <3>1 DEF LoadsClean
  <2>4. ASSUME NEW e \in Editor, NEW a \in Agent, Answered(e, a)
        PROVE  Goal
    <3>1. e \in Busy /\ load' = load
      BY <2>4 DEF Answered, EditsInTurn, EditTyped, Edits, Busy
    <3>2. QED
      BY <3>1 DEF LoadsClean
  <2>5. ASSUME NEW e \in Editor, NEW a \in Agent, Timeout(e, a)
        PROVE  Goal
    <3>1. e \in Busy /\ load' = load
      BY <2>5 DEF Timeout, Fail, EditsInTurn, EditTyped, Edits, Busy
    <3>2. QED
      BY <3>1 DEF LoadsClean
  <2>6. ASSUME NEW e \in Editor, NEW done \in BOOLEAN, Write(e, done)
        PROVE  Goal
    <3>1. e \in Busy /\ load' = load
      BY <2>6 DEF Write, EditsInTurn, EditTyped, Edits, Busy
    <3>2. QED
      BY <3>1 DEF LoadsClean
  <2>7. ASSUME NEW a \in Agent, Connect(a)
        PROVE  Goal
    <3>1. edit' = edit /\ load' = load /\ store' = store
      BY <2>7, Zenon DEF Connect, centerVars
    <3>2. QED
      BY <3>1, Zenon DEF LoadsClean, Busy
  <2>8. ASSUME NEW a \in Agent, SaveStream(a)
        PROVE  Goal
    <3>1. edit' = edit /\ load' = load /\ store' = store
      BY <2>8, Zenon DEF SaveStream, centerVars
    <3>2. QED
      BY <3>1, Zenon DEF LoadsClean, Busy
  <2>9. ASSUME NEW a \in Agent, ReadStore(a)
        PROVE  Goal
    <3>1. store' = store /\ Busy' = Busy
      <4>1. store' = store
        BY <2>9, Zenon DEF ReadStore
      <4>2. QED
        BY <2>9, <4>1, ReadEdits DEF Busy
    <3>2. CASE load' = load
      BY <3>1, <3>2, Zenon DEF LoadsClean
    <3>3. CASE load' = [load EXCEPT ![a].step = "read", ![a].val = store,
                                    ![a].clean = (Busy = {})]
      <4>1. CASE b = a
        <5>1. /\ load'[b].step = "read" /\ load'[b].val = store
              /\ load'[b].clean = (Busy = {})
          BY <3>3, <4>1
        <5>2. QED
          BY <3>1, <5>1, Zenon
      <4>2. CASE b # a
        <5>1. load'[b] = load[b]
          BY <3>3, <4>2
        <5>2. QED
          BY <3>1, <5>1, Zenon DEF LoadsClean
      <4>3. QED
        BY <4>1, <4>2
    <3>4. QED
      BY <2>9, <3>2, <3>3, Zenon DEF ReadStore
  <2>10. ASSUME NEW a \in Agent, SendLoad(a)
        PROVE  Goal
    <3>1. edit' = edit /\ store' = store
      BY <2>10, Zenon DEF SendLoad
    <3>2. load' = [load EXCEPT ![a].step = "sent"]
      BY <2>10, Zenon DEF SendLoad
    <3>3. /\ load'[b].clean => load[b].clean
          /\ load'[b].val = load[b].val
          /\ load'[b].step = "none" => load[b].step = "none"
      BY <3>2
    <3>4. QED
      BY <3>1, <3>3, Zenon DEF LoadsClean, Busy
  <2>11. ASSUME NEW a \in Agent, LoadAnswered(a)
        PROVE  Goal
    <3>1. edit' = edit /\ store' = store
      BY <2>11, Zenon DEF LoadAnswered
    <3>2. PICK id \in Loads \ {load[a].id} :
            load' = [load EXCEPT ![a] = [NoLoad EXCEPT !.id = id]]
      BY <2>11, Zenon DEF LoadAnswered
    <3>3. load'[b] = load[b] \/ ~load'[b].clean
      BY <3>2 DEF NoLoad
    <3>4. QED
      BY <3>1, <3>3, Zenon DEF LoadsClean, Busy
  <2>12. ASSUME NEW a \in Agent, LoadTimeout(a)
        PROVE  Goal
    <3>1. load' = [load EXCEPT ![a] = NoLoad] /\ store' = store
      BY <2>12, Zenon DEF LoadTimeout, EndStream
    <3>2. Busy' = Busy
      BY <2>12, Zenon DEF LoadTimeout, EndStream, Busy
    <3>3. load'[b] = load[b] \/ ~load'[b].clean
      BY <3>1 DEF NoLoad
    <3>4. QED
      BY <3>1, <3>2, <3>3 DEF LoadsClean
  <2>13. ASSUME NEW a \in Agent, HandlerReturns(a)
        PROVE  Goal
    <3>1. load' = [load EXCEPT ![a] = NoLoad] /\ store' = store
      BY <2>13, Zenon DEF HandlerReturns, EndStream
    <3>2. Busy' = Busy
      BY <2>13, Zenon DEF HandlerReturns, EndStream, Busy
    <3>3. load'[b] = load[b] \/ ~load'[b].clean
      BY <3>1 DEF NoLoad
    <3>4. QED
      BY <3>1, <3>2, <3>3 DEF LoadsClean
  <2>14. ASSUME NEW a \in Agent, SendPing(a)
        PROVE  Goal
    <3>1. edit' = edit /\ load' = load /\ store' = store
      BY <2>14, Zenon DEF SendPing, centerVars
    <3>2. QED
      BY <3>1, Zenon DEF LoadsClean, Busy
  <2>15. ASSUME NEW a \in Agent, Receive(a)
        PROVE  Goal
    <3>1. edit' = edit /\ load' = load /\ store' = store
      BY <2>15, Zenon DEF Receive, centerVars
    <3>2. QED
      BY <3>1, Zenon DEF LoadsClean, Busy
  <2>16. ASSUME NEW a \in Agent, Handle(a)
        PROVE  Goal
    <3>1. edit' = edit /\ load' = load /\ store' = store
      BY <2>16, Zenon DEF Handle, centerVars
    <3>2. QED
      BY <3>1, Zenon DEF LoadsClean, Busy
  <2>17. ASSUME NEW a \in Agent, Apply(a)
        PROVE  Goal
    <3>1. edit' = edit /\ load' = load /\ store' = store
      BY <2>17, Zenon DEF Apply, centerVars
    <3>2. QED
      BY <3>1, Zenon DEF LoadsClean, Busy
  <2>18. ASSUME NEW a \in Agent, CalcPlanHash(a)
        PROVE  Goal
    <3>1. edit' = edit /\ load' = load /\ store' = store
      BY <2>18, Zenon DEF CalcPlanHash, centerVars
    <3>2. QED
      BY <3>1, Zenon DEF LoadsClean, Busy
  <2>19. ASSUME NEW a \in Agent, StreamEnds(a)
        PROVE  Goal
    <3>1. load' = [load EXCEPT ![a] = NoLoad] /\ store' = store
      BY <2>19, Zenon DEF StreamEnds, Drop
    <3>2. Busy' = Busy
      <4>1. \E C : Drop(a, C)
        BY <2>19, Zenon DEF StreamEnds
      <4>2. QED
        BY <4>1, DropEdits DEF Busy
    <3>3. load'[b] = load[b] \/ ~load'[b].clean
      BY <3>1 DEF NoLoad
    <3>4. QED
      BY <3>1, <3>2, <3>3 DEF LoadsClean
  <2>20. ASSUME NEW a \in Agent, Break(a)
        PROVE  Goal
    <3>1. load' = [load EXCEPT ![a] = NoLoad] /\ store' = store
      BY <2>20, Zenon DEF Break, Drop
    <3>2. Busy' = Busy
      <4>1. \E C : Drop(a, C)
        BY <2>20, Zenon DEF Break
      <4>2. QED
        BY <4>1, DropEdits DEF Busy
    <3>3. load'[b] = load[b] \/ ~load'[b].clean
      BY <3>1 DEF NoLoad
    <3>4. QED
      BY <3>1, <3>2, <3>3 DEF LoadsClean
  <2>21. ASSUME NEW a \in Agent, Reload(a)
        PROVE  Goal
    <3>1. load' = [load EXCEPT ![a] = NoLoad] /\ store' = store
      BY <2>21, Zenon DEF Reload, Drop
    <3>2. Busy' = Busy
      <4>1. \E C : Drop(a, C)
        BY <2>21, Zenon DEF Reload
      <4>2. QED
        BY <4>1, DropEdits DEF Busy
    <3>3. load'[b] = load[b] \/ ~load'[b].clean
      BY <3>1 DEF NoLoad
    <3>4. QED
      BY <3>1, <3>2, <3>3 DEF LoadsClean
  <2>22. ASSUME NEW a \in Agent, Restart(a)
        PROVE  Goal
    <3>1. load' = [load EXCEPT ![a] = NoLoad] /\ store' = store
      BY <2>22, Zenon DEF Restart, Drop
    <3>2. Busy' = Busy
      <4>1. \E C : Drop(a, C)
        BY <2>22, Zenon DEF Restart
      <4>2. QED
        BY <4>1, DropEdits DEF Busy
    <3>3. load'[b] = load[b] \/ ~load'[b].clean
      BY <3>1 DEF NoLoad
    <3>4. QED
      BY <3>1, <3>2, <3>3 DEF LoadsClean
  <2>23. ASSUME NEW a \in Agent, Reregister(a)
        PROVE  Goal
    <3>1. edit' = edit /\ load' = load /\ store' = store
      BY <2>23, Zenon DEF Reregister, centerVars
    <3>2. QED
      BY <3>1, Zenon DEF LoadsClean, Busy
  <2>24. CASE UNCHANGED planVars
    <3>1. edit' = edit /\ load' = load /\ store' = store
      BY <2>24, Zenon DEF planVars
    <3>2. QED
      BY <3>1, Zenon DEF LoadsClean, Busy
  <2> HIDE DEF PlanTyped, Goal
  <2> QED
    BY <2>1, <2>2, <2>3, <2>4, <2>5, <2>6, <2>7, <2>8, <2>9, <2>10,
       <2>11, <2>12, <2>13, <2>14, <2>15, <2>16, <2>17, <2>18, <2>19, <2>20,
       <2>21, <2>22, <2>23, <2>24, Zenon
       DEF PlanNext
<1>4. QED
  BY <1>3

\* A clean snapshot under way is sent in this step or stays.
LEMMA LoadsStay ==
  ASSUME LoadTyped, [PlanNext]_planVars, NEW b \in Agent,
         load'[b].clean, load'[b].step = "sent"
  PROVE  SendLoad(b) \/ load'[b] = load[b]
<1>1. QED
  <2> USE LoadTyped DEF LoadTyped, Snapshots
  <2>1. ASSUME NEW e \in Editor, NEW v \in Definition, Begin(e, v)
        PROVE  SendLoad(b) \/ load'[b] = load[b]
    <3>1. load' = [c \in Agent |-> [load[c] EXCEPT !.clean = FALSE]]
      BY <2>1, Zenon DEF Begin
    <3>2. QED
      BY <3>1
  <2>2. ASSUME NEW e \in Editor, NEW a \in Agent, Ask(e, a)
        PROVE  SendLoad(b) \/ load'[b] = load[b]
    <3>1. load' = load
      BY <2>2, Zenon DEF Ask, centerVars
    <3>2. QED
      BY <3>1
  <2>3. ASSUME NEW e \in Editor, NEW a \in Agent, AskFails(e, a)
        PROVE  SendLoad(b) \/ load'[b] = load[b]
    <3>1. load' = load
      BY <2>3, Zenon DEF AskFails, Fail, centerVars
    <3>2. QED
      BY <3>1
  <2>4. ASSUME NEW e \in Editor, NEW a \in Agent, Answered(e, a)
        PROVE  SendLoad(b) \/ load'[b] = load[b]
    <3>1. load' = load
      BY <2>4, Zenon DEF Answered, centerVars
    <3>2. QED
      BY <3>1
  <2>5. ASSUME NEW e \in Editor, NEW a \in Agent, Timeout(e, a)
        PROVE  SendLoad(b) \/ load'[b] = load[b]
    <3>1. load' = load
      BY <2>5, Zenon DEF Timeout, Fail, centerVars
    <3>2. QED
      BY <3>1
  <2>6. ASSUME NEW e \in Editor, NEW done \in BOOLEAN, Write(e, done)
        PROVE  SendLoad(b) \/ load'[b] = load[b]
    <3>1. load' = load
      BY <2>6, Zenon DEF Write, centerVars
    <3>2. QED
      BY <3>1
  <2>7. ASSUME NEW a \in Agent, Connect(a)
        PROVE  SendLoad(b) \/ load'[b] = load[b]
    <3>1. load' = load
      BY <2>7, Zenon DEF Connect, centerVars
    <3>2. QED
      BY <3>1
  <2>8. ASSUME NEW a \in Agent, SaveStream(a)
        PROVE  SendLoad(b) \/ load'[b] = load[b]
    <3>1. load' = load
      BY <2>8, Zenon DEF SaveStream, centerVars
    <3>2. QED
      BY <3>1
  <2>9. ASSUME NEW a \in Agent, ReadStore(a)
        PROVE  SendLoad(b) \/ load'[b] = load[b]
    BY <2>9 DEF ReadStore, centerVars, agentVars
  <2>10. ASSUME NEW a \in Agent, SendLoad(a)
        PROVE  SendLoad(b) \/ load'[b] = load[b]
    <3>1. CASE b = a
      BY <2>10, <3>1
    <3>2. CASE b # a
      BY <2>10, <3>2 DEF SendLoad
    <3>3. QED
      BY <3>1, <3>2
  <2>11. ASSUME NEW a \in Agent, LoadAnswered(a)
        PROVE  SendLoad(b) \/ load'[b] = load[b]
    <3>1. PICK id \in Loads \ {load[a].id} :
            load' = [load EXCEPT ![a] = [NoLoad EXCEPT !.id = id]]
      BY <2>11, Zenon DEF LoadAnswered
    <3>2. QED
      BY <3>1 DEF NoLoad
  <2>12. ASSUME NEW a \in Agent, LoadTimeout(a)
        PROVE  SendLoad(b) \/ load'[b] = load[b]
    <3>1. load' = [load EXCEPT ![a] = NoLoad]
      BY <2>12, Zenon DEF LoadTimeout, EndStream
    <3>2. QED
      BY <3>1 DEF NoLoad
  <2>13. ASSUME NEW a \in Agent, HandlerReturns(a)
        PROVE  SendLoad(b) \/ load'[b] = load[b]
    <3>1. load' = [load EXCEPT ![a] = NoLoad]
      BY <2>13, Zenon DEF HandlerReturns, EndStream
    <3>2. QED
      BY <3>1 DEF NoLoad
  <2>14. ASSUME NEW a \in Agent, SendPing(a)
        PROVE  SendLoad(b) \/ load'[b] = load[b]
    <3>1. load' = load
      BY <2>14, Zenon DEF SendPing, centerVars
    <3>2. QED
      BY <3>1
  <2>15. ASSUME NEW a \in Agent, Receive(a)
        PROVE  SendLoad(b) \/ load'[b] = load[b]
    <3>1. load' = load
      BY <2>15, Zenon DEF Receive, centerVars
    <3>2. QED
      BY <3>1
  <2>16. ASSUME NEW a \in Agent, Handle(a)
        PROVE  SendLoad(b) \/ load'[b] = load[b]
    <3>1. load' = load
      BY <2>16, Zenon DEF Handle, centerVars
    <3>2. QED
      BY <3>1
  <2>17. ASSUME NEW a \in Agent, Apply(a)
        PROVE  SendLoad(b) \/ load'[b] = load[b]
    <3>1. load' = load
      BY <2>17, Zenon DEF Apply, centerVars
    <3>2. QED
      BY <3>1
  <2>18. ASSUME NEW a \in Agent, CalcPlanHash(a)
        PROVE  SendLoad(b) \/ load'[b] = load[b]
    <3>1. load' = load
      BY <2>18, Zenon DEF CalcPlanHash, centerVars
    <3>2. QED
      BY <3>1
  <2>19. ASSUME NEW a \in Agent, StreamEnds(a)
        PROVE  SendLoad(b) \/ load'[b] = load[b]
    <3>1. load' = [load EXCEPT ![a] = NoLoad]
      BY <2>19, Zenon DEF StreamEnds, Drop
    <3>2. QED
      BY <3>1 DEF NoLoad
  <2>20. ASSUME NEW a \in Agent, Break(a)
        PROVE  SendLoad(b) \/ load'[b] = load[b]
    <3>1. load' = [load EXCEPT ![a] = NoLoad]
      BY <2>20, Zenon DEF Break, Drop
    <3>2. QED
      BY <3>1 DEF NoLoad
  <2>21. ASSUME NEW a \in Agent, Reload(a)
        PROVE  SendLoad(b) \/ load'[b] = load[b]
    <3>1. load' = [load EXCEPT ![a] = NoLoad]
      BY <2>21, Zenon DEF Reload, Drop
    <3>2. QED
      BY <3>1 DEF NoLoad
  <2>22. ASSUME NEW a \in Agent, Restart(a)
        PROVE  SendLoad(b) \/ load'[b] = load[b]
    <3>1. load' = [load EXCEPT ![a] = NoLoad]
      BY <2>22, Zenon DEF Restart, Drop
    <3>2. QED
      BY <3>1 DEF NoLoad
  <2>23. ASSUME NEW a \in Agent, Reregister(a)
        PROVE  SendLoad(b) \/ load'[b] = load[b]
    <3>1. load' = load
      BY <2>23, Zenon DEF Reregister, centerVars
    <3>2. QED
      BY <3>1
  <2>24. CASE UNCHANGED planVars
    BY <2>24, Zenon DEF planVars
  <2> HIDE DEF LoadTyped, Snapshots
  <2> QED
    BY <2>1, <2>2, <2>3, <2>4, <2>5, <2>6, <2>7, <2>8, <2>9, <2>10,
       <2>11, <2>12, <2>13, <2>14, <2>15, <2>16, <2>17, <2>18, <2>19, <2>20,
       <2>21, <2>22, <2>23, <2>24, Zenon
       DEF PlanNext

\* What a clean agent was asked or told stays the last that was sent to it.
LEMMA EditsLastStep ==
  ASSUME PlanTyped, EditsInTurn, EditsUnknown, EditsLast, [PlanNext]_planVars
  PROVE  EditsLast'
<1>1. SUFFICES
        ASSUME NEW f \in Editor, NEW b \in edit'[f].clean, b \in Agent
        PROVE  /\ edit'[f].asked = {b} =>
                    Last(wire'[b], cell'[b], hands'[b], inbox'[b], table'[b],
                         replies'[b], f, edit'[f].val)
               /\ b \in edit'[f].told =>
                    Quiet(wire'[b], cell'[b], hands'[b], inbox'[b], table'[b],
                          Effect(edit'[f].val))
  <2>1. EditTyped'
    BY EditTypedStep DEF PlanTyped
  <2>2. \A f \in Editor : edit'[f].clean \subseteq Agent
    BY <2>1 DEF EditTyped, Edits
  <2>3. QED
    BY <2>2, Zenon DEF EditsLast, LastAt, QuietAt
<1>2. /\ EditTyped /\ LoadTyped /\ b \in Agent
      /\ f \in Author /\ f \in Source
      /\ edit[f].val \in Definition
  BY <1>1, AuthorsAreNoPings DEF PlanTyped, EditTyped, Edits
<1>3. ~SendLoad(b) /\ ~Reload(b) /\ ~Restart(b)
  BY <1>1, <1>2, CleanIsLeft, Zenon
<1>4. /\ b \in edit[f].clean \/ (edit'[f].asked = {} /\ edit'[f].told = {})
      /\ edit'[f].asked = {b} =>
           Ask(f, b) \/ (edit[f].asked = {b} /\ edit'[f].val = edit[f].val)
      /\ b \in edit'[f].told =>
           /\ edit'[f].val = edit[f].val
           /\ b \in edit[f].told \/ Answered(f, b)
  BY <1>1, <1>2, EditsStay, Zenon
<1>5. ASSUME NEW e \in Editor, Ask(e, b), e # f PROVE FALSE
  <2>1. e \in Busy /\ edit'[f] = edit[f]
    BY <1>2, <1>5, AskIsOnce DEF Busy
  <2>2. QED
    BY <1>1, <1>5, <2>1 DEF EditsInTurn
<1>6. CASE Ask(f, b)
  <2>1. /\ b \in edit[f].todo /\ b \notin edit'[f].told
        /\ edit'[f].val = edit[f].val
    BY <1>2, <1>6, AskIsOnce
  <2>2. UnknownAt(b, f)
    BY <1>2, <2>1, Zenon DEF EditsUnknown
  <2>3. Last(wire'[b], cell'[b], hands'[b], inbox'[b], table'[b],
             replies'[b], f, edit[f].val)
    BY <1>2, <1>6, <2>2, AskPlaces, SentIsLast, Zenon DEF UnknownAt
  <2>4. QED
    BY <2>1, <2>3, Zenon
<1>7. CASE ~Ask(f, b)
  <2>1. Keeps(b)
    BY <1>2, <1>3, <1>5, <1>7, StepKeeps, Zenon DEF Moves
  <2>2. ASSUME edit'[f].asked = {b}
        PROVE  Last(wire'[b], cell'[b], hands'[b], inbox'[b], table'[b],
                    replies'[b], f, edit'[f].val)
    <3>1. /\ edit[f].asked = {b} /\ edit'[f].val = edit[f].val
          /\ b \in edit[f].clean
      BY <1>4, <1>7, <2>2
    <3>2. LastAt(b, f, edit[f].val)
      BY <3>1, Zenon DEF EditsLast
    <3>3. QED
      BY <1>2, <2>1, <3>1, <3>2, Zenon DEF Keeps
  <2>3. ASSUME b \in edit'[f].told
        PROVE  Quiet(wire'[b], cell'[b], hands'[b], inbox'[b], table'[b],
                     Effect(edit'[f].val))
    <3>1. edit'[f].val = edit[f].val /\ b \in edit[f].clean
      BY <1>4, <2>3
    <3>2. CASE b \in edit[f].told
      BY <2>1, <3>1, <3>2, Zenon DEF EditsLast, Keeps
    <3>3. CASE Answered(f, b)
      <4>1. edit[f].asked = {b} /\ f \in replies[b]
        BY <3>3, Zenon DEF Answered
      <4>2. LastAt(b, f, edit[f].val)
        BY <3>1, <4>1, Zenon DEF EditsLast
      <4>3. QuietAt(b, Effect(edit[f].val))
        BY <4>1, <4>2, Zenon DEF LastAt, Last, QuietAt
      <4>4. QED
        BY <2>1, <3>1, <4>3, Zenon DEF Keeps
    <3>4. QED
      BY <1>4, <2>3, <3>2, <3>3, Zenon
  <2>4. QED
    BY <2>2, <2>3, Zenon
<1>8. QED
  BY <1>6, <1>7, Zenon

\* So does what a clean snapshot sent.
LEMMA LoadsLastStep ==
  ASSUME PlanTyped, EditsInTurn, LoadsInTurn, LoadsClean, LoadsLast,
         [PlanNext]_planVars
  PROVE  LoadsLast'
<1>1. SUFFICES
        ASSUME NEW b \in Agent, load'[b].clean, load'[b].step = "sent"
        PROVE  Last(wire'[b], cell'[b], hands'[b], inbox'[b], table'[b],
                    replies'[b], load'[b].id, load'[b].val)
  BY Zenon DEF LoadsLast, LastAt
<1>2. /\ EditTyped /\ LoadTyped
      /\ load[b].id \in Author /\ load[b].id \in Source
      /\ load[b].val \in Definition
  BY <1>1, AuthorsAreNoPings DEF PlanTyped, LoadTyped, Snapshots
<1>3. CASE SendLoad(b)
  <2>1. load' = [load EXCEPT ![b].step = "sent"] /\ load[b].step = "read"
    BY <1>3, Zenon DEF SendLoad
  <2>2. load'[b].id = load[b].id /\ load'[b].val = load[b].val
    BY <1>2, <2>1 DEF LoadTyped, Snapshots
  <2>3. UnknownAt(b, load[b].id)
    <3>1. LoadTurn(stream[b], wire[b], cell[b], replies[b], load[b].step,
                   load[b].id)
      BY DEF LoadsInTurn
    <3>2. load[b].id \in Loads
      BY <1>2 DEF LoadTyped, Snapshots
    <3>3. QED
      BY <2>1, <3>1, <3>2 DEF LoadTurn, NoLoads, UnknownAt, Unknown
  <2>4. QED
    BY <1>2, <1>3, <2>2, <2>3, SendPlaces, SentIsLast, Zenon DEF UnknownAt
<1>4. CASE ~SendLoad(b)
  <2>1. load'[b] = load[b]
    BY <1>1, <1>2, <1>4, LoadsStay, Zenon
  <2>2. ~Reload(b) /\ ~Restart(b)
    <3>1. ASSUME Reload(b) \/ Restart(b) PROVE FALSE
      BY <1>1, <3>1, ResetPlaces DEF NoLoad
    <3>2. QED
      BY <3>1
  <2>3. ASSUME NEW e \in Editor, Ask(e, b) PROVE FALSE
    <3>1. e \in Busy
      BY <1>2, <2>3, AskIsOnce DEF Busy
    <3>2. QED
      BY <1>1, <2>1, <3>1 DEF LoadsClean
  <2>4. Keeps(b)
    BY <1>4, <2>2, <2>3, StepKeeps, Zenon DEF Moves
  <2>5. LastAt(b, load[b].id, load[b].val)
    BY <1>1, <2>1, Zenon DEF LoadsLast
  <2>6. QED
    BY <1>2, <2>1, <2>4, <2>5, Zenon DEF Keeps
<1>5. QED
  BY <1>3, <1>4

\* What is sent to an agent, and what empties its table, ends its being sure.
LEMMA MovedIsUnsure ==
  ASSUME SureTyped, NEW b \in Agent, Moves(b)
  PROVE  ~sure'[b]
<1>1. sure' = [sure EXCEPT ![b] = FALSE]
  BY Zenon DEF Moves, Ask, SendLoad, Reload, Restart
<1>2. QED
  BY <1>1 DEF SureTyped

\* An agent that is sure was so, or was told what is written now, or has
\* answered a clean snapshot.
LEMMA SureStays ==
  ASSUME SureTyped, [PlanNext]_planVars, NEW b \in Agent, sure'[b]
  PROVE  \/ sure[b] /\ store' = store
         \/ \E e \in Editor : /\ b \in edit[e].told \intersect edit[e].clean
                             /\ store' = edit[e].val
         \/ LoadAnswered(b) /\ load[b].clean
<1> DEFINE Goal ==
          \/ sure[b] /\ store' = store
          \/ \E f \in Editor : /\ b \in edit[f].told \intersect edit[f].clean
                              /\ store' = edit[f].val
          \/ LoadAnswered(b) /\ load[b].clean
<1>1. Goal
  <2> USE SureTyped DEF SureTyped
  <2>1. ASSUME NEW e \in Editor, NEW v \in Definition, Begin(e, v)
        PROVE  Goal
    <3>1. sure' = sure /\ store' = store
      BY <2>1, Zenon DEF Begin, centerVars
    <3>2. QED
      BY <3>1, Zenon
  <2>2. ASSUME NEW e \in Editor, NEW a \in Agent, Ask(e, a)
        PROVE  Goal
    <3>1. sure' = [sure EXCEPT ![a] = FALSE] /\ store' = store
      BY <2>2, Zenon DEF Ask, centerVars
    <3>2. sure[b]
      BY <3>1
    <3>3. QED
      BY <3>1, <3>2, Zenon
  <2>3. ASSUME NEW e \in Editor, NEW a \in Agent, AskFails(e, a)
        PROVE  Goal
    <3>1. sure' = sure /\ store' = store
      BY <2>3, Zenon DEF AskFails, Fail, centerVars
    <3>2. QED
      BY <3>1, Zenon
  <2>4. ASSUME NEW e \in Editor, NEW a \in Agent, Answered(e, a)
        PROVE  Goal
    <3>1. sure' = sure /\ store' = store
      BY <2>4, Zenon DEF Answered, centerVars
    <3>2. QED
      BY <3>1, Zenon
  <2>5. ASSUME NEW e \in Editor, NEW a \in Agent, Timeout(e, a)
        PROVE  Goal
    <3>1. sure' = sure /\ store' = store
      BY <2>5, Zenon DEF Timeout, Fail, centerVars
    <3>2. QED
      BY <3>1, Zenon
  <2>6. ASSUME NEW e \in Editor, NEW done \in BOOLEAN, Write(e, done)
        PROVE  Goal
    <3>1. CASE done
      <4>1. /\ store' = edit[e].val
            /\ sure' = [c \in Agent |->
                          c \in edit[e].told \intersect edit[e].clean]
        BY <2>6, <3>1, Zenon DEF Write
      <4>2. b \in edit[e].told \intersect edit[e].clean
        BY <4>1, Zenon
      <4>3. QED
        BY <4>1, <4>2, Zenon
    <3>2. CASE ~done
      BY <2>6, <3>2, Zenon DEF Write
    <3>3. QED
      BY <3>1, <3>2
  <2>7. ASSUME NEW a \in Agent, Connect(a)
        PROVE  Goal
    <3>1. sure' = sure /\ store' = store
      BY <2>7, Zenon DEF Connect, centerVars
    <3>2. QED
      BY <3>1, Zenon
  <2>8. ASSUME NEW a \in Agent, SaveStream(a)
        PROVE  Goal
    <3>1. sure' = sure /\ store' = store
      BY <2>8, Zenon DEF SaveStream, centerVars
    <3>2. QED
      BY <3>1, Zenon
  <2>9. ASSUME NEW a \in Agent, ReadStore(a)
        PROVE  Goal
    <3>1. sure' = sure /\ store' = store
      BY <2>9, Zenon DEF ReadStore, centerVars
    <3>2. QED
      BY <3>1, Zenon
  <2>10. ASSUME NEW a \in Agent, SendLoad(a)
        PROVE  Goal
    <3>1. sure' = [sure EXCEPT ![a] = FALSE] /\ store' = store
      BY <2>10, Zenon DEF SendLoad, centerVars
    <3>2. sure[b]
      BY <3>1
    <3>3. QED
      BY <3>1, <3>2, Zenon
  <2>11. ASSUME NEW a \in Agent, LoadAnswered(a)
        PROVE  Goal
    <3>1. sure' = [sure EXCEPT ![a] = load[a].clean] /\ store' = store
      BY <2>11, Zenon DEF LoadAnswered
    <3>2. CASE b = a
      <4>1. load[b].clean
        BY <3>1, <3>2
      <4>2. QED
        BY <2>11, <3>2, <4>1, Zenon
    <3>3. CASE b # a
      <4>1. sure[b]
        BY <3>1, <3>3
      <4>2. QED
        BY <3>1, <4>1, Zenon
    <3>4. QED
      BY <3>2, <3>3
  <2>12. ASSUME NEW a \in Agent, LoadTimeout(a)
        PROVE  Goal
    <3>1. sure' = sure /\ store' = store
      BY <2>12, Zenon DEF LoadTimeout, EndStream, centerVars
    <3>2. QED
      BY <3>1, Zenon
  <2>13. ASSUME NEW a \in Agent, HandlerReturns(a)
        PROVE  Goal
    <3>1. sure' = sure /\ store' = store
      BY <2>13, Zenon DEF HandlerReturns, EndStream, centerVars
    <3>2. QED
      BY <3>1, Zenon
  <2>14. ASSUME NEW a \in Agent, SendPing(a)
        PROVE  Goal
    <3>1. sure' = sure /\ store' = store
      BY <2>14, Zenon DEF SendPing, centerVars
    <3>2. QED
      BY <3>1, Zenon
  <2>15. ASSUME NEW a \in Agent, Receive(a)
        PROVE  Goal
    <3>1. sure' = sure /\ store' = store
      BY <2>15, Zenon DEF Receive, centerVars
    <3>2. QED
      BY <3>1, Zenon
  <2>16. ASSUME NEW a \in Agent, Handle(a)
        PROVE  Goal
    <3>1. sure' = sure /\ store' = store
      BY <2>16, Zenon DEF Handle, centerVars
    <3>2. QED
      BY <3>1, Zenon
  <2>17. ASSUME NEW a \in Agent, Apply(a)
        PROVE  Goal
    <3>1. sure' = sure /\ store' = store
      BY <2>17, Zenon DEF Apply, centerVars
    <3>2. QED
      BY <3>1, Zenon
  <2>18. ASSUME NEW a \in Agent, CalcPlanHash(a)
        PROVE  Goal
    <3>1. sure' = sure /\ store' = store
      BY <2>18, Zenon DEF CalcPlanHash, centerVars
    <3>2. QED
      BY <3>1, Zenon
  <2>19. ASSUME NEW a \in Agent, StreamEnds(a)
        PROVE  Goal
    <3>1. sure' = sure /\ store' = store
      BY <2>19, Zenon DEF StreamEnds, Drop, centerVars
    <3>2. QED
      BY <3>1, Zenon
  <2>20. ASSUME NEW a \in Agent, Break(a)
        PROVE  Goal
    <3>1. sure' = sure /\ store' = store
      BY <2>20, Zenon DEF Break, Drop, centerVars
    <3>2. QED
      BY <3>1, Zenon
  <2>21. ASSUME NEW a \in Agent, Reload(a)
        PROVE  Goal
    <3>1. sure' = [sure EXCEPT ![a] = FALSE] /\ store' = store
      BY <2>21, Zenon DEF Reload, Drop, centerVars
    <3>2. sure[b]
      BY <3>1
    <3>3. QED
      BY <3>1, <3>2, Zenon
  <2>22. ASSUME NEW a \in Agent, Restart(a)
        PROVE  Goal
    <3>1. sure' = [sure EXCEPT ![a] = FALSE] /\ store' = store
      BY <2>22, Zenon DEF Restart, Drop, centerVars
    <3>2. sure[b]
      BY <3>1
    <3>3. QED
      BY <3>1, <3>2, Zenon
  <2>23. ASSUME NEW a \in Agent, Reregister(a)
        PROVE  Goal
    <3>1. sure' = sure /\ store' = store
      BY <2>23, Zenon DEF Reregister, centerVars
    <3>2. QED
      BY <3>1, Zenon
  <2>24. CASE UNCHANGED planVars
    <3>1. sure' = sure /\ store' = store
      BY <2>24, Zenon DEF planVars
    <3>2. QED
      BY <3>1, Zenon
  <2> HIDE DEF SureTyped, Goal
  <2> QED
    BY <2>1, <2>2, <2>3, <2>4, <2>5, <2>6, <2>7, <2>8, <2>9, <2>10,
       <2>11, <2>12, <2>13, <2>14, <2>15, <2>16, <2>17, <2>18, <2>19, <2>20,
       <2>21, <2>22, <2>23, <2>24, Zenon
       DEF PlanNext
<1>2. QED
  BY <1>1

\* An agent that is sure holds, or will hold, what the store holds.
LEMMA SureIsQuietStep ==
  ASSUME PlanTyped, SureTyped, LoadsClean, EditsLast, LoadsLast, SureIsQuiet,
         [PlanNext]_planVars
  PROVE  SureIsQuiet'
<1>1. SUFFICES ASSUME NEW b \in Agent, sure'[b]
               PROVE  Quiet(wire'[b], cell'[b], hands'[b], inbox'[b], table'[b],
                            Effect(store'))
  BY Zenon DEF SureIsQuiet, QuietAt
<1>2. Keeps(b)
  BY <1>1, MovedIsUnsure, StepKeeps, Zenon
<1>3. CASE sure[b] /\ store' = store
  BY <1>2, <1>3, Zenon DEF SureIsQuiet, Keeps
<1>4. ASSUME NEW e \in Editor, b \in edit[e].told \intersect edit[e].clean,
             store' = edit[e].val
      PROVE  Quiet(wire'[b], cell'[b], hands'[b], inbox'[b], table'[b],
                   Effect(store'))
  <2>1. b \in edit[e].told /\ b \in edit[e].clean
    BY <1>4
  <2>2. QuietAt(b, Effect(edit[e].val))
    BY <2>1, Zenon DEF EditsLast
  <2>3. QED
    BY <1>2, <1>4, <2>2, Zenon DEF Keeps
<1>5. CASE LoadAnswered(b) /\ load[b].clean
  <2>1. /\ load[b].step = "sent" /\ load[b].id \in replies[b]
        /\ store' = store
    BY <1>5, Zenon DEF LoadAnswered
  <2>2. load[b].val = store
    BY <1>5, Zenon DEF LoadsClean
  <2>3. LastAt(b, load[b].id, store)
    BY <1>5, <2>1, <2>2, Zenon DEF LoadsLast
  <2>4. QuietAt(b, Effect(store))
    BY <2>1, <2>3, Zenon DEF LastAt, Last, QuietAt
  <2>5. QED
    BY <1>2, <2>1, <2>4, Zenon DEF Keeps
<1>6. QED
  BY <1>1, <1>3, <1>4, <1>5, SureStays, Zenon

\* A plan hash that differs from a table that is not empty is computed again.
HashKept == \A a \in Agent : hash[a] = table[a] \/ due[a] \/ table[a] = "gone"

\* Every table that changes has its hash computed again.
LEMMA HashKeptStep ==
  ASSUME PlanTyped, HashKept, [PlanNext]_planVars
  PROVE  HashKept'
<1>1. SUFFICES ASSUME NEW b \in Agent
               PROVE  hash'[b] = table'[b] \/ due'[b] \/ table'[b] = "gone"
  BY Zenon DEF HashKept
<1>2. hash[b] = table[b] \/ due[b] \/ table[b] = "gone"
  BY Zenon DEF HashKept
<1>3. QED
  <2> USE PlanTyped, <1>2 DEF PlanTyped, WiresTyped
  <2>1. ASSUME NEW e \in Editor, NEW v \in Definition, Begin(e, v)
        PROVE  hash'[b] = table'[b] \/ due'[b] \/ table'[b] = "gone"
    <3>1. hash' = hash /\ table' = table /\ due' = due
      BY <2>1, Zenon DEF Begin, agentVars
    <3>2. QED
      BY <3>1, Zenon
  <2>2. ASSUME NEW e \in Editor, NEW a \in Agent, Ask(e, a)
        PROVE  hash'[b] = table'[b] \/ due'[b] \/ table'[b] = "gone"
    <3>1. hash' = hash /\ table' = table /\ due' = due
      BY <2>2, Zenon DEF Ask, agentVars
    <3>2. QED
      BY <3>1, Zenon
  <2>3. ASSUME NEW e \in Editor, NEW a \in Agent, AskFails(e, a)
        PROVE  hash'[b] = table'[b] \/ due'[b] \/ table'[b] = "gone"
    <3>1. hash' = hash /\ table' = table /\ due' = due
      BY <2>3, Zenon DEF AskFails, Fail, agentVars
    <3>2. QED
      BY <3>1, Zenon
  <2>4. ASSUME NEW e \in Editor, NEW a \in Agent, Answered(e, a)
        PROVE  hash'[b] = table'[b] \/ due'[b] \/ table'[b] = "gone"
    <3>1. hash' = hash /\ table' = table /\ due' = due
      BY <2>4, Zenon DEF Answered, agentVars
    <3>2. QED
      BY <3>1, Zenon
  <2>5. ASSUME NEW e \in Editor, NEW a \in Agent, Timeout(e, a)
        PROVE  hash'[b] = table'[b] \/ due'[b] \/ table'[b] = "gone"
    <3>1. hash' = hash /\ table' = table /\ due' = due
      BY <2>5, Zenon DEF Timeout, Fail, agentVars
    <3>2. QED
      BY <3>1, Zenon
  <2>6. ASSUME NEW e \in Editor, NEW done \in BOOLEAN, Write(e, done)
        PROVE  hash'[b] = table'[b] \/ due'[b] \/ table'[b] = "gone"
    <3>1. hash' = hash /\ table' = table /\ due' = due
      BY <2>6, Zenon DEF Write, agentVars
    <3>2. QED
      BY <3>1, Zenon
  <2>7. ASSUME NEW a \in Agent, Connect(a)
        PROVE  hash'[b] = table'[b] \/ due'[b] \/ table'[b] = "gone"
    <3>1. hash' = hash /\ table' = table /\ due' = due
      BY <2>7, Zenon DEF Connect, agentVars
    <3>2. QED
      BY <3>1, Zenon
  <2>8. ASSUME NEW a \in Agent, SaveStream(a)
        PROVE  hash'[b] = table'[b] \/ due'[b] \/ table'[b] = "gone"
    <3>1. hash' = hash /\ table' = table /\ due' = due
      BY <2>8, Zenon DEF SaveStream, agentVars
    <3>2. QED
      BY <3>1, Zenon
  <2>9. ASSUME NEW a \in Agent, ReadStore(a)
        PROVE  hash'[b] = table'[b] \/ due'[b] \/ table'[b] = "gone"
    <3>1. hash' = hash /\ table' = table /\ due' = due
      BY <2>9, Zenon DEF ReadStore, agentVars
    <3>2. QED
      BY <3>1, Zenon
  <2>10. ASSUME NEW a \in Agent, SendLoad(a)
        PROVE  hash'[b] = table'[b] \/ due'[b] \/ table'[b] = "gone"
    <3>1. hash' = hash /\ table' = table /\ due' = due
      BY <2>10, Zenon DEF SendLoad, agentVars
    <3>2. QED
      BY <3>1, Zenon
  <2>11. ASSUME NEW a \in Agent, LoadAnswered(a)
        PROVE  hash'[b] = table'[b] \/ due'[b] \/ table'[b] = "gone"
    <3>1. hash' = hash /\ table' = table /\ due' = due
      BY <2>11, Zenon DEF LoadAnswered, agentVars
    <3>2. QED
      BY <3>1, Zenon
  <2>12. ASSUME NEW a \in Agent, LoadTimeout(a)
        PROVE  hash'[b] = table'[b] \/ due'[b] \/ table'[b] = "gone"
    <3>1. hash' = hash /\ table' = table /\ due' = due
      BY <2>12, Zenon DEF LoadTimeout, EndStream, agentVars
    <3>2. QED
      BY <3>1, Zenon
  <2>13. ASSUME NEW a \in Agent, HandlerReturns(a)
        PROVE  hash'[b] = table'[b] \/ due'[b] \/ table'[b] = "gone"
    <3>1. hash' = hash /\ table' = table /\ due' = due
      BY <2>13, Zenon DEF HandlerReturns, EndStream, agentVars
    <3>2. QED
      BY <3>1, Zenon
  <2>14. ASSUME NEW a \in Agent, SendPing(a)
        PROVE  hash'[b] = table'[b] \/ due'[b] \/ table'[b] = "gone"
    <3>1. hash' = hash /\ table' = table /\ due' = due
      BY <2>14, Zenon DEF SendPing, agentVars
    <3>2. QED
      BY <3>1, Zenon
  <2>15. ASSUME NEW a \in Agent, Receive(a)
        PROVE  hash'[b] = table'[b] \/ due'[b] \/ table'[b] = "gone"
    <3>1. hash' = hash /\ table' = table /\ due' = due
      BY <2>15, Zenon DEF Receive, agentVars
    <3>2. QED
      BY <3>1, Zenon
  <2>16. ASSUME NEW a \in Agent, Handle(a)
        PROVE  hash'[b] = table'[b] \/ due'[b] \/ table'[b] = "gone"
    <3>1. hash' = hash /\ table' = table /\ due' = due
      BY <2>16, Zenon DEF Handle, agentVars
    <3>2. QED
      BY <3>1, Zenon
  <2>17. ASSUME NEW a \in Agent, Apply(a)
        PROVE  hash'[b] = table'[b] \/ due'[b] \/ table'[b] = "gone"
    <3>1. /\ hash' = hash /\ due' = [due EXCEPT ![a] = TRUE]
          /\ table' = [table EXCEPT ![a] = Effect(Head(inbox[a]))]
      BY <2>17, Zenon DEF Apply
    <3>2. CASE b = a
      <4>1. due'[b]
        BY <3>1, <3>2
      <4>2. QED
        BY <4>1
    <3>3. CASE b # a
      <4>1. hash'[b] = hash[b] /\ table'[b] = table[b] /\ due'[b] = due[b]
        BY <3>1, <3>3
      <4>2. QED
        BY <4>1, Zenon
    <3>4. QED
      BY <3>2, <3>3
  <2>18. ASSUME NEW a \in Agent, CalcPlanHash(a)
        PROVE  hash'[b] = table'[b] \/ due'[b] \/ table'[b] = "gone"
    <3>1. /\ hash' = [hash EXCEPT ![a] = table[a]] /\ table' = table
          /\ due' = [due EXCEPT ![a] = FALSE]
      BY <2>18, Zenon DEF CalcPlanHash
    <3>2. CASE b = a
      <4>1. hash'[b] = table'[b]
        BY <3>1, <3>2
      <4>2. QED
        BY <4>1
    <3>3. CASE b # a
      <4>1. hash'[b] = hash[b] /\ table'[b] = table[b] /\ due'[b] = due[b]
        BY <3>1, <3>3
      <4>2. QED
        BY <4>1, Zenon
    <3>4. QED
      BY <3>2, <3>3
  <2>19. ASSUME NEW a \in Agent, StreamEnds(a)
        PROVE  hash'[b] = table'[b] \/ due'[b] \/ table'[b] = "gone"
    <3>1. hash' = hash /\ table' = table /\ due' = due
      BY <2>19, Zenon DEF StreamEnds, Drop, agentVars
    <3>2. QED
      BY <3>1, Zenon
  <2>20. ASSUME NEW a \in Agent, Break(a)
        PROVE  hash'[b] = table'[b] \/ due'[b] \/ table'[b] = "gone"
    <3>1. hash' = hash /\ table' = table /\ due' = due
      BY <2>20, Zenon DEF Break, Drop, agentVars
    <3>2. QED
      BY <3>1, Zenon
  <2>21. ASSUME NEW a \in Agent, Reload(a)
        PROVE  hash'[b] = table'[b] \/ due'[b] \/ table'[b] = "gone"
    <3>1. /\ hash' = hash /\ due' = due
          /\ table' = [table EXCEPT ![a] = "gone"]
      BY <2>21, Zenon DEF Reload
    <3>2. table'[b] = table[b] \/ table'[b] = "gone"
      BY <3>1
    <3>3. QED
      BY <3>1, <3>2, Zenon
  <2>22. ASSUME NEW a \in Agent, Restart(a)
        PROVE  hash'[b] = table'[b] \/ due'[b] \/ table'[b] = "gone"
    <3>1. /\ hash' = [hash EXCEPT ![a] = "gone"]
          /\ due' = [due EXCEPT ![a] = FALSE]
          /\ table' = [table EXCEPT ![a] = "gone"]
      BY <2>22, Zenon DEF Restart
    <3>2. CASE b = a
      <4>1. table'[b] = "gone"
        BY <3>1, <3>2
      <4>2. QED
        BY <4>1
    <3>3. CASE b # a
      <4>1. hash'[b] = hash[b] /\ table'[b] = table[b] /\ due'[b] = due[b]
        BY <3>1, <3>3
      <4>2. QED
        BY <4>1, Zenon
    <3>4. QED
      BY <3>2, <3>3
  <2>23. ASSUME NEW a \in Agent, Reregister(a)
        PROVE  hash'[b] = table'[b] \/ due'[b] \/ table'[b] = "gone"
    <3>1. hash' = hash /\ table' = table /\ due' = due
      BY <2>23, Zenon DEF Reregister, agentVars
    <3>2. QED
      BY <3>1, Zenon
  <2>24. CASE UNCHANGED planVars
    <3>1. hash' = hash /\ table' = table /\ due' = due
      BY <2>24, Zenon DEF planVars, agentVars
    <3>2. QED
      BY <3>1, Zenon
  <2> HIDE DEF PlanTyped
  <2> QED
    BY <2>1, <2>2, <2>3, <2>4, <2>5, <2>6, <2>7, <2>8, <2>9, <2>10,
       <2>11, <2>12, <2>13, <2>14, <2>15, <2>16, <2>17, <2>18, <2>19, <2>20,
       <2>21, <2>22, <2>23, <2>24, Zenon
       DEF PlanNext

\* What the plan table's two theorems rest on.
PlanInv ==
  /\ PlanTyped /\ SureTyped /\ EditsInTurn /\ EditsUnknown /\ LoadsInTurn
  /\ LoadsClean /\ EditsLast /\ LoadsLast /\ SureIsQuiet /\ HashKept

\* All of it holds at first, when every table is empty,
LEMMA PlanInvInit == PlanInit => PlanInv
<1> SUFFICES ASSUME PlanInit PROVE PlanInv
  OBVIOUS
<1>1. PlanTyped /\ SureTyped
  BY AuthorsAreNoPings
     DEF PlanInit, PlanTyped, SureTyped, EditTyped, Edits, WiresTyped, HandsTyped,
         LoadTyped, Snapshots, StoreTyped, NoEdit, NoLoad, Definition, Loads
<1>2. \A e \in Editor : edit[e] = NoEdit
  BY DEF PlanInit
<1>3. \A a \in Agent :
        /\ load[a] = NoLoad /\ stream[a] = "down" /\ wire[a] = <<>>
        /\ cell[a] = Nothing /\ hands[a] = 0 /\ replies[a] = {}
        /\ inbox[a] = <<>> /\ table[a] = "gone" /\ hash[a] = "gone"
  BY DEF PlanInit
<1>4. EditsInTurn
  BY <1>2 DEF EditsInTurn, NoEdit
<1>5. EditsUnknown
  BY <1>3, DropKeeps, AuthorsAreNoPings, Zenon DEF EditsUnknown, UnknownAt
<1>6. LoadsInTurn
  BY <1>3 DEF LoadsInTurn, LoadTurn, NoLoad
<1>7. LoadsClean /\ LoadsLast
  BY <1>3 DEF LoadsClean, LoadsLast, NoLoad
<1>8. EditsLast
  BY <1>2 DEF EditsLast, NoEdit
<1>9. SureIsQuiet
  <2>1. Effect(store) = "gone"
    BY DEF PlanInit, Effect
  <2>2. Settled(<<>>, "gone") = "gone"
    BY DEF Settled
  <2>3. ~(0 > 0)
    OBVIOUS
  <2>4. QED
    BY <1>3, <2>1, <2>2, <2>3, WireEmpty, Zenon DEF SureIsQuiet, QuietAt, Quiet
<1>10. HashKept
  BY <1>3, Zenon DEF HashKept
<1>11. QED
  BY <1>1, <1>4, <1>5, <1>6, <1>7, <1>8, <1>9, <1>10 DEF PlanInv

\* and no step breaks it.
LEMMA PlanInvStep == PlanInv /\ [PlanNext]_planVars => PlanInv'
<1> SUFFICES ASSUME PlanInv, [PlanNext]_planVars PROVE PlanInv'
  OBVIOUS
<1> USE DEF PlanInv
<1>1. PlanTyped' /\ SureTyped'
  <2>1. EditTyped /\ WiresTyped /\ HandsTyped /\ LoadTyped /\ StoreTyped
    BY DEF PlanTyped
  <2>2. EditTyped' /\ WiresTyped' /\ HandsTyped' /\ LoadTyped' /\ StoreTyped'
        /\ SureTyped'
    BY <2>1, EditTypedStep, WiresTypedStep, HandsTypedStep, LoadTypedStep,
       StoreTypedStep, SureTypedStep
  <2>3. QED
    BY <2>2 DEF PlanTyped
<1>2. EditsInTurn'
  BY EditsInTurnStep DEF PlanTyped
<1>3. EditsUnknown'
  BY EditsUnknownStep
<1>4. LoadsInTurn'
  BY LoadsInTurnStep
<1>5. LoadsClean'
  BY LoadsCleanStep
<1>6. EditsLast'
  BY EditsLastStep
<1>7. LoadsLast'
  BY LoadsLastStep
<1>8. SureIsQuiet'
  BY SureIsQuietStep
<1>9. HashKept'
  BY HashKeptStep
<1>10. QED
  BY <1>1, <1>2, <1>3, <1>4, <1>5, <1>6, <1>7, <1>8, <1>9

\* Every variable of the plan table's way keeps its type.
THEOREM PlanTypeCorrect == PlanSpec => []PlanTypeOK
<1>1. PlanInit => SpentTyped
  BY PlanAssumption DEF PlanInit, SpentTyped
<1>2. PlanInv /\ SpentTyped => PlanTypeOK
  <2> SUFFICES ASSUME PlanInv, SpentTyped PROVE PlanTypeOK
    OBVIOUS
  <2>1. /\ EditTyped /\ WiresTyped /\ HandsTyped /\ LoadTyped /\ StoreTyped
        /\ SureTyped
    BY DEF PlanInv, PlanTyped
  <2>2. \A e \in Editor :
          /\ edit[e].step \in {"before", "busy", "over"}
          /\ edit[e].val \in Definition
          /\ edit[e].todo \subseteq Agent /\ edit[e].asked \subseteq Agent
          /\ edit[e].told \subseteq Agent /\ edit[e].lost \subseteq Agent
          /\ edit[e].clean \subseteq Agent
    BY <2>1 DEF EditTyped, Edits
  <2>3. ASSUME NEW a \in Agent
        PROVE  /\ \A i \in 1..Len(wire[a]) : wire[a][i] \in Event
               /\ \A i \in 1..Len(inbox[a]) : inbox[a][i] \in Definition
    <3>1. wire[a] \in Seq(Event) /\ inbox[a] \in Seq(Definition)
      BY <2>1 DEF WiresTyped
    <3>2. QED
      BY <3>1
  <2>4. load \in [Agent -> [step : {"none", "read", "sent"}, val : Definition,
                           clean : BOOLEAN, id : Loads]]
    BY <2>1 DEF LoadTyped, Snapshots
  <2>5. QED
    BY <2>1, <2>2, <2>3, <2>4, Zenon
       DEF PlanTypeOK, WiresTyped, HandsTyped, StoreTyped, SureTyped, SpentTyped
<1>3. QED
  BY <1>1, <1>2, PlanInvInit, PlanInvStep, SpentTypedStep, PTL DEF PlanSpec

\* An agent's plan table holds what etcd holds once its channel is empty, as
\* long as every change reached it alone (app/etcd.go, agent/scheduler.go).
THEOREM InSyncAlways == PlanSpec => []InSync
<1>1. PlanInv => InSync
  <2> SUFFICES ASSUME PlanInv, NEW a \in Agent
               PROVE  /\ sure[a] /\ inbox[a] = <<>> => table[a] = Effect(store)
                      /\ hash[a] = table[a] \/ due[a] \/ table[a] = "gone"
    BY Zenon DEF InSync
  <2>1. ASSUME sure[a], inbox[a] = <<>> PROVE table[a] = Effect(store)
    BY <2>1, Zenon DEF PlanInv, SureIsQuiet, QuietAt, Quiet, Settled
  <2>2. QED
    BY <2>1, Zenon DEF PlanInv, HashKept
<1>2. QED
  BY <1>1, PlanInvInit, PlanInvStep, PTL DEF PlanSpec

-----------------------------------------------------------------------------
(***************************************************************************)
(* EventReply.                                                             *)
(***************************************************************************)
\* Taking an answer from a channel with one place leaves none.
LEMMA OneTaken ==
  ASSUME NEW n \in 0..1, NEW m, (m = n - 1 /\ n > 0) \/ m = n
  PROVE  m \in 0..1 /\ (m = 1 => n = 1)
OBVIOUS

\* An answer put into it when there is none fills it.
LEMMA OnePut ==
  ASSUME NEW n \in 0..1, n # 1, NEW m, m = n + 1
  PROVE  m \in 0..1
OBVIOUS

\* Every variable keeps its type; nobody but a delivery or the closer has the
\* mutex of the entry, and one of them at a time (registry.go).
THEOREM ReplyTypeCorrect == ReplySpec => []ReplyTypeOK
<1> USE DEF ReplyTypeOK
<1>1. ReplyInit => ReplyTypeOK
  <2>1. 0 \in 0..1
    OBVIOUS
  <2>2. QED
    BY <2>1, Zenon DEF ReplyInit
<1>2. ASSUME ReplyTypeOK, [ReplyNext]_replyVars PROVE ReplyTypeOK'
  <2> USE <1>2
  <2>1. CASE SetEntry
    BY <2>1 DEF SetEntry
  <2>2. CASE Expire
    BY <2>2 DEF Expire
  <2>3. CASE SendFails
    BY <2>3 DEF SendFails
  <2>4. CASE CloserLocks
    BY <2>4 DEF CloserLocks
  <2>5. CASE CloserCloses
    BY <2>5 DEF CloserCloses
  <2>6. ASSUME NEW x \in {"answered", "gave up"}, Finish(x)
        PROVE ReplyTypeOK'
    <3>1. \/ buffered' = buffered - 1 /\ buffered > 0
          \/ buffered' = buffered
      BY <2>6, Zenon DEF Finish
    <3>2. buffered' \in 0..1
      BY <3>1, OneTaken, Zenon
    <3>3. QED
      BY <2>6, <3>2, Zenon DEF Finish
  <2>7. ASSUME NEW d \in Delivery, Find(d) PROVE ReplyTypeOK'
    BY <2>7 DEF Find, Step
  <2>8. ASSUME NEW d \in Delivery, TryLock(d) PROVE ReplyTypeOK'
    BY <2>8 DEF TryLock, Step
  <2>9. ASSUME NEW d \in Delivery, CheckOpen(d) PROVE ReplyTypeOK'
    BY <2>9 DEF CheckOpen, Step
  <2>10. ASSUME NEW d \in Delivery, Deliver(d) PROVE ReplyTypeOK'
    <3>1. buffered' = buffered \/ (buffered # 1 /\ buffered' = buffered + 1)
      BY <2>10, Zenon DEF Deliver
    <3>2. buffered' \in 0..1
      BY <3>1, OnePut, Zenon
    <3>3. QED
      BY <2>10, <3>2, Zenon DEF Deliver, Step
  <2>11. CASE UNCHANGED replyVars
    BY <2>11 DEF replyVars
  <2>12. QED
    BY <2>1, <2>2, <2>3, <2>4, <2>5, <2>6, <2>7, <2>8, <2>9, <2>10, <2>11
       DEF ReplyNext
<1>3. QED
  BY <1>1, <1>2, PTL DEF ReplySpec

\* What the mutex and the flag are for: whoever is between TryLock and Unlock
\* has the mutex; an entry whose channel is full or closed, or is about to be
\* closed, is marked; and a delivery that has found the entry open has not
\* been overtaken.
MutexAndFlag ==
  /\ \A d \in Delivery : delivery[d] \in {"locked", "open"} => holder = {d}
  /\ Closer \in holder => isClose
  /\ gone \/ buffered = 1 => isClose
  /\ \A d \in Delivery : delivery[d] = "open" => ~isClose

\* NoPanic is not inductive: that the channel is neither full nor closed when
\* Deliver sends follows from the mutex and the flag.
ReplyInv == MutexAndFlag /\ NoPanic

\* No answer, however late or repeated, makes RecvStreamResponse send on a
\* full or a closed channel (registry.go).
THEOREM NobodyPanics == ReplySpec => []NoPanic
<1> USE DEF ReplyTypeOK
<1> USE DEF ReplyInv, MutexAndFlag, NoPanic
<1>1. ReplyInit => ReplyInv
  BY DEF ReplyInit
<1>2. ASSUME ReplyTypeOK, ReplyInv, [ReplyNext]_replyVars PROVE ReplyInv'
  <2> USE <1>2
  <2>1. CASE SetEntry
    BY <2>1 DEF SetEntry
  <2>2. CASE Expire
    BY <2>2 DEF Expire
  <2>3. CASE SendFails
    BY <2>3 DEF SendFails
  <2>4. CASE CloserLocks
    BY <2>4, ReplyAssumption DEF CloserLocks
  <2>5. CASE CloserCloses
    BY <2>5, ReplyAssumption DEF CloserCloses
  <2>6. ASSUME NEW x \in {"answered", "gave up"}, Finish(x) PROVE ReplyInv'
    <3>1. \/ buffered' = buffered - 1 /\ buffered > 0
          \/ buffered' = buffered
      BY <2>6, Zenon DEF Finish
    <3>2. buffered' = 1 => buffered = 1
      BY <3>1, OneTaken, Zenon
    <3>3. QED
      BY <2>6, <3>2, Zenon DEF Finish
  <2>7. ASSUME NEW d \in Delivery, Find(d) PROVE ReplyInv'
    BY <2>7 DEF Find, Step
  <2>8. ASSUME NEW d \in Delivery, TryLock(d) PROVE ReplyInv'
    BY <2>8, ReplyAssumption DEF TryLock, Step
  <2>9. ASSUME NEW d \in Delivery, CheckOpen(d) PROVE ReplyInv'
    BY <2>9, ReplyAssumption DEF CheckOpen, Step
  <2>10. ASSUME NEW d \in Delivery, Deliver(d) PROVE ReplyInv'
    BY <2>10, ReplyAssumption DEF Deliver, Step
  <2>11. CASE UNCHANGED replyVars
    BY <2>11 DEF replyVars
  <2>12. QED
    BY <2>1, <2>2, <2>3, <2>4, <2>5, <2>6, <2>7, <2>8, <2>9, <2>10, <2>11
       DEF ReplyNext
<1>3. ReplyInv => NoPanic
  OBVIOUS
<1>4. QED
  BY <1>1, <1>2, <1>3, ReplyTypeCorrect, PTL DEF ReplySpec

-----------------------------------------------------------------------------
(***************************************************************************)
(* AgentRegister: who listens to the current stream.                       *)
(***************************************************************************)

\* The shape of the state that the argument needs; a stream that was not opened
\* has nothing, and receivingLocker is held by the one loop that runs.
Listening ==
  /\ cur \in Thread /\ receiving \in Thread /\ killed \subseteq Stream
  /\ loop \in [Stream -> {"none", "top", "recv", "over"}]
  /\ pc \in [Thread -> {"idle", "register", "lock", "open", "hang", "sleep",
                        "done"}]
  /\ chan \in [Stream -> {"none", "open", "load", "up", "over"}]
  /\ DOMAIN busy = Stream
  /\ \A s \in Stream : chan[s] = "none" =>
       loop[s] = "none" /\ busy[s] = <<>> /\ s \notin killed
  /\ \A s \in Stream : Looping(s) => receiving = s
  /\ receiving # 0 => Looping(receiving)

\* A thread that will open a stream.
Driving(t) == pc[t] \in {"register", "lock", "open", "sleep"}

\* While the registry is open and no event handler failed: either there is a
\* current stream, with its loop, or one thread that will open the next one; all
\* other streams were ended, and the loop of one of them can only be the one
\* whose errHandler still sleeps.
OneDriver ==
  ~failed /\ ~closed =>
    /\ cur # 0 => /\ receiving = cur /\ cur \notin killed
                  /\ chan[cur] # "none" /\ \A t \in Thread : ~Driving(t)
    /\ \A t, u \in Thread : Driving(t) /\ Driving(u) => t = u
    /\ \A s \in Stream : chan[s] # "none" /\ s # cur => s \in killed
    /\ pc[0] # "sleep"
    /\ \A s \in Stream : pc[s] = "sleep" => chan[s] = "over"
    /\ receiving # 0 /\ receiving # cur => pc[receiving] = "sleep"

\* Thread 0 is the service; every other thread is that of a stream.
LEMMA StreamsAreThreads ==
  0 \in Thread /\ 0 \notin Stream /\ Stream \subseteq Thread
    /\ \A t \in Thread : t # 0 => t \in Stream
BY RegAssumption DEF Stream, Thread

\* Every step keeps the shape of the state.
LEMMA ListeningStep == Listening /\ [RegNext]_regVars => Listening'
<1>1. SUFFICES ASSUME Listening, [RegNext]_regVars PROVE Listening'
  OBVIOUS
<1>2. QED
  <2> USE <1>1, StreamsAreThreads DEF Listening, Looping
  <2>1. ASSUME NEW t \in Thread, Register(t)
        PROVE  Listening'
    BY <2>1 DEF Register, registryVars, centerSide
  <2>2. ASSUME NEW t \in Thread, Lock(t)
        PROVE  Listening'
    BY <2>2 DEF Lock, registryVars, centerSide
  <2>3. ASSUME NEW t \in Thread, HangEnds(t)
        PROVE  Listening'
    BY <2>3 DEF HangEnds, registryVars, centerSide
  <2>4. ASSUME NEW t \in Thread, OpenFails(t)
        PROVE  Listening'
    BY <2>4 DEF OpenFails, registryVars, centerSide
  <2>5. ASSUME NEW t \in Thread, NEW s \in Stream, OpenStream(t, s)
        PROVE  Listening'
    BY <2>5 DEF OpenStream, registryVars, centerSide
  <2>6. ASSUME NEW s \in Stream, LoopTop(s)
        PROVE  Listening'
    BY <2>6 DEF LoopTop, registryVars, centerSide
  <2>7. ASSUME NEW s \in Stream, LoopReceives(s)
        PROVE  Listening'
    BY <2>7 DEF LoopReceives, registryVars, centerSide
  <2>8. ASSUME NEW s \in Stream, LoopFails(s)
        PROVE  Listening'
    BY <2>8 DEF LoopFails, ErrHandler, registryVars, centerSide
  <2>9. ASSUME NEW s \in Stream, HandleEvent(s)
        PROVE  Listening'
    BY <2>9 DEF HandleEvent, registryVars, centerSide
  <2>10. ASSUME NEW s \in Stream, HandleFails(s)
        PROVE  Listening'
    BY <2>10 DEF HandleFails, ErrHandler, registryVars, centerSide
  <2>11. ASSUME NEW s \in Stream, Wake(s)
        PROVE  Listening'
    BY <2>11 DEF Wake, registryVars, centerSide
  <2>12. ASSUME NEW s \in Stream, SnapshotTimeout(s)
        PROVE  Listening'
    BY <2>12 DEF SnapshotTimeout, registryVars, centerSide
  <2>13. ASSUME NEW s \in Stream, Lose(s)
        PROVE  Listening'
    BY <2>13 DEF Lose, registryVars, centerSide
  <2>14. ASSUME NEW s \in Stream, PushTimeout(s)
        PROVE  Listening'
    BY <2>14 DEF PushTimeout, registryVars, centerSide
  <2>15. ASSUME NEW s \in Stream, RemoveStream(s)
        PROVE  Listening'
    BY <2>15 DEF RemoveStream, registryVars, centerSide
  <2>16. ASSUME NEW s \in Stream, Return(s)
        PROVE  Listening'
    BY <2>16 DEF Return, registryVars, centerSide
  <2>17. ASSUME NEW s \in Stream, NEW kind \in {"none", "load", "malformed"},
             Accept(s, kind)
        PROVE  Listening'
    BY <2>17 DEF Accept, registryVars, centerSide
  <2>18. ASSUME NEW s \in Stream, NEW kind \in Kind, Push(s, kind)
        PROVE  Listening'
    BY <2>18 DEF Push, registryVars, centerSide
  <2>19. CASE Close
    BY <2>19 DEF Close, registryVars
  <2>20. CASE UNCHANGED regVars
    BY <2>20 DEF regVars
  <2> HIDE DEF Listening
  <2> QED
    BY <2>1, <2>2, <2>3, <2>4, <2>5, <2>6, <2>7, <2>8, <2>9, <2>10,
       <2>11, <2>12, <2>13, <2>14, <2>15, <2>16, <2>17, <2>18, <2>19,
       <2>20, Zenon
       DEF RegNext, RegThread, RegLoop

\* Every step keeps the agent listening, or on its way to listen.
LEMMA OneDriverStep ==
  Listening /\ OneDriver /\ [RegNext]_regVars => OneDriver'
<1>1. SUFFICES ASSUME Listening, OneDriver, [RegNext]_regVars PROVE OneDriver'
  OBVIOUS
<1>2. QED
  <2> USE <1>1, StreamsAreThreads
      DEF Listening, OneDriver, Driving, Looping, Alive
  <2>1. ASSUME NEW t \in Thread, Register(t)
        PROVE  OneDriver'
    BY <2>1 DEF Register, registryVars, centerSide
  <2>2. ASSUME NEW t \in Thread, Lock(t)
        PROVE  OneDriver'
    BY <2>2 DEF Lock, registryVars, centerSide
  <2>3. ASSUME NEW t \in Thread, HangEnds(t)
        PROVE  OneDriver'
    BY <2>3 DEF HangEnds, registryVars, centerSide
  <2>4. ASSUME NEW t \in Thread, OpenFails(t)
        PROVE  OneDriver'
    BY <2>4 DEF OpenFails, registryVars, centerSide
  <2>5. ASSUME NEW t \in Thread, NEW s \in Stream, OpenStream(t, s)
        PROVE  OneDriver'
    BY <2>5 DEF OpenStream, registryVars, centerSide
  <2>6. ASSUME NEW s \in Stream, LoopTop(s)
        PROVE  OneDriver'
    BY <2>6 DEF LoopTop, registryVars, centerSide
  <2>7. ASSUME NEW s \in Stream, LoopReceives(s)
        PROVE  OneDriver'
    BY <2>7 DEF LoopReceives, registryVars, centerSide
  <2>8. ASSUME NEW s \in Stream, LoopFails(s)
        PROVE  OneDriver'
    BY <2>8 DEF LoopFails, ErrHandler, registryVars, centerSide
  <2>9. ASSUME NEW s \in Stream, HandleEvent(s)
        PROVE  OneDriver'
    BY <2>9 DEF HandleEvent, registryVars, centerSide
  <2>10. ASSUME NEW s \in Stream, HandleFails(s)
        PROVE  OneDriver'
    <3>1. failed' = (failed \/ Head(busy[s]) = "malformed") /\ closed' = closed
          /\ chan' = chan /\ receiving' = receiving /\ busy[s] # <<>>
      BY <2>10, Zenon DEF HandleFails, centerSide
    <3>2. CASE failed' \/ closed'
      BY <3>2
    <3>3. CASE ~failed' /\ ~closed'
      <4>a. ~failed /\ ~closed /\ Head(busy[s]) # "malformed"
        BY <3>1, <3>3, Zenon
      <4>b. chan[s] # "none" /\ (chan[s] # "over" => Alive(s))
        BY <3>1, <2>10
      <4>1. ~failed /\ ~closed /\ chan[s] # "none" /\ chan[s] = "over"
        BY <2>10, <4>a, <4>b, Zenon DEF HandleFails
      <4>2. CASE s \in killed
        BY <2>10, <3>1, <4>1, <4>2 DEF HandleFails, ErrHandler
      <4>3. CASE s \notin killed
        <5>1. cur = s /\ receiving = s
          BY <4>1, <4>3
        <5>2. /\ killed' = killed \union {s} /\ cur' = 0
              /\ pc' = [pc EXCEPT ![s] = "sleep"]
          BY <2>10, <4>3 DEF HandleFails, ErrHandler
        <5>3. QED
          BY <3>1, <4>1, <5>1, <5>2
      <4>4. QED
        BY <4>2, <4>3
    <3>4. QED
      BY <3>2, <3>3
  <2>11. ASSUME NEW s \in Stream, Wake(s)
        PROVE  OneDriver'
    BY <2>11 DEF Wake, registryVars, centerSide
  <2>12. ASSUME NEW s \in Stream, SnapshotTimeout(s)
        PROVE  OneDriver'
    BY <2>12 DEF SnapshotTimeout, registryVars, centerSide
  <2>13. ASSUME NEW s \in Stream, Lose(s)
        PROVE  OneDriver'
    BY <2>13 DEF Lose, registryVars, centerSide
  <2>14. ASSUME NEW s \in Stream, PushTimeout(s)
        PROVE  OneDriver'
    BY <2>14 DEF PushTimeout, registryVars, centerSide
  <2>15. ASSUME NEW s \in Stream, RemoveStream(s)
        PROVE  OneDriver'
    BY <2>15 DEF RemoveStream, registryVars, centerSide
  <2>16. ASSUME NEW s \in Stream, Return(s)
        PROVE  OneDriver'
    BY <2>16 DEF Return, registryVars, centerSide
  <2>17. ASSUME NEW s \in Stream, NEW kind \in {"none", "load", "malformed"},
             Accept(s, kind)
        PROVE  OneDriver'
    BY <2>17 DEF Accept, registryVars, centerSide
  <2>18. ASSUME NEW s \in Stream, NEW kind \in Kind, Push(s, kind)
        PROVE  OneDriver'
    BY <2>18 DEF Push, registryVars, centerSide
  <2>19. CASE Close
    BY <2>19 DEF Close, registryVars
  <2>20. CASE UNCHANGED regVars
    BY <2>20 DEF regVars
  <2> HIDE StreamsAreThreads
      DEF Listening, OneDriver, Driving, Looping, Alive
  <2> QED
    BY <2>1, <2>2, <2>3, <2>4, <2>5, <2>6, <2>7, <2>8, <2>9, <2>10,
       <2>11, <2>12, <2>13, <2>14, <2>15, <2>16, <2>17, <2>18, <2>19,
       <2>20, Zenon
       DEF RegNext, RegThread, RegLoop

\* What the registration does, without the fairness that makes it do it.
RegSafety == RegInit /\ [][RegNext]_regVars

\* The invariant holds whether the steps are fair or not.
LEMMA NeverDeafUnfair == RegSafety => []NeverDeaf
<1>1. RegInit => Listening /\ OneDriver
  BY StreamsAreThreads
     DEF RegInit, Listening, OneDriver, Driving, Looping
<1>2. Listening /\ OneDriver => NeverDeaf
  BY DEF OneDriver, NeverDeaf
<1>3. QED
  BY <1>1, <1>2, ListeningStep, OneDriverStep, PTL DEF RegSafety

\* What a step is for the session while nothing ends it: a new stream is opened
\* and listened to, the current one is dropped, the loop of one that was
\* dropped ends, or nothing of it changes.
SessionMoves ==
  \/ \E s \in Stream : /\ receiving = 0 /\ s \notin Opened
                        /\ Opened' = Opened \union {s}
                        /\ cur' = s /\ receiving' = s
  \/ /\ cur # 0 /\ cur' = 0 /\ receiving' \in {receiving, 0}
     /\ Opened' = Opened
  \/ /\ cur = 0 /\ cur' = cur /\ receiving # 0 /\ receiving' = 0
     /\ Opened' = Opened
  \/ cur' = cur /\ receiving' = receiving /\ Opened' = Opened

\* Every step is such a step: the driver opens a stream only when no loop is
\* left, and only the current stream is not killed.
LEMMA SessionStep ==
  /\ Listening /\ OneDriver /\ ~failed /\ ~closed
  /\ [RegNext]_regVars /\ ~failed' /\ ~closed'
  => SessionMoves
<1>1. SUFFICES ASSUME Listening, OneDriver, ~failed, ~closed,
                      [RegNext]_regVars, ~failed', ~closed'
               PROVE  SessionMoves
  OBVIOUS
<1>2. QED
  <2> USE <1>1, StreamsAreThreads
      DEF Listening, OneDriver, Driving, Looping, Alive, Opened, SessionMoves
  <2>1. ASSUME NEW t \in Thread, Register(t)
        PROVE  SessionMoves
    BY <2>1 DEF Register, registryVars, centerSide
  <2>2. ASSUME NEW t \in Thread, Lock(t)
        PROVE  SessionMoves
    BY <2>2 DEF Lock, registryVars, centerSide
  <2>3. ASSUME NEW t \in Thread, HangEnds(t)
        PROVE  SessionMoves
    BY <2>3 DEF HangEnds, registryVars, centerSide
  <2>4. ASSUME NEW t \in Thread, OpenFails(t)
        PROVE  SessionMoves
    BY <2>4 DEF OpenFails, registryVars, centerSide
  <2>5. ASSUME NEW t \in Thread, NEW s \in Stream, OpenStream(t, s)
        PROVE  SessionMoves
    BY <2>5 DEF OpenStream, registryVars, centerSide
  <2>6. ASSUME NEW s \in Stream, LoopTop(s)
        PROVE  SessionMoves
    BY <2>6 DEF LoopTop, registryVars, centerSide
  <2>7. ASSUME NEW s \in Stream, LoopReceives(s)
        PROVE  SessionMoves
    BY <2>7 DEF LoopReceives, registryVars, centerSide
  <2>8. ASSUME NEW s \in Stream, LoopFails(s)
        PROVE  SessionMoves
    BY <2>8 DEF LoopFails, ErrHandler, registryVars, centerSide
  <2>9. ASSUME NEW s \in Stream, HandleEvent(s)
        PROVE  SessionMoves
    BY <2>9 DEF HandleEvent, registryVars, centerSide
  <2>10. ASSUME NEW s \in Stream, HandleFails(s)
        PROVE  SessionMoves
    BY <2>10 DEF HandleFails, ErrHandler, registryVars, centerSide
  <2>11. ASSUME NEW s \in Stream, Wake(s)
        PROVE  SessionMoves
    BY <2>11 DEF Wake, registryVars, centerSide
  <2>12. ASSUME NEW s \in Stream, SnapshotTimeout(s)
        PROVE  SessionMoves
    BY <2>12 DEF SnapshotTimeout, registryVars, centerSide
  <2>13. ASSUME NEW s \in Stream, Lose(s)
        PROVE  SessionMoves
    BY <2>13 DEF Lose, registryVars, centerSide
  <2>14. ASSUME NEW s \in Stream, PushTimeout(s)
        PROVE  SessionMoves
    BY <2>14 DEF PushTimeout, registryVars, centerSide
  <2>15. ASSUME NEW s \in Stream, RemoveStream(s)
        PROVE  SessionMoves
    BY <2>15 DEF RemoveStream, registryVars, centerSide
  <2>16. ASSUME NEW s \in Stream, Return(s)
        PROVE  SessionMoves
    BY <2>16 DEF Return, registryVars, centerSide
  <2>17. ASSUME NEW s \in Stream, NEW kind \in {"none", "load", "malformed"}, Accept(s, kind)
        PROVE  SessionMoves
    BY <2>17 DEF Accept, registryVars, centerSide
  <2>18. ASSUME NEW s \in Stream, NEW kind \in Kind, Push(s, kind)
        PROVE  SessionMoves
    BY <2>18 DEF Push, registryVars, centerSide
  <2>19. CASE Close
    BY <2>19 DEF Close, registryVars
  <2>20. CASE UNCHANGED regVars
    BY <2>20 DEF regVars
  <2> HIDE StreamsAreThreads
      DEF Listening, OneDriver, Driving, Looping, Alive, Opened, SessionMoves
  <2> QED
    BY <2>1, <2>2, <2>3, <2>4, <2>5, <2>6, <2>7, <2>8, <2>9, <2>10,
       <2>11, <2>12, <2>13, <2>14, <2>15, <2>16, <2>17, <2>18, <2>19,
       <2>20, Zenon
       DEF RegNext, RegThread, RegLoop

\* What ended the session stays.
LEMMA UnboundStays == Unbound /\ [RegNext]_regVars => Unbound'
<1>1. SUFFICES ASSUME failed \/ closed, [RegNext]_regVars
               PROVE  failed' \/ closed'
  BY DEF Unbound
<1>2. ASSUME NEW t \in Thread, Register(t)
      PROVE  failed' \/ closed'
  BY <1>1, <1>2, Zenon DEF Register
<1>3. ASSUME NEW t \in Thread, Lock(t)
      PROVE  failed' \/ closed'
  BY <1>1, <1>3, Zenon DEF Lock
<1>4. ASSUME NEW t \in Thread, HangEnds(t)
      PROVE  failed' \/ closed'
  BY <1>1, <1>4, Zenon DEF HangEnds
<1>5. ASSUME NEW t \in Thread, OpenFails(t)
      PROVE  failed' \/ closed'
  BY <1>1, <1>5, Zenon DEF OpenFails
<1>6. ASSUME NEW t \in Thread, NEW s \in Stream, OpenStream(t, s)
      PROVE  failed' \/ closed'
  BY <1>1, <1>6, Zenon DEF OpenStream
<1>7. ASSUME NEW s \in Stream, LoopTop(s)
      PROVE  failed' \/ closed'
  BY <1>1, <1>7, Zenon DEF LoopTop
<1>8. ASSUME NEW s \in Stream, LoopReceives(s)
      PROVE  failed' \/ closed'
  BY <1>1, <1>8, Zenon DEF LoopReceives
<1>9. ASSUME NEW s \in Stream, LoopFails(s)
      PROVE  failed' \/ closed'
  BY <1>1, <1>9, Zenon DEF LoopFails
<1>10. ASSUME NEW s \in Stream, HandleEvent(s)
       PROVE  failed' \/ closed'
  BY <1>1, <1>10, Zenon DEF HandleEvent
<1>11. ASSUME NEW s \in Stream, HandleFails(s)
       PROVE  failed' \/ closed'
  BY <1>1, <1>11, Zenon DEF HandleFails
<1>12. ASSUME NEW s \in Stream, Wake(s)
       PROVE  failed' \/ closed'
  BY <1>1, <1>12, Zenon DEF Wake
<1>13. ASSUME NEW s \in Stream, SnapshotTimeout(s)
       PROVE  failed' \/ closed'
  BY <1>1, <1>13, Zenon DEF SnapshotTimeout
<1>14. ASSUME NEW s \in Stream, Lose(s)
       PROVE  failed' \/ closed'
  BY <1>1, <1>14, Zenon DEF Lose
<1>15. ASSUME NEW s \in Stream, PushTimeout(s)
       PROVE  failed' \/ closed'
  BY <1>1, <1>15, Zenon DEF PushTimeout
<1>16. ASSUME NEW s \in Stream, RemoveStream(s)
       PROVE  failed' \/ closed'
  BY <1>1, <1>16, Zenon DEF RemoveStream
<1>17. ASSUME NEW s \in Stream, Return(s)
       PROVE  failed' \/ closed'
  BY <1>1, <1>17, Zenon DEF Return
<1>18. ASSUME NEW s \in Stream, NEW kind \in {"none", "load", "malformed"}, Accept(s, kind)
       PROVE  failed' \/ closed'
  BY <1>1, <1>18, Zenon DEF Accept
<1>19. ASSUME NEW s \in Stream, NEW kind \in Kind, Push(s, kind)
       PROVE  failed' \/ closed'
  BY <1>1, <1>19, Zenon DEF Push
<1>20. CASE Close
  BY <1>20 DEF Close
<1>21. CASE UNCHANGED regVars
  BY <1>1, <1>21, Zenon DEF regVars
<1>22. QED
  BY <1>1, <1>2, <1>3, <1>4, <1>5, <1>6, <1>7, <1>8, <1>9, <1>10, <1>11,
     <1>12, <1>13, <1>14, <1>15, <1>16, <1>17, <1>18, <1>19, <1>20, <1>21,
     Zenon DEF RegNext, RegThread, RegLoop

\* The registration is one session of streams, whether its steps are fair or
\* not.
LEMMA OneSessionUnfair == RegSafety => OneSession
<1>1. RegInit => Listening /\ OneDriver /\ Session!Init
  <2>1. RegInit => Listening /\ OneDriver
    BY StreamsAreThreads
       DEF RegInit, Listening, OneDriver, Driving, Looping
  <2>2. RegInit => ~Unbound /\ Opened = {} /\ cur = 0 /\ receiving = 0
    BY DEF RegInit, Unbound, Opened
  <2>3. QED
    BY <2>1, <2>2 DEF Session!Init
<1>2. ASSUME Listening, OneDriver, [RegNext]_regVars
      PROVE  [Session!Next]_(Session!sessionVars)
  <2>1. CASE Unbound
    <3>1. Unbound'
      BY <1>2, <2>1, UnboundStays
    <3>2. QED
      BY <2>1, <3>1 DEF Session!sessionVars
  <2>2. CASE ~Unbound /\ Unbound'
    BY <2>2 DEF Session!Next, Session!GiveUp
  <2>3. CASE ~Unbound /\ ~Unbound'
    <3>1. SessionMoves
      BY <1>2, <2>3, SessionStep DEF Unbound
    <3>a. UNCHANGED Unbound
      BY <2>3 DEF Unbound
    <3>2. CASE \E s \in Stream : /\ receiving = 0 /\ s \notin Opened
                                 /\ Opened' = Opened \union {s}
                                 /\ cur' = s /\ receiving' = s
      BY <2>3, <3>a, <3>2 DEF Session!Next, Session!Open
    <3>3. CASE /\ cur # 0 /\ cur' = 0 /\ receiving' \in {receiving, 0}
               /\ Opened' = Opened
      BY <2>3, <3>a, <3>3 DEF Session!Next, Session!Drop
    <3>4. CASE /\ cur = 0 /\ cur' = cur /\ receiving # 0 /\ receiving' = 0
               /\ Opened' = Opened
      BY <2>3, <3>a, <3>4 DEF Session!Next, Session!Stop
    <3>5. CASE cur' = cur /\ receiving' = receiving /\ Opened' = Opened
      BY <2>3, <3>a, <3>5 DEF Session!sessionVars
    <3>6. QED
      BY <3>1, <3>2, <3>3, <3>4, <3>5 DEF SessionMoves
  <2>4. QED
    BY <2>1, <2>2, <2>3
<1>3. QED
  BY <1>1, <1>2, ListeningStep, OneDriverStep, PTL
     DEF RegSafety, OneSession, Session!Spec

\* The registration implements StreamSession (pkg/infra/register): until a
\* handler fails or the registry is closed, the agent listens to one stream at
\* a time, leaves each before it opens the next and never goes back to one.
THEOREM OneSessionAlways == RegSpec => OneSession
<1>1. RegSpec => RegSafety
  BY PTL DEF RegSpec, RegSafety
<1>2. QED
  BY <1>1, OneSessionUnfair, PTL

\* As long as no event handler failed, the agent receives on its current
\* stream (pkg/infra/register).
THEOREM NeverDeafAlways == RegSpec => []NeverDeaf
  BY NeverDeafUnfair, PTL DEF RegSpec, RegSafety

\* What RegTypeOK says, in three parts: the registry and the center, the
\* bounded events, and the events in flight and in hand.
PlacesTyped ==
  /\ cur \in Thread /\ receiving \in Thread
  /\ loop \in [Stream -> {"none", "top", "recv", "over"}]
  /\ killed \subseteq Stream /\ hung \subseteq Stream /\ half \subseteq Stream
  /\ again \subseteq Stream /\ asked \subseteq Stream
  /\ cancelled \subseteq Stream
  /\ owner \subseteq Thread /\ \A t, u \in owner : t = u
  /\ pc \in [Thread -> {"idle", "register", "lock", "open", "hang", "sleep",
                        "done"}]
  /\ mine \in [Thread -> Thread]
  /\ chan \in [Stream -> {"none", "open", "load", "up", "over"}]

FlagsTyped == closed \in BOOLEAN /\ failed \in BOOLEAN

UsedTyped == used \in [faults : 0..MaxFaults, pushes : 0..MaxPushes]

EventsTyped ==
  /\ flight \in [Stream -> Seq(Kind \union {"load"})]
  /\ busy \in [Stream -> Seq(Kind \union {"load"})]

\* No step breaks the types of the places of a thread,
LEMMA PlacesStep == PlacesTyped /\ [RegNext]_regVars => PlacesTyped'
<1>1. SUFFICES ASSUME PlacesTyped, [RegNext]_regVars PROVE PlacesTyped'
  OBVIOUS
<1>2. QED
  <2> USE <1>1, StreamsAreThreads DEF PlacesTyped
  <2>1. ASSUME NEW t \in Thread, Register(t)
        PROVE  PlacesTyped'
    BY <2>1 DEF Register, registryVars, centerSide
  <2>2. ASSUME NEW t \in Thread, Lock(t)
        PROVE  PlacesTyped'
    BY <2>2 DEF Lock, registryVars, centerSide
  <2>3. ASSUME NEW t \in Thread, HangEnds(t)
        PROVE  PlacesTyped'
    BY <2>3 DEF HangEnds, registryVars, centerSide
  <2>4. ASSUME NEW t \in Thread, OpenFails(t)
        PROVE  PlacesTyped'
    BY <2>4 DEF OpenFails, registryVars, centerSide
  <2>5. ASSUME NEW t \in Thread, NEW s \in Stream, OpenStream(t, s)
        PROVE  PlacesTyped'
    BY <2>5 DEF OpenStream, registryVars, centerSide
  <2>6. ASSUME NEW s \in Stream, LoopTop(s)
        PROVE  PlacesTyped'
    BY <2>6 DEF LoopTop, registryVars, centerSide
  <2>7. ASSUME NEW s \in Stream, LoopReceives(s)
        PROVE  PlacesTyped'
    BY <2>7 DEF LoopReceives, registryVars, centerSide
  <2>8. ASSUME NEW s \in Stream, LoopFails(s)
        PROVE  PlacesTyped'
    BY <2>8 DEF LoopFails, ErrHandler, registryVars, centerSide
  <2>9. ASSUME NEW s \in Stream, HandleEvent(s)
        PROVE  PlacesTyped'
    BY <2>9 DEF HandleEvent, registryVars, centerSide
  <2>10. ASSUME NEW s \in Stream, HandleFails(s)
        PROVE  PlacesTyped'
    BY <2>10 DEF HandleFails, ErrHandler, registryVars, centerSide
  <2>11. ASSUME NEW s \in Stream, Wake(s)
        PROVE  PlacesTyped'
    BY <2>11 DEF Wake, registryVars, centerSide
  <2>12. ASSUME NEW s \in Stream, SnapshotTimeout(s)
        PROVE  PlacesTyped'
    BY <2>12 DEF SnapshotTimeout, registryVars, centerSide
  <2>13. ASSUME NEW s \in Stream, Lose(s)
        PROVE  PlacesTyped'
    BY <2>13 DEF Lose, registryVars, centerSide
  <2>14. ASSUME NEW s \in Stream, PushTimeout(s)
        PROVE  PlacesTyped'
    BY <2>14 DEF PushTimeout, registryVars, centerSide
  <2>15. ASSUME NEW s \in Stream, RemoveStream(s)
        PROVE  PlacesTyped'
    BY <2>15 DEF RemoveStream, registryVars, centerSide
  <2>16. ASSUME NEW s \in Stream, Return(s)
        PROVE  PlacesTyped'
    BY <2>16 DEF Return, registryVars, centerSide
  <2>17. ASSUME NEW s \in Stream, NEW kind \in {"none", "load", "malformed"},
             Accept(s, kind)
        PROVE  PlacesTyped'
    BY <2>17 DEF Accept, registryVars, centerSide
  <2>18. ASSUME NEW s \in Stream, NEW kind \in Kind, Push(s, kind)
        PROVE  PlacesTyped'
    BY <2>18 DEF Push, registryVars, centerSide
  <2>19. CASE Close
    BY <2>19 DEF Close, registryVars
  <2>20. CASE UNCHANGED regVars
    BY <2>20 DEF regVars
  <2> HIDE DEF PlacesTyped
  <2> QED
    BY <2>1, <2>2, <2>3, <2>4, <2>5, <2>6, <2>7, <2>8, <2>9, <2>10,
       <2>11, <2>12, <2>13, <2>14, <2>15, <2>16, <2>17, <2>18, <2>19,
       <2>20, Zenon
       DEF RegNext, RegThread, RegLoop

\* of the flags,
LEMMA FlagsStep == FlagsTyped /\ [RegNext]_regVars => FlagsTyped'
<1>1. SUFFICES ASSUME FlagsTyped, [RegNext]_regVars PROVE FlagsTyped'
  OBVIOUS
<1>2. QED
  <2> USE <1>1, StreamsAreThreads DEF FlagsTyped
  <2>1. ASSUME NEW t \in Thread, Register(t)
        PROVE  FlagsTyped'
    BY <2>1 DEF Register, registryVars, centerSide
  <2>2. ASSUME NEW t \in Thread, Lock(t)
        PROVE  FlagsTyped'
    BY <2>2 DEF Lock, registryVars, centerSide
  <2>3. ASSUME NEW t \in Thread, HangEnds(t)
        PROVE  FlagsTyped'
    BY <2>3 DEF HangEnds, registryVars, centerSide
  <2>4. ASSUME NEW t \in Thread, OpenFails(t)
        PROVE  FlagsTyped'
    BY <2>4 DEF OpenFails, registryVars, centerSide
  <2>5. ASSUME NEW t \in Thread, NEW s \in Stream, OpenStream(t, s)
        PROVE  FlagsTyped'
    BY <2>5 DEF OpenStream, registryVars, centerSide
  <2>6. ASSUME NEW s \in Stream, LoopTop(s)
        PROVE  FlagsTyped'
    BY <2>6 DEF LoopTop, registryVars, centerSide
  <2>7. ASSUME NEW s \in Stream, LoopReceives(s)
        PROVE  FlagsTyped'
    BY <2>7 DEF LoopReceives, registryVars, centerSide
  <2>8. ASSUME NEW s \in Stream, LoopFails(s)
        PROVE  FlagsTyped'
    BY <2>8 DEF LoopFails, ErrHandler, registryVars, centerSide
  <2>9. ASSUME NEW s \in Stream, HandleEvent(s)
        PROVE  FlagsTyped'
    BY <2>9 DEF HandleEvent, registryVars, centerSide
  <2>10. ASSUME NEW s \in Stream, HandleFails(s)
        PROVE  FlagsTyped'
    BY <2>10, Zenon DEF HandleFails, ErrHandler, registryVars, centerSide
  <2>11. ASSUME NEW s \in Stream, Wake(s)
        PROVE  FlagsTyped'
    BY <2>11 DEF Wake, registryVars, centerSide
  <2>12. ASSUME NEW s \in Stream, SnapshotTimeout(s)
        PROVE  FlagsTyped'
    BY <2>12 DEF SnapshotTimeout, registryVars, centerSide
  <2>13. ASSUME NEW s \in Stream, Lose(s)
        PROVE  FlagsTyped'
    BY <2>13 DEF Lose, registryVars, centerSide
  <2>14. ASSUME NEW s \in Stream, PushTimeout(s)
        PROVE  FlagsTyped'
    BY <2>14 DEF PushTimeout, registryVars, centerSide
  <2>15. ASSUME NEW s \in Stream, RemoveStream(s)
        PROVE  FlagsTyped'
    BY <2>15 DEF RemoveStream, registryVars, centerSide
  <2>16. ASSUME NEW s \in Stream, Return(s)
        PROVE  FlagsTyped'
    BY <2>16 DEF Return, registryVars, centerSide
  <2>17. ASSUME NEW s \in Stream, NEW kind \in {"none", "load", "malformed"},
             Accept(s, kind)
        PROVE  FlagsTyped'
    BY <2>17 DEF Accept, registryVars, centerSide
  <2>18. ASSUME NEW s \in Stream, NEW kind \in Kind, Push(s, kind)
        PROVE  FlagsTyped'
    BY <2>18 DEF Push, registryVars, centerSide
  <2>19. CASE Close
    BY <2>19 DEF Close, registryVars
  <2>20. CASE UNCHANGED regVars
    BY <2>20 DEF regVars
  <2> HIDE DEF FlagsTyped
  <2> QED
    BY <2>1, <2>2, <2>3, <2>4, <2>5, <2>6, <2>7, <2>8, <2>9, <2>10,
       <2>11, <2>12, <2>13, <2>14, <2>15, <2>16, <2>17, <2>18, <2>19,
       <2>20, Zenon
       DEF RegNext, RegThread, RegLoop

\* of the counters,
LEMMA UsedStep == UsedTyped /\ [RegNext]_regVars => UsedTyped'
<1>1. SUFFICES ASSUME UsedTyped, [RegNext]_regVars PROVE UsedTyped'
  OBVIOUS
<1>2. QED
  <2> USE <1>1, RegAssumption DEF UsedTyped, Late, Fault
  <2>1. ASSUME NEW t \in Thread, Register(t)
        PROVE  UsedTyped'
    BY <2>1 DEF Register, registryVars, centerSide
  <2>2. ASSUME NEW t \in Thread, Lock(t)
        PROVE  UsedTyped'
    BY <2>2 DEF Lock, registryVars, centerSide
  <2>3. ASSUME NEW t \in Thread, HangEnds(t)
        PROVE  UsedTyped'
    BY <2>3 DEF HangEnds, registryVars, centerSide
  <2>4. ASSUME NEW t \in Thread, OpenFails(t)
        PROVE  UsedTyped'
    BY <2>4 DEF OpenFails, registryVars, centerSide
  <2>5. ASSUME NEW t \in Thread, NEW s \in Stream, OpenStream(t, s)
        PROVE  UsedTyped'
    BY <2>5 DEF OpenStream, registryVars, centerSide
  <2>6. ASSUME NEW s \in Stream, LoopTop(s)
        PROVE  UsedTyped'
    BY <2>6 DEF LoopTop, registryVars, centerSide
  <2>7. ASSUME NEW s \in Stream, LoopReceives(s)
        PROVE  UsedTyped'
    BY <2>7 DEF LoopReceives, registryVars, centerSide
  <2>8. ASSUME NEW s \in Stream, LoopFails(s)
        PROVE  UsedTyped'
    BY <2>8 DEF LoopFails, ErrHandler, registryVars, centerSide
  <2>9. ASSUME NEW s \in Stream, HandleEvent(s)
        PROVE  UsedTyped'
    BY <2>9 DEF HandleEvent, registryVars, centerSide
  <2>10. ASSUME NEW s \in Stream, HandleFails(s)
        PROVE  UsedTyped'
    BY <2>10 DEF HandleFails, ErrHandler, registryVars, centerSide
  <2>11. ASSUME NEW s \in Stream, Wake(s)
        PROVE  UsedTyped'
    BY <2>11 DEF Wake, registryVars, centerSide
  <2>12. ASSUME NEW s \in Stream, SnapshotTimeout(s)
        PROVE  UsedTyped'
    BY <2>12 DEF SnapshotTimeout, registryVars, centerSide
  <2>13. ASSUME NEW s \in Stream, Lose(s)
        PROVE  UsedTyped'
    BY <2>13 DEF Lose, registryVars, centerSide
  <2>14. ASSUME NEW s \in Stream, PushTimeout(s)
        PROVE  UsedTyped'
    BY <2>14 DEF PushTimeout, registryVars, centerSide
  <2>15. ASSUME NEW s \in Stream, RemoveStream(s)
        PROVE  UsedTyped'
    BY <2>15 DEF RemoveStream, registryVars, centerSide
  <2>16. ASSUME NEW s \in Stream, Return(s)
        PROVE  UsedTyped'
    BY <2>16 DEF Return, registryVars, centerSide
  <2>17. ASSUME NEW s \in Stream, NEW kind \in {"none", "load", "malformed"},
             Accept(s, kind)
        PROVE  UsedTyped'
    BY <2>17 DEF Accept, registryVars, centerSide
  <2>18. ASSUME NEW s \in Stream, NEW kind \in Kind, Push(s, kind)
        PROVE  UsedTyped'
    BY <2>18 DEF Push, registryVars, centerSide
  <2>19. CASE Close
    BY <2>19 DEF Close, registryVars
  <2>20. CASE UNCHANGED regVars
    BY <2>20 DEF regVars
  <2> HIDE DEF UsedTyped
  <2> QED
    BY <2>1, <2>2, <2>3, <2>4, <2>5, <2>6, <2>7, <2>8, <2>9, <2>10,
       <2>11, <2>12, <2>13, <2>14, <2>15, <2>16, <2>17, <2>18, <2>19,
       <2>20, Zenon
       DEF RegNext, RegThread, RegLoop

\* and of the events pushed.
LEMMA EventsStep == EventsTyped /\ [RegNext]_regVars => EventsTyped'
<1>1. SUFFICES ASSUME EventsTyped, [RegNext]_regVars PROVE EventsTyped'
  OBVIOUS
<1>2. QED
  <2> USE <1>1, StreamsAreThreads DEF EventsTyped
  <2>1. ASSUME NEW t \in Thread, Register(t)
        PROVE  EventsTyped'
    BY <2>1 DEF Register, registryVars, centerSide
  <2>2. ASSUME NEW t \in Thread, Lock(t)
        PROVE  EventsTyped'
    BY <2>2 DEF Lock, registryVars, centerSide
  <2>3. ASSUME NEW t \in Thread, HangEnds(t)
        PROVE  EventsTyped'
    BY <2>3 DEF HangEnds, registryVars, centerSide
  <2>4. ASSUME NEW t \in Thread, OpenFails(t)
        PROVE  EventsTyped'
    BY <2>4 DEF OpenFails, registryVars, centerSide
  <2>5. ASSUME NEW t \in Thread, NEW s \in Stream, OpenStream(t, s)
        PROVE  EventsTyped'
    BY <2>5 DEF OpenStream, registryVars, centerSide
  <2>6. ASSUME NEW s \in Stream, LoopTop(s)
        PROVE  EventsTyped'
    BY <2>6 DEF LoopTop, registryVars, centerSide
  <2>7. ASSUME NEW s \in Stream, LoopReceives(s)
        PROVE  EventsTyped'
    BY <2>7 DEF LoopReceives, registryVars, centerSide
  <2>8. ASSUME NEW s \in Stream, LoopFails(s)
        PROVE  EventsTyped'
    BY <2>8 DEF LoopFails, ErrHandler, registryVars, centerSide
  <2>9. ASSUME NEW s \in Stream, HandleEvent(s)
        PROVE  EventsTyped'
    BY <2>9 DEF HandleEvent, registryVars, centerSide
  <2>10. ASSUME NEW s \in Stream, HandleFails(s)
        PROVE  EventsTyped'
    BY <2>10 DEF HandleFails, ErrHandler, registryVars, centerSide
  <2>11. ASSUME NEW s \in Stream, Wake(s)
        PROVE  EventsTyped'
    BY <2>11 DEF Wake, registryVars, centerSide
  <2>12. ASSUME NEW s \in Stream, SnapshotTimeout(s)
        PROVE  EventsTyped'
    BY <2>12 DEF SnapshotTimeout, registryVars, centerSide
  <2>13. ASSUME NEW s \in Stream, Lose(s)
        PROVE  EventsTyped'
    BY <2>13 DEF Lose, registryVars, centerSide
  <2>14. ASSUME NEW s \in Stream, PushTimeout(s)
        PROVE  EventsTyped'
    BY <2>14 DEF PushTimeout, registryVars, centerSide
  <2>15. ASSUME NEW s \in Stream, RemoveStream(s)
        PROVE  EventsTyped'
    BY <2>15 DEF RemoveStream, registryVars, centerSide
  <2>16. ASSUME NEW s \in Stream, Return(s)
        PROVE  EventsTyped'
    BY <2>16 DEF Return, registryVars, centerSide
  <2>17. ASSUME NEW s \in Stream, NEW kind \in {"none", "load", "malformed"},
             Accept(s, kind)
        PROVE  EventsTyped'
    <3>1. busy' = busy
      BY <2>17, Zenon DEF Accept
    <3>a. {"load", "malformed"} \subseteq Kind \union {"load"}
      BY DEF Kind
    <3>2. CASE flight' = flight
      BY <3>1, <3>2
    <3>3. CASE flight' = [flight EXCEPT ![s] = Append(@, kind)]
               /\ kind \in {"load", "malformed"}
      BY <3>1, <3>3, <3>a
    <3>4. QED
      BY <2>17, <3>2, <3>3, Zenon DEF Accept
  <2>18. ASSUME NEW s \in Stream, NEW kind \in Kind, Push(s, kind)
        PROVE  EventsTyped'
    BY <2>18 DEF Push, registryVars, centerSide
  <2>19. CASE Close
    BY <2>19 DEF Close, registryVars
  <2>20. CASE UNCHANGED regVars
    BY <2>20 DEF regVars
  <2> HIDE DEF EventsTyped
  <2> QED
    BY <2>1, <2>2, <2>3, <2>4, <2>5, <2>6, <2>7, <2>8, <2>9, <2>10,
       <2>11, <2>12, <2>13, <2>14, <2>15, <2>16, <2>17, <2>18, <2>19,
       <2>20, Zenon
       DEF RegNext, RegThread, RegLoop

\* Types, too, whether the steps are fair or not.
LEMMA RegTypedUnfair == RegSafety => []RegTypeOK
<1> DEFINE Typed == PlacesTyped /\ FlagsTyped /\ UsedTyped /\ EventsTyped
<1>1. RegInit => Typed
  BY StreamsAreThreads, RegAssumption
     DEF RegInit, PlacesTyped, FlagsTyped, UsedTyped, EventsTyped
<1>2. Typed /\ [RegNext]_regVars => Typed'
  BY PlacesStep, FlagsStep, UsedStep, EventsStep
<1>3. Typed => RegTypeOK
  <2>1. ASSUME NEW f \in [Stream -> Seq(Kind \union {"load"})], NEW s \in Stream
        PROVE  \A i \in 1..Len(f[s]) : f[s][i] \in Kind \union {"load"}
    <3>1. f[s] \in Seq(Kind \union {"load"})
      OBVIOUS
    <3>2. QED
      BY <3>1
  <2>2. QED
    BY <2>1, Zenon
       DEF PlacesTyped, FlagsTyped, UsedTyped, EventsTyped, RegTypeOK
<1>4. QED
  BY <1>1, <1>2, <1>3, PTL DEF RegSafety

\* Every variable of the registration keeps its type; locker has one holder.
THEOREM RegTypeCorrect == RegSpec => []RegTypeOK
  BY RegTypedUnfair, PTL DEF RegSpec, RegSafety
=============================================================================
