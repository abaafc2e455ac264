------------------------------ MODULE WebHooks ------------------------------
(***************************************************************************)
(* The webhooks of a project, and how the center calls them after a run    *)
(* was reported FINISHED (app/webhook.go).  A goroutine of its own does it *)
(* for every report; nobody waits for it and nothing is retried after it.  *)
(***************************************************************************)
EXTENDS Naturals

CONSTANTS Url,          \* the targets
          Report,       \* the FINISHED reports
          Attempts,     \* how often a request is tried (5 in the code)
          MaxCuts       \* bound: failing queries and dying centers

NoUrl == "none"

ASSUME HookAssumption ==
  Attempts \in Nat \ {0} /\ MaxCuts \in Nat /\ NoUrl \notin Url

VARIABLES
  hooks,      \* MySQL: the rows of the project
  oldHooks,   \* MySQL before the last statement: what a late replica has
  wanted,     \* the types that CreateWebHook calls are about to insert
  work,       \* per report: what its goroutine is doing
  owed,       \* history: per report, the types hooked since before it came
  cuts        \* how many failures there were

hookVars == <<hooks, oldHooks, wanted, work, owed, cuts>>

Type == {"failure", "result"}
NoWork == [step |-> "none", failed |-> FALSE,
           of |-> [t \in Type |-> NoUrl], tried |-> 0,
           answered |-> {}, warned |-> {}]

HookTypeOK ==
  /\ hooks \subseteq [type : Type, url : Url]
  /\ oldHooks \subseteq [type : Type, url : Url]
  /\ wanted \subseteq Type
  /\ work \in [Report -> [step : {"none", "load", "failure", "result", "over",
                                 "cut"},
                         failed : BOOLEAN, of : [Type -> Url \union {NoUrl}],
                         tried : 0..Attempts, answered : SUBSET Url,
                         warned : SUBSET Url]]
  /\ owed \in [Report -> SUBSET Type] /\ cuts \in 0..MaxCuts

HookInit ==
  /\ hooks = {} /\ oldHooks = {} /\ wanted = {}
  /\ work = [r \in Report |-> NoWork]
  /\ owed = [r \in Report |-> {}] /\ cuts = 0

OfType(rows, t) == {h \in rows : h.type = t}
Hooked(rows) == {h.type : h \in rows}
HookView == {hooks, oldHooks}

-----------------------------------------------------------------------------
(* The API, for users with the permission "edit".                          *)

(* CreateWebHook asks a replica whether the type has a hook already.       *)
WantHook(t, rows) ==
  /\ rows \in HookView /\ t \notin Hooked(rows)
  /\ wanted' = wanted \union {t}
  /\ UNCHANGED <<hooks, oldHooks, work, owed, cuts>>

(* Create inserts the row, without a unique index on the type, which       *)
(* several calls may be about to do.                                       *)
InsertHook(t, u) ==
  /\ t \in wanted
  /\ hooks' = hooks \union {[type |-> t, url |-> u]}
  /\ oldHooks' = hooks
  /\ \E left \in {wanted, wanted \ {t}} : wanted' = left
  /\ UNCHANGED <<work, owed, cuts>>

(* DeleteWebHook: all rows of the type.                                    *)
DeleteHook(t) ==
  /\ t \in Hooked(hooks)
  /\ hooks' = hooks \ OfType(hooks, t)
  /\ oldHooks' = hooks
  /\ owed' = [r \in Report |-> owed[r] \ {t}]
  /\ UNCHANGED <<wanted, work, cuts>>

-----------------------------------------------------------------------------
(* HandlerTaskFinished starts the goroutine.                               *)
Finished(r, failed) ==
  /\ work[r].step = "none"
  /\ work' = [work EXCEPT ![r].step = "load", ![r].failed = failed]
  /\ owed' = [owed EXCEPT
       ![r] = {t \in Hooked(hooks) \intersect Hooked(oldHooks) :
                 t = "result" \/ failed}]
  /\ UNCHANGED <<hooks, oldHooks, wanted, cuts>>

(* GetWebHookList: of each type, the map keeps the last row of the list.   *)
(* That is the oldest, by seconds of the clocks of several centers, and so *)
(* any of them.                                                            *)
MapOf(rows) ==
  {m \in [Type -> Url \union {NoUrl}] :
     \A t \in Type : IF t \in Hooked(rows)
       THEN \E h \in OfType(rows, t) : m[t] = h.url ELSE m[t] = NoUrl}

(* A run without an error needs a hook for results.                        *)
Load(r, rows) ==
  /\ work[r].step = "load" /\ rows \in HookView
  /\ \E hookMaps \in MapOf(rows) :
       LET idle == ~work[r].failed /\ hookMaps["result"] = NoUrl
       IN  work' = [work EXCEPT ![r].of = hookMaps,
                                ![r].step = IF idle THEN "over" ELSE "failure"]
  /\ UNCHANGED <<hooks, oldHooks, wanted, owed, cuts>>

(* The list or the project cannot be read, or the center dies.             *)
Cut(r) ==
  /\ work[r].step \in {"load", "failure", "result"} /\ cuts < MaxCuts
  /\ work' = [work EXCEPT ![r].step = "cut"]
  /\ cuts' = cuts + 1
  /\ UNCHANGED <<hooks, oldHooks, wanted, owed>>

(* The hook for failures is only called for a run with an error; a url is  *)
(* called once, although both types may name it (sync.Once).               *)
Calls(r) ==
  /\ work[r].step = "result" \/ (work[r].step = "failure" /\ work[r].failed)
  /\ work[r].of[work[r].step] \in Url \ (work[r].answered \union work[r].warned)

\* Faulty variant of After: a failing request ends HandleWebHook.
AfterOrReturn(j, ok) ==
  IF j.step = "failure" /\ ok THEN "result" ELSE "over"

After(j, ok) == IF j.step = "failure" THEN "result" ELSE "over"

Skip(r) ==
  /\ work[r].step \in Type /\ ~Calls(r)
  /\ work' = [work EXCEPT ![r].step = After(work[r], TRUE)]
  /\ UNCHANGED <<hooks, oldHooks, wanted, owed, cuts>>

(* retry.Do: a request is repeated until it is answered with 200, and the  *)
(* last failure is a warning.                                              *)
Post(r, ok) ==
  LET u == {work[r].of[work[r].step]}
      last == work[r].tried + 1 = Attempts
      next == [work[r] EXCEPT !.step = After(work[r], ok), !.tried = 0]
      again == [work[r] EXCEPT !.tried = @ + 1]
  IN  /\ work[r].step \in Type /\ Calls(r)
      /\ work' = [work EXCEPT ![r] =
           IF ok THEN [next EXCEPT !.answered = @ \union u]
           ELSE IF last THEN [next EXCEPT !.warned = @ \union u]
           ELSE again]
      /\ UNCHANGED <<hooks, oldHooks, wanted, owed, cuts>>

HookNext ==
  \/ \E t \in Type :
       \/ DeleteHook(t) \/ \E rows \in HookView : WantHook(t, rows)
       \/ \E u \in Url : InsertHook(t, u)
  \/ \E r \in Report :
       \/ Cut(r) \/ Skip(r) \/ \E rows \in HookView : Load(r, rows)
       \/ \E b \in BOOLEAN : Finished(r, b) \/ Post(r, b)

HookSpec == HookInit /\ [][HookNext]_hookVars

-----------------------------------------------------------------------------
(* When the goroutine of a report is through, every type of hook that was  *)
(* set before the report came and not deleted since has had its answer, or *)
(* a warning was raised: a target that refuses does not keep the other     *)
(* hook from being called, two hooks may share a url, a type may have two  *)
(* rows, and the list may be that of a late replica.                       *)
EveryHookTold ==
  \A r \in Report : work[r].step = "over" =>
    \A t \in owed[r] : work[r].of[t] \in work[r].answered \union work[r].warned
=============================================================================
