------------------------------ MODULE TaskLock ------------------------------
(***************************************************************************)
(* The distributed lock an agent takes before it executes a task: the key  *)
(* in etcd, the leases that keep it alive, the center's TryLock stream     *)
(* handler, and the agent's goroutine that opens the stream, waits for the *)
(* first reply, keeps the stream while the command runs and re-locks when  *)
(* the stream breaks.                                                      *)
(*                                                                         *)
(* One module instance is one task (the lock keys of two tasks never       *)
(* meet).  A stream is one call of Center.TryLock; the handler of a stream *)
(* grants itself one lease, so lease and stream share their name, and the  *)
(* key's value (agentIP:tmpID) is the run the lease's stream locks for.    *)
(***************************************************************************)
EXTENDS Naturals

CONSTANTS
    Run,       \* executions of the task (a tmpID on an agent)
    Stream,    \* TryLock streams, each used at most once
    RunOf,     \* the run each stream is opened for
    NoStream,  \* "no stream": the key is absent, or the agent has none open
    MaxTries,  \* failed attempts the agent retries (3 in the code)
    Faults     \* the faults of the environment that may happen

\* "crash": a center process dies.  "cut": a connection breaks.
\* "etcd": calls to etcd fail or a keep-alive is lost.
\* "store": the query of the task log fails.
\* "slow": a handler takes longer than one heartbeat period.
\* "deny": the agent's token does not cover the project.
\* "late": a Put reaches etcd when what it was decided on is no longer so.
FaultKind == {"crash", "cut", "etcd", "store", "slow", "deny", "late"}

ASSUME LockAssumption ==
    /\ RunOf \in [Stream -> Run]
    /\ NoStream \notin Stream
    /\ MaxTries \in Nat
    /\ Faults \subseteq FaultKind

VARIABLES
    key,       \* etcd: the lease that holds the lock key, or NoStream
    leases,    \* etcd: the leases that are alive
    kept,      \* the leases some center keeps alive
    srv,       \* progress of the handler of each stream
    sent,      \* streams on which a TryLockReply{Result: true} was sent
    run,       \* agent: what the run is doing
    cur,       \* agent: the stream the run has open
    got,       \* agent: streams whose first reply was read
    tries,     \* agent: consecutive failed attempts of the run
    log        \* the run's row in gc_task_log_p

etcdVars  == <<key, leases, kept>>
agentVars == <<run, cur, got, tries>>
vars == <<etcdVars, srv, sent, agentVars, log>>

-----------------------------------------------------------------------------
(***************************************************************************)
(* Vocabulary.                                                             *)
(***************************************************************************)

\* "recv": the LOCK request is on its way; "txn": lease granted, transaction
\* next; "put": the transaction found the run's own key, Put next; "check":
\* TryLockWithOwner returned nil, task log next; "serve": ok sent, waiting in
\* Recv; "aborted"/"failed": returned with that kind of status; "dead": the
\* center process is gone.
HandlerState == {"idle", "recv", "txn", "put", "check", "serve",
                 "aborted", "failed", "dead"}
Working == {"recv", "txn", "put", "check"}

RunState == {"new", "trying", "running", "stopped"}
LogState == {"none", "running", "ended"}

TypeOK ==
    /\ key \in Stream \cup {NoStream}
    /\ leases \subseteq Stream
    /\ kept \subseteq Stream
    /\ srv \in [Stream -> HandlerState]
    /\ sent \subseteq Stream
    /\ run \in [Run -> RunState]
    /\ cur \in [Run -> Stream \cup {NoStream}]
    /\ got \subseteq Stream
    /\ tries \in [Run -> 0..MaxTries]
    /\ log \in [Run -> LogState]

Init ==
    /\ key = NoStream
    /\ leases = {}
    /\ kept = {}
    /\ srv = [s \in Stream |-> "idle"]
    /\ sent = {}
    /\ run = [r \in Run |-> "new"]
    /\ cur = [r \in Run |-> NoStream]
    /\ got = {}
    /\ tries = [r \in Run |-> 0]
    /\ log = [r \in Run |-> "none"]

\* The run locks for this stream no longer reads it.
Abandoned(s) == cur[RunOf[s]] # s

\* The run the key's value names; no run when the key is absent.
OwnedBy(r) == key # NoStream /\ RunOf[key] = r

-----------------------------------------------------------------------------
(***************************************************************************)
(* etcd leases.                                                            *)
(***************************************************************************)

\* Faulty variant of KeyWithout: the key is deleted, whoever's lease it has.
KeyDeleted(s) == NoStream

KeyWithout(s) == IF key = s THEN NoStream ELSE key

\* Faulty variant of DropLease: cancelFunc is forgotten.
DropLeaseKeptAlive(s) ==
    /\ leases' = leases \ {s}
    /\ key' = KeyWithout(s)
    /\ UNCHANGED kept

\* Unlock and failFunc: stop the keep-alive, revoke the lease; the error of
\* Revoke is dropped, and then the lease runs out by itself.
DropLease(s) ==
    /\ kept' = kept \ {s}
    /\ \/ /\ leases' = leases \ {s}
          /\ key' = KeyWithout(s)
       \/ /\ "etcd" \in Faults
          /\ UNCHANGED <<leases, key>>

\* The goroutine that reads the keep-alive channel returns silently when the
\* channel is closed: nobody tells the holder.
KeepAliveLost(s) ==
    /\ "etcd" \in Faults
    /\ s \in kept
    /\ kept' = kept \ {s}
    /\ UNCHANGED <<key, leases, srv, sent, agentVars, log>>

\* A lease nobody keeps alive runs out (30 s) and its key goes with it.
Expire(s) ==
    /\ s \in leases \ kept
    /\ leases' = leases \ {s}
    /\ key' = KeyWithout(s)
    /\ UNCHANGED <<kept, srv, sent, agentVars, log>>

-----------------------------------------------------------------------------
(***************************************************************************)
(* The center: cronRpc.TryLock and Locker.TryLockWithOwner.                *)
(***************************************************************************)

Returns(s, code) ==
    /\ srv' = [srv EXCEPT ![s] = code]
    /\ UNCHANGED <<sent, agentVars, log>>

\* The token of the agent does not allow the project: Unauthenticated, which
\* the agent treats like Aborted.
Deny(s) ==
    /\ "deny" \in Faults
    /\ srv[s] = "recv"
    /\ Returns(s, "aborted")
    /\ UNCHANGED etcdVars

Grant(s) ==
    /\ srv[s] = "recv"
    /\ leases' = leases \cup {s}
    /\ kept' = kept \cup {s}
    /\ srv' = [srv EXCEPT ![s] = "txn"]
    /\ UNCHANGED <<key, sent, agentVars, log>>

\* Faulty variant of TxnWins: Put without the comparison of the revision.
TxnAlwaysWins(s) ==
    /\ srv[s] = "txn"
    /\ s \in leases
    /\ key' = s
    /\ srv' = [srv EXCEPT ![s] = "check"]
    /\ UNCHANGED <<leases, kept, sent, agentVars, log>>

\* If CreateRevision(key) = 0 Then Put(key, owner, lease).
TxnWins(s) ==
    /\ srv[s] = "txn"
    /\ key = NoStream
    /\ s \in leases
    /\ key' = s
    /\ srv' = [srv EXCEPT ![s] = "check"]
    /\ UNCHANGED <<leases, kept, sent, agentVars, log>>

\* The Get of the Else branch returned the owner of this very stream.
TxnFindsOwnKey(s) ==
    /\ srv[s] = "txn"
    /\ OwnedBy(RunOf[s])
    /\ srv' = [srv EXCEPT ![s] = "put"]
    /\ UNCHANGED <<etcdVars, sent, agentVars, log>>

\* The key is somebody else's: ErrLockAlreadyRequired, returned as Aborted.
TxnLoses(s) ==
    /\ srv[s] = "txn"
    /\ key # NoStream
    /\ ~OwnedBy(RunOf[s])
    /\ Returns(s, "aborted")
    /\ DropLease(s)

\* A Put in time finds what the transaction saw, no key or a key of its own run,
\* and its run still reads this stream.  Nothing in the code ensures it.
InTime(s) ==
    \/ "late" \in Faults
    \/ ~Abandoned(s) /\ (key = NoStream \/ OwnedBy(RunOf[s]))

\* The inheriting Put is unconditional: it looks at neither the key nor its
\* revision, whatever happened since the transaction.
PutInherits(s) ==
    /\ srv[s] = "put"
    /\ s \in leases
    /\ InTime(s)
    /\ key' = s
    /\ srv' = [srv EXCEPT ![s] = "check"]
    /\ UNCHANGED <<leases, kept, sent, agentVars, log>>

\* Writing with a lease that ran out meanwhile is refused by etcd.
LeaseNotFound(s) ==
    /\ s \notin leases
    /\ \/ srv[s] = "txn" /\ key = NoStream
       \/ srv[s] = "put"
    /\ Returns(s, "failed")
    /\ DropLease(s)

\* Grant, Commit or Put returns an error.  A write that timed out may have
\* been applied, and the Revoke of failFunc may fail as well.
CallFails(s) ==
    /\ "etcd" \in Faults
    /\ srv[s] \in {"recv", "txn", "put"}
    /\ Returns(s, "failed")
    /\ kept' = kept \ {s}
    /\ \E applied, revoked \in BOOLEAN :
         LET written == IF applied THEN s ELSE key
         IN  /\ applied => /\ s \in leases
                           /\ \/ srv[s] = "put" /\ InTime(s)
                              \/ srv[s] = "txn" /\ key = NoStream
             /\ leases' = IF revoked THEN leases \ {s} ELSE leases
             /\ key' = IF revoked /\ written = s THEN NoStream ELSE written

\* Faulty variant of Confirm: the reply is not sent, the next heartbeat has to do.
ConfirmSilently(s) ==
    /\ srv[s] = "check"
    /\ log[RunOf[s]] = "none"
    /\ Returns(s, "serve")
    /\ UNCHANGED etcdVars

\* No log row: the lock is confirmed to the agent.
Confirm(s) ==
    /\ srv[s] = "check"
    /\ log[RunOf[s]] = "none"
    /\ srv' = [srv EXCEPT ![s] = "serve"]
    /\ sent' = sent \cup {s}
    /\ UNCHANGED <<etcdVars, agentVars, log>>

\* A finished row, or a row whose ClientIP differs from the request's AgentIp,
\* is Aborted.  The agent never fills AgentIp in, so every row is refused; the
\* deferred Unlock then gives the lock away.
RefuseLoggedRun(s) ==
    /\ srv[s] = "check"
    /\ log[RunOf[s]] # "none"
    /\ Returns(s, "aborted")
    /\ DropLease(s)

LogQueryFails(s) ==
    /\ "store" \in Faults
    /\ srv[s] = "check"
    /\ Returns(s, "failed")
    /\ DropLease(s)

\* Faulty variant of ServeEnds: the deferred Unlock is missing.
ServeEndsLocked(s) ==
    /\ srv[s] = "serve"
    /\ Abandoned(s)
    /\ Returns(s, "failed")
    /\ UNCHANGED etcdVars

\* Recv returned UNLOCK, EOF or an error: the deferred Unlock runs.
ServeEnds(s) ==
    /\ srv[s] = "serve"
    /\ Abandoned(s)
    /\ Returns(s, "failed")
    /\ DropLease(s)

\* The heartbeat goroutine sends TryLockReply{Result: true} every 5 s, also
\* while the handler is still asking for the lock.
Heartbeat(s) ==
    /\ "slow" \in Faults
    /\ srv[s] \in Working
    /\ sent' = sent \cup {s}
    /\ UNCHANGED <<etcdVars, srv, agentVars, log>>

\* The center process goes, and with it the handler and its keep-alive.
Die(s) ==
    /\ "crash" \in Faults
    /\ srv[s] \in Working \cup {"serve"}
    /\ kept' = kept \ {s}
    /\ Returns(s, "dead")
    /\ UNCHANGED <<key, leases>>

-----------------------------------------------------------------------------
(***************************************************************************)
(* The agent: tryLockTaskForExec and tryLockUntilCtxIsDone.                *)
(***************************************************************************)

Start(r) ==
    /\ run[r] = "new"
    /\ run' = [run EXCEPT ![r] = "trying"]
    /\ UNCHANGED <<etcdVars, srv, sent, cur, got, tries, log>>

\* One attempt: a new stream with a LOCK request on it.
Open(r, s) ==
    /\ run[r] \in {"trying", "running"}
    /\ cur[r] = NoStream
    /\ RunOf[s] = r
    /\ srv[s] = "idle"
    /\ srv' = [srv EXCEPT ![s] = "recv"]
    /\ cur' = [cur EXCEPT ![r] = s]
    /\ UNCHANGED <<etcdVars, sent, run, got, tries, log>>

\* Faulty variant of FirstReply: the request was sent, and that is enough.
FirstReplyNotAwaited(r) ==
    /\ cur[r] # NoStream
    /\ cur[r] \notin got
    /\ got' = got \cup {cur[r]}
    /\ tries' = [tries EXCEPT ![r] = 0]
    /\ run' = [run EXCEPT ![r] = IF @ = "trying" THEN "running" ELSE @]
    /\ UNCHANGED <<etcdVars, srv, sent, cur, log>>

\* The first Recv returned without error.  The reply is not looked at: a
\* heartbeat counts as the lock.
FirstReply(r) ==
    LET s == cur[r] IN
    /\ s \in sent \ got
    /\ got' = got \cup {s}
    /\ tries' = [tries EXCEPT ![r] = 0]
    /\ run' = [run EXCEPT ![r] = IF @ = "trying" THEN "running" ELSE @]
    /\ UNCHANGED <<etcdVars, srv, sent, cur, log>>

\* Faulty variant of StreamEnds: one attempt too many.
StreamEndsOnceMore(r, fatal) ==
    /\ cur' = [cur EXCEPT ![r] = NoStream]
    /\ IF cur[r] \in got
       THEN UNCHANGED <<run, tries>>
       ELSE IF fatal \/ tries[r] > MaxTries
       THEN run' = [run EXCEPT ![r] = "stopped"] /\ UNCHANGED tries
       ELSE tries' = [tries EXCEPT ![r] = @ + 1] /\ UNCHANGED run
    /\ UNCHANGED <<etcdVars, srv, sent, got, log>>

\* What the agent does when its stream ends with an error.  Before the first
\* reply a fatal error ends the run (CancelFunc, or the lock error is returned
\* to TryStartTask), another one is retried; afterwards the loop re-locks.
StreamEnds(r, fatal) ==
    /\ cur' = [cur EXCEPT ![r] = NoStream]
    /\ IF cur[r] \in got
       THEN UNCHANGED <<run, tries>>
       ELSE IF fatal \/ tries[r] = MaxTries
       THEN run' = [run EXCEPT ![r] = "stopped"] /\ UNCHANGED tries
       ELSE tries' = [tries EXCEPT ![r] = @ + 1] /\ UNCHANGED run
    /\ UNCHANGED <<etcdVars, srv, sent, got, log>>

\* gRPC delivers a reply that was sent before the status of the stream.
NothingUnread(r) == cur[r] \in sent => cur[r] \in got

Refused(r) ==
    /\ cur[r] # NoStream
    /\ srv[cur[r]] = "aborted"
    /\ NothingUnread(r)
    /\ StreamEnds(r, TRUE)

Broken(r) ==
    /\ cur[r] # NoStream
    /\ \/ srv[cur[r]] = "failed" /\ NothingUnread(r)
       \/ srv[cur[r]] = "dead"
    /\ StreamEnds(r, FALSE)

\* The connection breaks; the handler finds out later, or never acts on it
\* while it is not in Recv.
Cut(r) ==
    /\ "cut" \in Faults
    /\ cur[r] # NoStream
    /\ StreamEnds(r, FALSE)

\* CancelCtx is done (task timeout) before an attempt: the loop returns.
GiveUp(r) ==
    /\ run[r] = "trying"
    /\ cur[r] = NoStream
    /\ run' = [run EXCEPT ![r] = "stopped"]
    /\ UNCHANGED <<etcdVars, srv, sent, cur, got, tries, log>>

\* The RUNNING report created the log row.
ReportRunning(r) ==
    /\ run[r] = "running"
    /\ log[r] = "none"
    /\ log' = [log EXCEPT ![r] = "running"]
    /\ UNCHANGED <<etcdVars, srv, sent, agentVars>>

\* The command ended, was killed or timed out: the FINISHED report is stored
\* or lost, then CancelFunc.
TaskEnds(r) ==
    /\ run[r] = "running"
    /\ run' = [run EXCEPT ![r] = "stopped"]
    /\ log' \in {log, [log EXCEPT ![r] = "ended"]}
    /\ UNCHANGED <<etcdVars, srv, sent, cur, got, tries>>

\* The goroutine that holds the stream saw CancelCtx done after a Recv:
\* UNLOCK, CloseSend and cancel.
SendUnlock(r) ==
    /\ run[r] = "stopped"
    /\ cur[r] \in got
    /\ cur' = [cur EXCEPT ![r] = NoStream]
    /\ UNCHANGED <<etcdVars, srv, sent, run, got, tries, log>>

-----------------------------------------------------------------------------

Handler(s) ==
    \/ Deny(s) \/ Grant(s) \/ TxnWins(s) \/ TxnFindsOwnKey(s) \/ TxnLoses(s)
    \/ PutInherits(s) \/ LeaseNotFound(s) \/ CallFails(s) \/ Confirm(s)
    \/ RefuseLoggedRun(s) \/ LogQueryFails(s) \/ ServeEnds(s)

Agent(r) ==
    \/ Start(r) \/ (\E s \in Stream : Open(r, s)) \/ FirstReply(r)
    \/ Refused(r) \/ Broken(r) \/ Cut(r) \/ GiveUp(r)
    \/ ReportRunning(r) \/ TaskEnds(r) \/ SendUnlock(r)

Next ==
    \/ \E s \in Stream : Handler(s) \/ Heartbeat(s) \/ Die(s)
                         \/ KeepAliveLost(s) \/ Expire(s)
    \/ \E r \in Run : Agent(r)

Spec == Init /\ [][Next]_vars

\* Handlers run to their end (every etcd and MySQL call has a result), etcd
\* expires leases, gRPC delivers what was sent and the end of a stream, and the
\* agent's goroutines are scheduled.  CancelCtx has a deadline, so a run without
\* a stream gives up.  No fault is ever forced to happen, nor does a command
\* have to end.
Fairness ==
    /\ \A s \in Stream : WF_vars(Handler(s)) /\ WF_vars(Expire(s))
    /\ \A r \in Run :
         /\ WF_vars(\E s \in Stream : Open(r, s))
         /\ WF_vars(FirstReply(r))
         /\ WF_vars(Refused(r))
         /\ WF_vars(Broken(r))
         /\ WF_vars(SendUnlock(r))
         /\ WF_vars(GiveUp(r))

FairSpec == Spec /\ Fairness

-----------------------------------------------------------------------------
(***************************************************************************)
(* Properties.                                                             *)
(***************************************************************************)

\* The key never outlives its lease, a lease that somebody keeps alive belongs
\* to a handler that has not returned, and a handler that has not asked for the
\* lock owns nothing.
LeaseDiscipline ==
    /\ key # NoStream => key \in leases
    /\ \A s \in kept : srv[s] \in {"txn", "put", "check", "serve"}
    /\ \A s \in leases : srv[s] \notin {"idle", "recv"}

\* A run executes under a lock when its open stream was confirmed to it, the
\* handler of that stream is serving it and its lease is alive.
HoldsLock(r) ==
    /\ run[r] = "running"
    /\ cur[r] \in got
    /\ srv[cur[r]] = "serve"
    /\ cur[r] \in leases

\* Two runs never execute the task under its lock at the same time (when no
\* Put of the inheritance path comes late).
Exclusive == \A r1, r2 \in Run : HoldsLock(r1) /\ HoldsLock(r2) => r1 = r2

Lock == INSTANCE ExclusiveLock
            WITH Free <- NoStream,
                 owner <- IF key = NoStream THEN NoStream ELSE RunOf[key]

\* When no Put comes too late the etcd key is an exclusive lock: it passes from
\* one run to another only through "no key".
IsExclusiveLock == Lock!Spec

\* A run starts to execute only on a stream whose handler confirmed the lock.
ConfirmedBeforeRunning ==
    [][\A r \in Run : run[r] = "trying" /\ run'[r] = "running" =>
           srv[cur[r]] \in {"serve", "dead"}]_vars

\* A run that re-locks while it executes is not turned away because its own log
\* row says that it is running.
RelockAllowed ==
    [][\A s \in Stream :
           srv[s] = "check" /\ run[RunOf[s]] = "running" /\ ~Abandoned(s)
           /\ log[RunOf[s]] = "running" => srv'[s] # "aborted"]_vars

\* Every attempt to get the lock is answered: a run does not try forever.
TryingEnds == \A r \in Run : run[r] = "trying" ~> run[r] # "trying"

\* When a run has stopped, nothing of it keeps the lock: no forgotten stream,
\* late Put or unrevoked lease holds it for good.
StoppedRunsLetGo ==
    \A r \in Run : run[r] = "stopped" ~> [](~OwnedBy(r))
=============================================================================
