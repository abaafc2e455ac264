--------------------------- MODULE TaskLockProofs ---------------------------
(***************************************************************************)
(* Proofs about TaskLock, for any number of runs and streams, any retry    *)
(* limit and any combination of faults.                                    *)
(***************************************************************************)
EXTENDS TaskLock, TLAPS

\* Every variable keeps its type: the state of rpc.go, locker.go and
\* scheduler.go never leaves the ranges TypeOK names.
THEOREM TypeCorrect == Spec => []TypeOK
<1> USE DEF TypeOK, HandlerState, RunState, LogState, etcdVars, agentVars
<1>1. Init => TypeOK
  BY LockAssumption DEF Init
<1>2. ASSUME TypeOK, [Next]_vars PROVE TypeOK'
  <2> USE <1>2
  <2>1. ASSUME NEW s \in Stream, Deny(s) PROVE TypeOK'
    BY <2>1, LockAssumption DEF Deny, Returns
  <2>2. ASSUME NEW s \in Stream, Grant(s) PROVE TypeOK'
    BY <2>2, LockAssumption DEF Grant
  <2>3. ASSUME NEW s \in Stream, TxnWins(s) PROVE TypeOK'
    BY <2>3, LockAssumption DEF TxnWins
  <2>4. ASSUME NEW s \in Stream, TxnFindsOwnKey(s) PROVE TypeOK'
    BY <2>4, LockAssumption DEF TxnFindsOwnKey
  <2>5. ASSUME NEW s \in Stream, TxnLoses(s) PROVE TypeOK'
    BY <2>5, LockAssumption DEF TxnLoses, Returns, DropLease, KeyWithout
  <2>6. ASSUME NEW s \in Stream, PutInherits(s) PROVE TypeOK'
    BY <2>6, LockAssumption DEF PutInherits
  <2>7. ASSUME NEW s \in Stream, LeaseNotFound(s) PROVE TypeOK'
    BY <2>7, LockAssumption DEF LeaseNotFound, Returns, DropLease, KeyWithout
  <2>8. ASSUME NEW s \in Stream, CallFails(s) PROVE TypeOK'
    BY <2>8, LockAssumption DEF CallFails, Returns
  <2>9. ASSUME NEW s \in Stream, Confirm(s) PROVE TypeOK'
    BY <2>9, LockAssumption DEF Confirm
  <2>10. ASSUME NEW s \in Stream, RefuseLoggedRun(s) PROVE TypeOK'
    BY <2>10, LockAssumption DEF RefuseLoggedRun, Returns, DropLease, KeyWithout
  <2>11. ASSUME NEW s \in Stream, LogQueryFails(s) PROVE TypeOK'
    BY <2>11, LockAssumption DEF LogQueryFails, Returns, DropLease, KeyWithout
  <2>12. ASSUME NEW s \in Stream, ServeEnds(s) PROVE TypeOK'
    BY <2>12, LockAssumption DEF ServeEnds, Returns, DropLease, KeyWithout
  <2>13. ASSUME NEW s \in Stream, Heartbeat(s) PROVE TypeOK'
    BY <2>13, LockAssumption DEF Heartbeat
  <2>14. ASSUME NEW s \in Stream, Die(s) PROVE TypeOK'
    BY <2>14, LockAssumption DEF Die, Returns
  <2>15. ASSUME NEW s \in Stream, KeepAliveLost(s) PROVE TypeOK'
    BY <2>15, LockAssumption DEF KeepAliveLost
  <2>16. ASSUME NEW s \in Stream, Expire(s) PROVE TypeOK'
    BY <2>16, LockAssumption DEF Expire, KeyWithout
  <2>17. ASSUME NEW r \in Run, Start(r) PROVE TypeOK'
    BY <2>17, LockAssumption DEF Start
  <2>18. ASSUME NEW r \in Run, FirstReply(r) PROVE TypeOK'
    BY <2>18, LockAssumption DEF FirstReply
  <2>19. ASSUME NEW r \in Run, Refused(r) PROVE TypeOK'
    BY <2>19, LockAssumption DEF Refused, StreamEnds
  <2>20. ASSUME NEW r \in Run, Broken(r) PROVE TypeOK'
    BY <2>20, LockAssumption DEF Broken, StreamEnds
  <2>21. ASSUME NEW r \in Run, Cut(r) PROVE TypeOK'
    BY <2>21, LockAssumption DEF Cut, StreamEnds
  <2>22. ASSUME NEW r \in Run, GiveUp(r) PROVE TypeOK'
    BY <2>22, LockAssumption DEF GiveUp
  <2>23. ASSUME NEW r \in Run, ReportRunning(r) PROVE TypeOK'
    BY <2>23, LockAssumption DEF ReportRunning
  <2>24. ASSUME NEW r \in Run, TaskEnds(r) PROVE TypeOK'
    BY <2>24, LockAssumption DEF TaskEnds
  <2>25. ASSUME NEW r \in Run, SendUnlock(r) PROVE TypeOK'
    BY <2>25, LockAssumption DEF SendUnlock
  <2>26. ASSUME NEW r \in Run, NEW s \in Stream, Open(r, s) PROVE TypeOK'
    BY <2>26, LockAssumption DEF Open
  <2>27. CASE UNCHANGED vars
    BY <2>27 DEF vars
  <2>28. QED
    BY <2>1, <2>2, <2>3, <2>4, <2>5, <2>6, <2>7, <2>8, <2>9, <2>10, <2>11,
       <2>12, <2>13, <2>14, <2>15, <2>16, <2>17, <2>18, <2>19, <2>20, <2>21,
       <2>22, <2>23, <2>24, <2>25, <2>26, <2>27
       DEF Next, Handler, Agent
<1>3. QED
  BY <1>1, <1>2, PTL DEF Spec

\* The lock key never outlives its lease, only working handlers keep leases
\* alive, and no lease exists before Grant: what locker.go relies on when it
\* revokes a lease to delete the key.
THEOREM LeasesDisciplined == Spec => []LeaseDiscipline
<1> USE DEF LeaseDiscipline, TypeOK, etcdVars, agentVars
<1>1. Init => LeaseDiscipline
  BY DEF Init
<1>2. ASSUME TypeOK, LeaseDiscipline, [Next]_vars PROVE LeaseDiscipline'
  <2> USE <1>2
  <2>1. ASSUME NEW s \in Stream, Deny(s) PROVE LeaseDiscipline'
    BY <2>1, LockAssumption DEF Deny, Returns
  <2>2. ASSUME NEW s \in Stream, Grant(s) PROVE LeaseDiscipline'
    BY <2>2, LockAssumption DEF Grant
  <2>3. ASSUME NEW s \in Stream, TxnWins(s) PROVE LeaseDiscipline'
    BY <2>3, LockAssumption DEF TxnWins
  <2>4. ASSUME NEW s \in Stream, TxnFindsOwnKey(s) PROVE LeaseDiscipline'
    BY <2>4, LockAssumption DEF TxnFindsOwnKey
  <2>5. ASSUME NEW s \in Stream, TxnLoses(s) PROVE LeaseDiscipline'
    BY <2>5, LockAssumption DEF TxnLoses, Returns, DropLease, KeyWithout
  <2>6. ASSUME NEW s \in Stream, PutInherits(s) PROVE LeaseDiscipline'
    BY <2>6, LockAssumption DEF PutInherits
  <2>7. ASSUME NEW s \in Stream, LeaseNotFound(s) PROVE LeaseDiscipline'
    BY <2>7, LockAssumption DEF LeaseNotFound, Returns, DropLease, KeyWithout
  <2>8. ASSUME NEW s \in Stream, CallFails(s) PROVE LeaseDiscipline'
    BY <2>8, LockAssumption DEF CallFails, Returns
  <2>9. ASSUME NEW s \in Stream, Confirm(s) PROVE LeaseDiscipline'
    BY <2>9, LockAssumption DEF Confirm
  <2>10. ASSUME NEW s \in Stream, RefuseLoggedRun(s) PROVE LeaseDiscipline'
    BY <2>10, LockAssumption DEF RefuseLoggedRun, Returns, DropLease, KeyWithout
  <2>11. ASSUME NEW s \in Stream, LogQueryFails(s) PROVE LeaseDiscipline'
    BY <2>11, LockAssumption DEF LogQueryFails, Returns, DropLease, KeyWithout
  <2>12. ASSUME NEW s \in Stream, ServeEnds(s) PROVE LeaseDiscipline'
    BY <2>12, LockAssumption DEF ServeEnds, Returns, DropLease, KeyWithout
  <2>13. ASSUME NEW s \in Stream, Heartbeat(s) PROVE LeaseDiscipline'
    BY <2>13, LockAssumption DEF Heartbeat
  <2>14. ASSUME NEW s \in Stream, Die(s) PROVE LeaseDiscipline'
    BY <2>14, LockAssumption DEF Die, Returns, Working
  <2>15. ASSUME NEW s \in Stream, KeepAliveLost(s) PROVE LeaseDiscipline'
    BY <2>15, LockAssumption DEF KeepAliveLost
  <2>16. ASSUME NEW s \in Stream, Expire(s) PROVE LeaseDiscipline'
    BY <2>16, LockAssumption DEF Expire, KeyWithout
  <2>17. ASSUME NEW r \in Run, Start(r) PROVE LeaseDiscipline'
    BY <2>17, LockAssumption DEF Start
  <2>18. ASSUME NEW r \in Run, FirstReply(r) PROVE LeaseDiscipline'
    BY <2>18, LockAssumption DEF FirstReply
  <2>19. ASSUME NEW r \in Run, Refused(r) PROVE LeaseDiscipline'
    BY <2>19, LockAssumption DEF Refused, StreamEnds
  <2>20. ASSUME NEW r \in Run, Broken(r) PROVE LeaseDiscipline'
    BY <2>20, LockAssumption DEF Broken, StreamEnds
  <2>21. ASSUME NEW r \in Run, Cut(r) PROVE LeaseDiscipline'
    BY <2>21, LockAssumption DEF Cut, StreamEnds
  <2>22. ASSUME NEW r \in Run, GiveUp(r) PROVE LeaseDiscipline'
    BY <2>22, LockAssumption DEF GiveUp
  <2>23. ASSUME NEW r \in Run, ReportRunning(r) PROVE LeaseDiscipline'
    BY <2>23, LockAssumption DEF ReportRunning
  <2>24. ASSUME NEW r \in Run, TaskEnds(r) PROVE LeaseDiscipline'
    BY <2>24, LockAssumption DEF TaskEnds
  <2>25. ASSUME NEW r \in Run, SendUnlock(r) PROVE LeaseDiscipline'
    BY <2>25, LockAssumption DEF SendUnlock
  <2>26. ASSUME NEW r \in Run, NEW s \in Stream, Open(r, s)
         PROVE  LeaseDiscipline'
    BY <2>26, LockAssumption DEF Open
  <2>27. CASE UNCHANGED vars
    BY <2>27 DEF vars
  <2>28. QED
    BY <2>1, <2>2, <2>3, <2>4, <2>5, <2>6, <2>7, <2>8, <2>9, <2>10, <2>11,
       <2>12, <2>13, <2>14, <2>15, <2>16, <2>17, <2>18, <2>19, <2>20, <2>21,
       <2>22, <2>23, <2>24, <2>25, <2>26, <2>27
       DEF Next, Handler, Agent
<1>3. QED
  BY <1>1, <1>2, TypeCorrect, PTL DEF Spec

-----------------------------------------------------------------------------
(***************************************************************************)
(* Exclusion, as long as no inheriting Put comes too late.                 *)
(***************************************************************************)

\* The inductive invariant: a handler past TryLockWithOwner whose lease is
\* alive and whose stream the run still has open holds the key itself.
CurrentHolds ==
    \A s \in Stream :
        srv[s] \in {"check", "serve"} /\ s \in leases /\ ~Abandoned(s) => key = s

\* No step but a late Put takes the key from the current stream of a run.
LEMMA CurrentHoldsStep ==
    ASSUME "late" \notin Faults, TypeOK, CurrentHolds, [Next]_vars
    PROVE  CurrentHolds'
<1> USE DEF CurrentHolds, Abandoned, TypeOK, etcdVars, agentVars
<1>1. CASE UNCHANGED vars
  BY <1>1 DEF vars
<1>2. ASSUME Next PROVE CurrentHolds'
  <2> USE <1>2
  <2>1. ASSUME NEW s \in Stream, Deny(s) PROVE CurrentHolds'
    BY <2>1, LockAssumption DEF Deny, Returns
  <2>2. ASSUME NEW s \in Stream, Grant(s) PROVE CurrentHolds'
    BY <2>2, LockAssumption DEF Grant
  <2>3. ASSUME NEW s \in Stream, TxnWins(s) PROVE CurrentHolds'
    BY <2>3, LockAssumption DEF TxnWins
  <2>4. ASSUME NEW s \in Stream, TxnFindsOwnKey(s) PROVE CurrentHolds'
    BY <2>4, LockAssumption DEF TxnFindsOwnKey
  <2>5. ASSUME NEW s \in Stream, TxnLoses(s) PROVE CurrentHolds'
    BY <2>5, LockAssumption DEF TxnLoses, Returns, DropLease, KeyWithout
  <2>6. ASSUME NEW s \in Stream, PutInherits(s) PROVE CurrentHolds'
    BY <2>6, LockAssumption DEF PutInherits, InTime, OwnedBy
  <2>7. ASSUME NEW s \in Stream, LeaseNotFound(s) PROVE CurrentHolds'
    BY <2>7, LockAssumption DEF LeaseNotFound, Returns, DropLease, KeyWithout
  <2>8. ASSUME NEW s \in Stream, CallFails(s) PROVE CurrentHolds'
    BY <2>8, LockAssumption DEF CallFails, Returns, InTime, OwnedBy
  <2>9. ASSUME NEW s \in Stream, Confirm(s) PROVE CurrentHolds'
    BY <2>9, LockAssumption DEF Confirm
  <2>10. ASSUME NEW s \in Stream, RefuseLoggedRun(s) PROVE CurrentHolds'
    BY <2>10, LockAssumption DEF RefuseLoggedRun, Returns, DropLease, KeyWithout
  <2>11. ASSUME NEW s \in Stream, LogQueryFails(s) PROVE CurrentHolds'
    BY <2>11, LockAssumption DEF LogQueryFails, Returns, DropLease, KeyWithout
  <2>12. ASSUME NEW s \in Stream, ServeEnds(s) PROVE CurrentHolds'
    BY <2>12, LockAssumption DEF ServeEnds, Returns, DropLease, KeyWithout
  <2>13. ASSUME NEW s \in Stream, Heartbeat(s) PROVE CurrentHolds'
    BY <2>13, LockAssumption DEF Heartbeat
  <2>14. ASSUME NEW s \in Stream, Die(s) PROVE CurrentHolds'
    BY <2>14, LockAssumption DEF Die, Returns
  <2>15. ASSUME NEW s \in Stream, KeepAliveLost(s) PROVE CurrentHolds'
    BY <2>15, LockAssumption DEF KeepAliveLost
  <2>16. ASSUME NEW s \in Stream, Expire(s) PROVE CurrentHolds'
    BY <2>16, LockAssumption DEF Expire, KeyWithout
  <2>17. ASSUME NEW r \in Run, Start(r) PROVE CurrentHolds'
    BY <2>17, LockAssumption DEF Start
  <2>18. ASSUME NEW r \in Run, FirstReply(r) PROVE CurrentHolds'
    BY <2>18, LockAssumption DEF FirstReply
  <2>19. ASSUME NEW r \in Run, Refused(r) PROVE CurrentHolds'
    BY <2>19, LockAssumption DEF Refused, StreamEnds
  <2>20. ASSUME NEW r \in Run, Broken(r) PROVE CurrentHolds'
    BY <2>20, LockAssumption DEF Broken, StreamEnds
  <2>21. ASSUME NEW r \in Run, Cut(r) PROVE CurrentHolds'
    BY <2>21, LockAssumption DEF Cut, StreamEnds
  <2>22. ASSUME NEW r \in Run, GiveUp(r) PROVE CurrentHolds'
    BY <2>22, LockAssumption DEF GiveUp
  <2>23. ASSUME NEW r \in Run, ReportRunning(r) PROVE CurrentHolds'
    BY <2>23, LockAssumption DEF ReportRunning
  <2>24. ASSUME NEW r \in Run, TaskEnds(r) PROVE CurrentHolds'
    BY <2>24, LockAssumption DEF TaskEnds
  <2>25. ASSUME NEW r \in Run, SendUnlock(r) PROVE CurrentHolds'
    BY <2>25, LockAssumption DEF SendUnlock
  <2>26. ASSUME NEW r \in Run, NEW s \in Stream, Open(r, s) PROVE CurrentHolds'
    BY <2>26, LockAssumption DEF Open
  <2>27. CASE UNCHANGED vars
    BY <2>27 DEF vars
  <2>28. QED
    BY <2>1, <2>2, <2>3, <2>4, <2>5, <2>6, <2>7, <2>8, <2>9, <2>10, <2>11,
       <2>12, <2>13, <2>14, <2>15, <2>16, <2>17, <2>18, <2>19, <2>20, <2>21,
       <2>22, <2>23, <2>24, <2>25, <2>26, <2>27
       DEF Next, Handler, Agent
<1>3. QED
  BY <1>1, <1>2

\* The invariant in every behaviour without late Puts.
LEMMA CurrentStreamsHold ==
    ASSUME "late" \notin Faults
    PROVE  Spec => []CurrentHolds
<1>1. Init => CurrentHolds
  BY DEF Init, CurrentHolds
<1>2. QED
  BY <1>1, CurrentHoldsStep, TypeCorrect, PTL DEF Spec

\* Only the agent of a run changes what it does and which stream it reads: the
\* handlers of rpc.go, etcd and the network reach it through its stream alone.
LEMMA OnlyAgentsMoveRuns ==
    ASSUME [Next]_vars, \A r \in Run : ~Agent(r)
    PROVE  UNCHANGED <<run, cur>>
<1> USE DEF etcdVars, agentVars
<1>1. ASSUME NEW s \in Stream, Handler(s) PROVE UNCHANGED <<run, cur>>
  BY <1>1 DEF Handler, Returns, Deny, Grant, TxnWins, TxnFindsOwnKey, TxnLoses,
     PutInherits, LeaseNotFound, CallFails, Confirm, RefuseLoggedRun,
     LogQueryFails, ServeEnds
<1>2. ASSUME NEW s \in Stream,
             Heartbeat(s) \/ Die(s) \/ KeepAliveLost(s) \/ Expire(s)
      PROVE  UNCHANGED <<run, cur>>
  BY <1>2 DEF Heartbeat, Die, Returns, KeepAliveLost, Expire
<1> QED
  BY <1>1, <1>2 DEF Next, vars

\* A run has only streams open that were opened for it.
OwnStreams == \A r \in Run : cur[r] # NoStream => RunOf[cur[r]] = r

\* A run has only streams open that were opened for it.
LEMMA OwnStreamsOnly == Spec => []OwnStreams
<1> USE DEF OwnStreams, TypeOK, etcdVars, agentVars
<1>1. Init => OwnStreams
  BY DEF Init
<1>2. ASSUME TypeOK, OwnStreams, [Next]_vars PROVE OwnStreams'
  <2> USE <1>2
  <2>1. ASSUME NEW r \in Run, NEW s \in Stream, Open(r, s) PROVE OwnStreams'
    BY <2>1 DEF Open
  <2>2. ASSUME NEW r \in Run, Refused(r) \/ Broken(r) \/ Cut(r) \/ SendUnlock(r)
        PROVE  OwnStreams'
    BY <2>2 DEF Refused, Broken, Cut, StreamEnds, SendUnlock
  <2>3. ASSUME NEW r \in Run, Start(r) \/ FirstReply(r) \/ GiveUp(r)
                               \/ ReportRunning(r) \/ TaskEnds(r)
        PROVE  OwnStreams'
    BY <2>3 DEF Start, FirstReply, GiveUp, ReportRunning, TaskEnds
  <2>4. CASE \A r \in Run : ~Agent(r)
    BY <2>4, OnlyAgentsMoveRuns
  <2> QED
    BY <2>1, <2>2, <2>3, <2>4 DEF Agent
<1>3. QED
  BY <1>1, <1>2, TypeCorrect, PTL DEF Spec

\* Two runs never execute the task under its lock at the same time, unless a
\* Put of the inheritance path (locker.go) came too late.
THEOREM ExclusiveUnlessLatePut ==
    ASSUME "late" \notin Faults
    PROVE  Spec => []Exclusive
<1>1. ASSUME TypeOK, OwnStreams, CurrentHolds PROVE Exclusive
  <2> SUFFICES ASSUME NEW r1 \in Run, NEW r2 \in Run, HoldsLock(r1), HoldsLock(r2)
               PROVE  r1 = r2
    BY DEF Exclusive
  <2>1. cur[r1] \in Stream /\ cur[r2] \in Stream
    BY <1>1 DEF HoldsLock, TypeOK
  <2>2. RunOf[cur[r1]] = r1 /\ RunOf[cur[r2]] = r2
    BY <1>1, <2>1, LockAssumption DEF OwnStreams
  <2>3. key = cur[r1] /\ key = cur[r2]
    BY <1>1, <2>1, <2>2 DEF HoldsLock, CurrentHolds, Abandoned
  <2> QED
    BY <2>2, <2>3
<1>2. QED
  BY <1>1, CurrentStreamsHold, OwnStreamsOnly, TypeCorrect, PTL

-----------------------------------------------------------------------------
(***************************************************************************)
(* Refinement: the key is the lock of ExclusiveLock.                       *)
(***************************************************************************)

\* Without late Puts the etcd key passes from one run to another only through
\* "no key": locker.go implements a lock with one owner at a time.
THEOREM KeyIsExclusiveLock ==
    ASSUME "late" \notin Faults
    PROVE  Spec => IsExclusiveLock
<1> DEFINE owner == IF key = NoStream THEN NoStream ELSE RunOf[key]
<1>1. Init => Lock!Init
  BY DEF Init, Lock!Init
<1>2. ASSUME TypeOK, [Next]_vars
      PROVE  [Lock!Next]_owner
  <2> USE <1>2
  <2> DEFINE Moved(s) == key' = s /\ (key = NoStream \/ OwnedBy(RunOf[s]))
  <2>1. key' \in {key, NoStream} \/ (\E s \in Stream : Moved(s))
    <3> USE DEF etcdVars, agentVars
    <3>1. CASE UNCHANGED vars
      BY <3>1 DEF vars
    <3>2. ASSUME NEW r \in Run, Agent(r) PROVE key' = key
      BY <3>2 DEF Agent, Start, Open, FirstReply, Refused, Broken, Cut, GiveUp,
         StreamEnds, ReportRunning, TaskEnds, SendUnlock
    <3>3. ASSUME NEW s \in Stream, TxnWins(s) PROVE Moved(s)
      BY <3>3 DEF TxnWins
    <3>4. ASSUME NEW s \in Stream, PutInherits(s) PROVE Moved(s)
      BY <3>4 DEF PutInherits, InTime
    <3>5. ASSUME NEW s \in Stream, CallFails(s)
          PROVE  key' \in {key, NoStream} \/ Moved(s)
      BY <3>5 DEF CallFails, Returns, InTime, TypeOK
    <3>6. ASSUME NEW s \in Stream,
                 Handler(s), ~TxnWins(s), ~PutInherits(s), ~CallFails(s)
          PROVE  key' \in {key, NoStream}
      BY <3>6 DEF Handler, Deny, Grant, TxnFindsOwnKey, TxnLoses, LeaseNotFound,
         Confirm, RefuseLoggedRun, LogQueryFails, ServeEnds, Returns, DropLease,
         KeyWithout
    <3>7. ASSUME NEW s \in Stream,
                 Heartbeat(s) \/ Die(s) \/ KeepAliveLost(s) \/ Expire(s)
          PROVE  key' \in {key, NoStream}
      BY <3>7 DEF Heartbeat, Die, Returns, KeepAliveLost, Expire, KeyWithout
    <3>8. QED
      BY <3>1, <3>2, <3>3, <3>4, <3>5, <3>6, <3>7 DEF Next
  <2>2. ASSUME NEW s \in Stream, Moved(s) PROVE [Lock!Next]_owner
    BY <2>2, LockAssumption DEF Lock!Next, Lock!Acquire, OwnedBy
  <2>3. CASE key' = key
    BY <2>3
  <2>4. CASE key' = NoStream
    BY <2>4, LockAssumption DEF Lock!Next, Lock!Release, TypeOK
  <2>5. QED
    BY <2>1, <2>2, <2>3, <2>4
<1>3. QED
  BY <1>1, <1>2, TypeCorrect, PTL
     DEF Spec, IsExclusiveLock, Lock!Spec
-----------------------------------------------------------------------------
(***************************************************************************)
(* A run starts only on a confirmed lock.                                  *)
(***************************************************************************)

\* When no handler is slower than a heartbeat, what was sent on a stream was
\* sent by a handler that serves it, until the run gives the stream up.
SentByServers ==
    \A s \in sent : \/ srv[s] \in {"serve", "dead"}
                    \/ srv[s] = "failed" /\ Abandoned(s)

\* No step but Confirm sends, and a handler that serves ends with its stream.
LEMMA SentByServersStep ==
    ASSUME "slow" \notin Faults, TypeOK, SentByServers, [Next]_vars
    PROVE  SentByServers'
<1> USE DEF SentByServers, Abandoned, TypeOK, etcdVars, agentVars
<1>1. QED
  <2>1. ASSUME NEW s \in Stream, Deny(s) PROVE SentByServers'
    BY <2>1, LockAssumption DEF Deny, Returns
  <2>2. ASSUME NEW s \in Stream, Grant(s) PROVE SentByServers'
    BY <2>2, LockAssumption DEF Grant
  <2>3. ASSUME NEW s \in Stream, TxnWins(s) PROVE SentByServers'
    BY <2>3, LockAssumption DEF TxnWins
  <2>4. ASSUME NEW s \in Stream, TxnFindsOwnKey(s) PROVE SentByServers'
    BY <2>4, LockAssumption DEF TxnFindsOwnKey
  <2>5. ASSUME NEW s \in Stream, TxnLoses(s) PROVE SentByServers'
    BY <2>5, LockAssumption DEF TxnLoses, Returns, DropLease, KeyWithout
  <2>6. ASSUME NEW s \in Stream, PutInherits(s) PROVE SentByServers'
    BY <2>6, LockAssumption DEF PutInherits, InTime, OwnedBy
  <2>7. ASSUME NEW s \in Stream, LeaseNotFound(s) PROVE SentByServers'
    BY <2>7, LockAssumption DEF LeaseNotFound, Returns, DropLease, KeyWithout
  <2>8. ASSUME NEW s \in Stream, CallFails(s) PROVE SentByServers'
    BY <2>8, LockAssumption DEF CallFails, Returns, InTime, OwnedBy
  <2>9. ASSUME NEW s \in Stream, Confirm(s) PROVE SentByServers'
    BY <2>9, LockAssumption DEF Confirm
  <2>10. ASSUME NEW s \in Stream, RefuseLoggedRun(s) PROVE SentByServers'
    BY <2>10, LockAssumption DEF RefuseLoggedRun, Returns, DropLease, KeyWithout
  <2>11. ASSUME NEW s \in Stream, LogQueryFails(s) PROVE SentByServers'
    BY <2>11, LockAssumption DEF LogQueryFails, Returns, DropLease, KeyWithout
  <2>12. ASSUME NEW s \in Stream, ServeEnds(s) PROVE SentByServers'
    BY <2>12, LockAssumption DEF ServeEnds, Returns, DropLease, KeyWithout
  <2>13. ASSUME NEW s \in Stream, Heartbeat(s) PROVE SentByServers'
    BY <2>13, LockAssumption DEF Heartbeat
  <2>14. ASSUME NEW s \in Stream, Die(s) PROVE SentByServers'
    BY <2>14, LockAssumption DEF Die, Returns
  <2>15. ASSUME NEW s \in Stream, KeepAliveLost(s) PROVE SentByServers'
    BY <2>15, LockAssumption DEF KeepAliveLost
  <2>16. ASSUME NEW s \in Stream, Expire(s) PROVE SentByServers'
    BY <2>16, LockAssumption DEF Expire, KeyWithout
  <2>17. ASSUME NEW r \in Run, Start(r) PROVE SentByServers'
    BY <2>17, LockAssumption DEF Start
  <2>18. ASSUME NEW r \in Run, FirstReply(r) PROVE SentByServers'
    BY <2>18, LockAssumption DEF FirstReply
  <2>19. ASSUME NEW r \in Run, Refused(r) PROVE SentByServers'
    BY <2>19, LockAssumption DEF Refused, StreamEnds
  <2>20. ASSUME NEW r \in Run, Broken(r) PROVE SentByServers'
    BY <2>20, LockAssumption DEF Broken, StreamEnds
  <2>21. ASSUME NEW r \in Run, Cut(r) PROVE SentByServers'
    BY <2>21, LockAssumption DEF Cut, StreamEnds
  <2>22. ASSUME NEW r \in Run, GiveUp(r) PROVE SentByServers'
    BY <2>22, LockAssumption DEF GiveUp
  <2>23. ASSUME NEW r \in Run, ReportRunning(r) PROVE SentByServers'
    BY <2>23, LockAssumption DEF ReportRunning
  <2>24. ASSUME NEW r \in Run, TaskEnds(r) PROVE SentByServers'
    BY <2>24, LockAssumption DEF TaskEnds
  <2>25. ASSUME NEW r \in Run, SendUnlock(r) PROVE SentByServers'
    BY <2>25, LockAssumption DEF SendUnlock
  <2>26. ASSUME NEW r \in Run, NEW s \in Stream, Open(r, s) PROVE SentByServers'
    BY <2>26, LockAssumption DEF Open
  <2>27. CASE UNCHANGED vars
    BY <2>27 DEF vars
  <2>28. QED
    BY <2>1, <2>2, <2>3, <2>4, <2>5, <2>6, <2>7, <2>8, <2>9, <2>10, <2>11,
       <2>12, <2>13, <2>14, <2>15, <2>16, <2>17, <2>18, <2>19, <2>20, <2>21,
       <2>22, <2>23, <2>24, <2>25, <2>26, <2>27 DEF Next, Handler, Agent

\* A run starts to execute only on a stream whose handler confirmed the lock
\* (tryLockUntilCtxIsDone takes any first reply for the lock), as long as no
\* handler is slower than the heartbeat of TryLock.
THEOREM ConfirmedUnlessSlow ==
    ASSUME "slow" \notin Faults
    PROVE  Spec => ConfirmedBeforeRunning
<1> DEFINE Confirmed(r) ==
      run[r] = "trying" /\ run'[r] = "running" => srv[cur[r]] \in {"serve", "dead"}
<1>1. Init => SentByServers
  BY DEF Init, SentByServers
<1>2. ASSUME TypeOK, OwnStreams, SentByServers, [Next]_vars, NEW r \in Run
      PROVE  Confirmed(r)
  <2> USE <1>2 DEF TypeOK, etcdVars, agentVars
  <2>1. ASSUME NEW q \in Run, FirstReply(q) PROVE Confirmed(r)
    <3>1. cur[q] \in sent /\ \A p \in Run : p # q => run'[p] = run[p]
      BY <2>1 DEF FirstReply
    <3>2. cur[q] \in Stream /\ RunOf[cur[q]] = q
      BY <3>1, LockAssumption DEF OwnStreams
    <3>3. srv[cur[q]] \in {"serve", "dead"}
      BY <3>1, <3>2 DEF SentByServers, Abandoned
    <3>4. QED
      BY <3>1, <3>3
  <2>2. ASSUME NEW q \in Run, Agent(q), ~FirstReply(q) PROVE Confirmed(r)
    BY <2>2 DEF Agent, Start, Open, Refused, Broken, Cut, StreamEnds, GiveUp,
       ReportRunning, TaskEnds, SendUnlock
  <2>3. CASE \A q \in Run : ~Agent(q)
    BY <2>3, OnlyAgentsMoveRuns
  <2> QED
    BY <2>1, <2>2, <2>3
<1>3. ASSUME TypeOK, OwnStreams, SentByServers, [Next]_vars
      PROVE  [\A r \in Run : run[r] = "trying" /\ run'[r] = "running" =>
                srv[cur[r]] \in {"serve", "dead"}]_vars
  BY <1>2, <1>3
<1>4. QED
  BY <1>1, <1>3, SentByServersStep, OwnStreamsOnly, TypeCorrect, PTL
     DEF Spec, ConfirmedBeforeRunning
=============================================================================
