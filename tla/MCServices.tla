----------------------------- MODULE MCServices -----------------------------
(***************************************************************************)
(* The services around the execution of a task, one at a time: a behaviour *)
(* is one of the module that part names, and the variables of the others   *)
(* keep their initial values.  Projects has two parts, for its members and *)
(* for what is stored for it and its deletion.                             *)
(***************************************************************************)
EXTENDS PlanTable, AgentRegister, EventReply, RunDoctor, TempTask, Projects,
        WorkflowEdit, WorkflowMembers, LogTable, WebHooks

VARIABLE part

(* The variables of the small modules.                                     *)
smallVars == <<replyVars, memberVars, logVars, hookVars>>

vars == <<part, planVars, regVars, doctorVars, tempVars, projectVars, editVars,
          smallVars>>

(* The task lists that editors send: the last one is not valid.            *)
Pair(t, d) == [task |-> t, dep |-> d]
Lists == {{Pair("x", "none"), Pair("y", "x")}, {Pair("y", "none")},
          {Pair("x", "y")}}

(* Symmetry: processes of one kind that have not begun, or are idle again, *)
(* can be exchanged, and one of them is the next to begin.  So can targets *)
(* of webhooks that nothing names.                                         *)
OneOf(S) == IF S = {} THEN {} ELSE {CHOOSE s \in S : TRUE}
NextEditor == OneOf({e \in Editor : edit[e].step = "before"})
NextRun == OneOf({r \in Run : report[r] = "none"})
NextCall == OneOf({c \in Call : call[c].op = "none"})
NextJob == OneOf({j \in Job : job[j].op = "none"})
NextLeader == OneOf({c \in Center : office[c] = "out"})
NextSweeper == OneOf({c \in Sweeper : sweep[c].step = "none"})
UrlsNamed ==
  {h.url : h \in hooks \union oldHooks}
  \union UNION {{work[r].of[t] : t \in Type} : r \in Report}
NextUrl == (Url \intersect UrlsNamed) \union OneOf(Url \ UrlsNamed)

(* Bound: an agent is sent a ping behind another event, or has a break.    *)
PingMatters(a) == wire[a] # <<>> /\ spent.breaks = 0

InPlan ==
  /\ part = "plan"
  /\ UNCHANGED <<part, regVars, doctorVars, tempVars, projectVars, editVars,
                 smallVars>>
Pingless == InPlan /\ spent.pings = 0
InReg ==
  /\ part = "register"
  /\ UNCHANGED <<part, planVars, doctorVars, tempVars, projectVars, editVars,
                 smallVars>>
InDoctor ==
  /\ part = "doctor"
  /\ UNCHANGED <<part, planVars, regVars, tempVars, projectVars, editVars,
                 smallVars>>
InTemp ==
  /\ part = "temp"
  /\ UNCHANGED <<part, planVars, regVars, doctorVars, projectVars, editVars,
                 smallVars>>
InProject ==
  UNCHANGED <<part, planVars, regVars, doctorVars, tempVars, editVars,
              smallVars>>

(* Bounds: a behaviour of the members ends with an excused removal and has *)
(* none whose checks are excused from the start, one account is deleted,   *)
(* one user at a time has two rows, and an administrator creates the       *)
(* project.                                                                *)
OneDouble(who) == \A v \in User \ {who} : Len(db.rows[v]) < 2
InMembers == part = "members" /\ ~pardoned /\ InProject
InDeletion == part = "deletion" /\ InProject

(* Bound: a job that only refreshes the plan is not beside another one.    *)
Beside == \A j \in Job : job[j].op \notin {"update", "refresh", "schedule"}
InEdit ==
  /\ part = "edit"
  /\ UNCHANGED <<part, planVars, regVars, doctorVars, tempVars, projectVars,
                 smallVars>>

InSmall ==
  UNCHANGED <<part, planVars, regVars, doctorVars, tempVars, projectVars,
              editVars>>
InReply ==
  part = "reply" /\ InSmall /\ UNCHANGED <<memberVars, logVars, hookVars>>
InFlow ==
  part = "flow" /\ InSmall /\ UNCHANGED <<replyVars, logVars, hookVars>>
InLog ==
  part = "log" /\ InSmall /\ UNCHANGED <<replyVars, memberVars, hookVars>>
InHooks ==
  part = "hooks" /\ InSmall /\ UNCHANGED <<replyVars, memberVars, logVars>>

(* Bound: the API changes webhooks until the reports have read them.       *)
InHookApi == InHooks /\ \E r \in Report : work[r].step \in {"none", "load"}

Init ==
  /\ part \in {"plan", "register", "reply", "doctor", "temp", "members",
               "deletion", "edit", "flow", "log", "hooks"}
  /\ PlanInit /\ RegInit /\ ReplyInit /\ TempInit /\ ProjectsInit /\ EditInit
  /\ MemberInit /\ LogInit /\ HookInit
  /\ part # "flow" => \A p \in Person : flow.copies[p] > 0 => p = First
  /\ DoctorInit /\ host[CHOOSE r \in Run : TRUE] = "here"
  /\ part # "doctor" => \A r \in Run : host[r] = "here"

(* The steps of each part.                                                 *)
PlanSteps ==
  \/ InPlan /\ \E e \in NextEditor, v \in Definition : Begin(e, v)
  \/ InPlan /\ \E e \in Editor, a \in Agent : Ask(e, a)
  \/ InPlan /\ \E e \in Editor, a \in Agent : AskFails(e, a)
  \/ InPlan /\ \E e \in Editor, a \in Agent : Answered(e, a)
  \/ InPlan /\ \E e \in Editor, a \in Agent : Timeout(e, a)
  \/ InPlan /\ \E e \in Editor, done \in BOOLEAN : Write(e, done)
  \/ InPlan /\ \E a \in Agent : Connect(a)
  \/ InPlan /\ \E a \in Agent : SaveStream(a)
  \/ InPlan /\ \E a \in Agent : ReadStore(a)
  \/ InPlan /\ \E a \in Agent : SendLoad(a)
  \/ InPlan /\ \E a \in Agent : LoadAnswered(a)
  \/ Pingless /\ \E a \in Agent : LoadTimeout(a)
  \/ InPlan /\ \E a \in Agent : HandlerReturns(a)
  \/ InPlan /\ \E a \in Agent : PingMatters(a) /\ SendPing(a)
  \/ InPlan /\ \E a \in Agent : Receive(a)
  \/ InPlan /\ \E a \in Agent : Handle(a)
  \/ InPlan /\ \E a \in Agent : Apply(a)
  \/ InPlan /\ \E a \in Agent : CalcPlanHash(a)
  \/ InPlan /\ \E a \in Agent : StreamEnds(a)
  \/ Pingless /\ \E a \in Agent : Break(a)
  \/ Pingless /\ \E a \in Agent : Reload(a)
  \/ Pingless /\ \E a \in Agent : Restart(a)
  \/ Pingless /\ \E a \in Agent : Reregister(a)

RegSteps ==
  \/ InReg /\ \E t \in Thread : Register(t)
  \/ InReg /\ \E t \in Thread : Lock(t)
  \/ InReg /\ \E t \in Thread, s \in Stream : OpenStream(t, s)
  \/ InReg /\ \E t \in Thread : OpenFails(t)
  \/ InReg /\ \E t \in Thread : HangEnds(t)
  \/ InReg /\ \E s \in Stream : LoopTop(s)
  \/ InReg /\ \E s \in Stream : LoopReceives(s)
  \/ InReg /\ \E s \in Stream : LoopFails(s)
  \/ InReg /\ \E s \in Stream : HandleEvent(s)
  \/ InReg /\ \E s \in Stream : HandleFails(s)
  \/ InReg /\ \E s \in Stream : Wake(s)
  \/ InReg /\ \E s \in Stream : SnapshotTimeout(s)
  \/ InReg /\ \E s \in Stream : Lose(s)
  \/ InReg /\ \E s \in Stream : PushTimeout(s)
  \/ InReg /\ \E s \in Stream : RemoveStream(s)
  \/ InReg /\ \E s \in Stream : Return(s)
  \/ InReg /\ \E s \in Stream, k \in {"none", "load", "malformed"} :
       Accept(s, k)
  \/ InReg /\ \E s \in Stream, k \in Kind : Push(s, k)
  \/ InReg /\ Close

ReplySteps ==
  \/ InReply /\ SetEntry
  \/ InReply /\ Expire
  \/ InReply /\ SendFails
  \/ InReply /\ CloserLocks
  \/ InReply /\ CloserCloses
  \/ InReply /\ \E r \in {"answered", "gave up"} : Finish(r)
  \/ InReply /\ \E d \in Delivery : Find(d)
  \/ InReply /\ \E d \in Delivery : TryLock(d)
  \/ InReply /\ \E d \in Delivery : CheckOpen(d)
  \/ InReply /\ \E d \in Delivery : Deliver(d)

DoctorSteps ==
  \/ InDoctor /\ \E r \in NextRun : StartRun(r)
  \/ InDoctor /\ \E r \in Run : CreateRow(r)
  \/ InDoctor /\ \E r \in Run : PutKey(r)
  \/ InDoctor /\ \E r \in Run : PutFails(r)
  \/ InDoctor /\ \E r \in Run : EndRun(r)
  \/ InDoctor /\ \E r \in Run : SaveResult(r)
  \/ InDoctor /\ \E r \in Run : SaveFails(r)
  \/ InDoctor /\ \E r \in Run : DeleteKey(r)
  \/ InDoctor /\ \E r \in Run : AgentDies(r)
  \/ InDoctor /\ KeyExpires
  \/ InDoctor /\ \E c \in Checker, r \in Run : Examine(c, r)
  \/ InDoctor /\ \E c \in Checker : Kill(c)
  \/ InDoctor /\ \E c \in Checker : AgentAnswers(c)
  \/ InDoctor /\ \E c \in Checker : AgentUnlisted(c)
  \/ InDoctor /\ \E c \in Checker : RunOverdue(c)
  \/ InDoctor /\ \E c \in Checker : CheckFails(c)
  \/ InDoctor /\ \E c \in Checker : ReadRow(c)
  \/ InDoctor /\ \E c \in Checker : ReadOldRow(c)
  \/ InDoctor /\ \E c \in Checker : WriteRow(c)
  \/ InDoctor /\ \E c \in Checker : WriteRowFails(c)
  \/ InDoctor /\ \E c \in Checker : DropKey(c)
  \/ InDoctor /\ \E c \in Checker : DropKeyFails(c)
  \/ InDoctor /\ \E c \in Checker : Commit(c)

TempSteps ==
  \/ InTemp /\ TimePasses
  \/ InTemp /\ CleanTemp
  \/ InTemp /\ \E t \in Task : DeleteTemp(t)
  \/ InTemp /\ \E t \in Task, d \in Clock : CreateTemp(t, d)
  \/ InTemp /\ \E c \in NextLeader : Elect(c)
  \/ InTemp /\ \E c \in Center : LoseSession(c)
  \/ InTemp /\ \E c \in Center : StepDown(c)
  \/ InTemp /\ \E c \in Center : WorkerDies(c)
  \/ InTemp /\ \E c \in Center : Tick(c)
  \/ InTemp /\ \E c \in Center : TickFails(c)
  \/ InTemp /\ \E c \in Center : LoadExpired(c)
  \/ InTemp /\ \E c \in Center : RoundEnds(c)
  \/ InTemp /\ \E c \in Center, t \in Task : MarkScheduled(c, t)
  \/ InTemp /\ \E c \in Center, t \in Task : NotScheduled(c, t)
  \/ InTemp /\ \E c \in Center, t \in Task : AnswerLost(c, t)
  \/ InTemp /\ \E c \in Center, t \in Task : NobodyThere(c, t)
  \/ InTemp /\ \E c \in Center, t \in Task : LogExpired(c, t)
  \/ InTemp /\ \E c \in Center, t \in Task, f \in {"sent", "failed"} :
       Dispatch(c, t, f)
  \/ InTemp /\ \E c \in Center, t \in Task, done \in BOOLEAN :
       MarkExpired(c, t, done)

DeletionSteps ==
  \/ InDeletion /\ \E u \in User, s \in Seen : CreateOrg(u, s)
  \/ InDeletion /\ \E u \in User, s \in Seen : CreateProject(u, s)
  \/ InDeletion /\ \E c \in NextCall, u \in User, thing \in Thing, s \in Seen :
       Store(c, u, thing, s)
  \/ InDeletion /\ \E c \in Call : Stores(c)
  \/ InDeletion /\ \E u \in User, thing \in Thing, s \in Seen :
       DropThing(u, thing, s)
  \/ InDeletion /\ \E u \in User, s \in Seen : DropWorkflowTask(u, s)
  \/ InDeletion /\ \E c \in NextCall, u \in User, s \in Seen :
       DeleteOne(c, u, s)
  \/ InDeletion /\ \E c \in NextCall, u \in User, s \in Seen :
       DeleteOrg(c, u, s)
  \/ InDeletion /\ \E c \in Call : DeleteRows(c)
  \/ InDeletion /\ \E c \in Call, s \in Seen : CountWorkflowTasks(c, s)
  \/ InDeletion /\ \E c \in Call : ListTasks(c)
  \/ InDeletion /\ \E c \in Call : ClearTasks(c)
  \/ InDeletion /\ \E c \in Call : CommitDeletion(c)
  \/ InDeletion /\ \E c \in Call : DeletionFails(c)
  \/ InDeletion /\ LeakEnds

MembersSteps ==
  \/ InMembers /\ \E u \in User, s \in Seen :
       u \in Super /\ CreateProject(u, s)
  \/ InMembers /\ \E u \in User, who \in User, s \in Seen :
       db.accounts = User /\ DeleteUser(u, who, s)
  \/ InMembers /\ \E c \in NextCall, u \in User, who \in User, role \in Role,
                     s \in Seen : OneDouble(who) /\ AddUser(c, u, who, role, s)
  \/ InMembers /\ \E c \in NextCall, u \in User \ Super, who \in User :
       RemoveUser(c, u, who, db)
  \/ InMembers /\ \E c \in Call, s \in Seen : CreateProjectRelevance(c, s)
  \/ InMembers /\ \E c \in Call : DeleteProjectRelevance(c)

EditSteps ==
  \/ InEdit /\ \E j \in NextJob, n \in Office : CreateWorkflow(j, n)
  \/ InEdit /\ \E j \in NextJob, n \in Office, s \in Replica :
       Beside /\ UpdateWorkflow(j, n, s)
  \/ InEdit /\ \E j \in NextJob, n \in Office, s \in Replica :
       DeleteWorkflow(j, n, s)
  \/ InEdit /\ \E j \in NextJob, n \in Office, s \in Replica : EditPlan(j, n, s)
  \/ InEdit /\ \E j \in NextJob, n \in Office, s \in Replica :
       Beside /\ Refresh(j, n, s)
  \/ InEdit /\ \E j \in NextJob, n \in Office : Beside /\ Schedule(j, n)
  \/ InEdit /\ \E j \in Job, s \in Replica : ReadLatest(j, s)
  \/ InEdit /\ \E j \in Job, s \in Replica : ReadRows(j, s)
  \/ InEdit /\ \E j \in Job, edges \in List, s \in Replica,
                  time \in 1..MaxSeconds : WritePlan(j, edges, s, time)
  \/ InEdit /\ \E j \in Job : CommitPlan(j)
  \/ InEdit /\ \E j \in Job : CommitWorkflow(j)
  \/ InEdit /\ \E j \in Job : DelPlan(j)
  \/ InEdit /\ \E j \in Job : StopFails(j)
  \/ InEdit /\ \E j \in Job : JobFails(j)
  \/ InEdit /\ OrphansEnd

FlowSteps ==
  \/ InFlow /\ \E r \in Request, p \in Person, who \in Person :
       AskToAdd(r, p, who)
  \/ InFlow /\ \E r \in Request, p \in Person, who \in Person :
       AskToRemove(r, p, who)
  \/ InFlow /\ \E r \in Request : InsertMember(r)
  \/ InFlow /\ \E r \in Request : DeleteMember(r)
  \/ InFlow /\ \E r \in Request : RequestFails(r)
  \/ InFlow /\ \E r \in Request, view \in FlowView : CheckMember(r, view)
  \/ InFlow /\ \E p \in Person : DeleteFlow(p)

LogSteps ==
  \/ InLog /\ NewDay
  \/ InLog /\ \E d \in 0..MaxDay : InsertLog(d)
  \/ InLog /\ \E c \in NextSweeper : BeginSweep(c)
  \/ InLog /\ \E c \in Sweeper : EnsurePartition(c)
  \/ InLog /\ \E c \in Sweeper : EnsureFails(c)
  \/ InLog /\ \E c \in Sweeper : SweepDies(c)
  \/ InLog /\ \E c \in Sweeper, b \in BOOLEAN :
       AutoCreateTaskLogPartition(c, b)
  \/ InLog /\ \E c \in Sweeper, b \in BOOLEAN : CleanOldPartitions(c, b)

HookSteps ==
  \/ InHookApi /\ \E t \in Type : DeleteHook(t)
  \/ InHookApi /\ \E t \in Type, rows \in HookView : WantHook(t, rows)
  \/ InHookApi /\ \E t \in Type, u \in NextUrl : InsertHook(t, u)
  \/ InHooks /\ \E r \in Report, b \in BOOLEAN : Finished(r, b)
  \/ InHooks /\ \E r \in Report, rows \in HookView : Load(r, rows)
  \/ InHooks /\ \E r \in Report : Cut(r)
  \/ InHooks /\ \E r \in Report : Skip(r)
  \/ InHooks /\ \E r \in Report, b \in BOOLEAN : Post(r, b)

Next ==
  \/ PlanSteps \/ RegSteps \/ ReplySteps \/ DoctorSteps \/ TempSteps
  \/ MembersSteps \/ DeletionSteps \/ EditSteps \/ FlowSteps \/ LogSteps
  \/ HookSteps

(* The fairness of AgentRegister, the only module with a liveness property.*)
Fairness ==
  /\ \A t \in Thread :
       /\ WF_vars(InReg /\ RegThread(t))
       /\ WF_vars(\E s \in Stream : InReg /\ OpenStream(t, s))
  /\ \A s \in Stream :
       /\ WF_vars(InReg /\ RegLoop(s)) /\ WF_vars(InReg /\ Wake(s))
       /\ WF_vars(InReg /\ Return(s))
       /\ WF_vars(InReg /\ PushTimeout(s))
       /\ WF_vars(InReg /\ SnapshotTimeout(s))
       /\ WF_vars(\E k \in {"none", "load"} : InReg /\ Accept(s, k))

Spec == Init /\ [][Next]_vars /\ Fairness

-----------------------------------------------------------------------------
(* Every variable of every service keeps its type.                         *)
TypeOK ==
  /\ PlanTypeOK /\ RegTypeOK /\ ReplyTypeOK /\ DoctorTypeOK /\ TempTypeOK
  /\ ProjectsTypeOK /\ EditTypeOK /\ MemberTypeOK /\ LogTypeOK /\ HookTypeOK

(* ComesBack of AgentRegister, for its part of the behaviours.             *)
AgentComesBack == <>[](part # "register" \/ failed \/ closed
                  \/ (cur # 0 /\ receiving = cur /\ chan[cur] = "up"))
=============================================================================
