--------------------------- MODULE ServicesProofs ---------------------------
(***************************************************************************)
(* Proofs about MCServices, which TLC explores: whatever its bounds and    *)
(* choices of a representative leave out, each of its behaviours is a      *)
(* behaviour of every service, so that what is proved of the services for  *)
(* all their steps holds there too.                                        *)
(***************************************************************************)
EXTENDS MCServices, StreamProofs, JobProofs, DefinitionProofs

-----------------------------------------------------------------------------
\* Its initial states are initial states of every service.
LEMMA AllBegin ==
  Init => /\ PlanInit /\ RegInit /\ ReplyInit /\ DoctorInit /\ TempInit
          /\ ProjectsInit /\ EditInit /\ MemberInit /\ LogInit /\ HookInit
BY DEF Init

\* A representative of a set is one of its members.
LEMMA OneOfThem == \A S : \A s \in OneOf(S) : s \in S
BY DEF OneOf

\* A step of the plan's part is one of PlanTable.
LEMMA PlanMoves == PlanSteps => PlanNext /\ InPlan
<1>1. \A e \in NextEditor : e \in Editor
  BY OneOfThem DEF NextEditor
<1>. QED BY <1>1, Zenon DEF PlanSteps, PlanNext, Pingless

\* A step of the registration's part is one of AgentRegister.
LEMMA RegMoves == RegSteps => RegNext /\ InReg
BY Zenon DEF RegSteps, RegNext, RegThread, RegLoop

\* A step of the reply's part is one of EventReply.
LEMMA ReplyMoves == ReplySteps => ReplyNext /\ InReply
BY Zenon DEF ReplySteps, ReplyNext

\* A step of the doctor's part is one of RunDoctor.
LEMMA DoctorMoves == DoctorSteps => DoctorNext /\ InDoctor
<1>1. \A r \in NextRun : r \in Run
  BY OneOfThem DEF NextRun
<1>. QED BY <1>1, Zenon DEF DoctorSteps, DoctorNext

\* A step of the temporary tasks' part is one of TempTask.
LEMMA TempMoves == TempSteps => TempNext /\ InTemp
<1>1. \A c \in NextLeader : c \in Center
  BY OneOfThem DEF NextLeader
<1>. QED BY <1>1, Zenon DEF TempSteps, TempNext

\* The members and the deletion of a project both are of Projects.
LEMMA ProjectMoves ==
  MembersSteps \/ DeletionSteps => ProjectsNext /\ InProject
<1>1. \A c \in NextCall : c \in Call
  BY OneOfThem DEF NextCall
<1>2. db \in Seen
  BY DEF Seen
<1>3. MembersSteps => ProjectsNext /\ InProject
  BY <1>1, <1>2, Zenon DEF MembersSteps, ProjectsNext, InMembers
<1>4. DeletionSteps => ProjectsNext /\ InProject
  BY <1>1, <1>2, Zenon DEF DeletionSteps, ProjectsNext, InDeletion
<1>. QED BY <1>3, <1>4

\* A step of the workflow definitions' part is one of WorkflowEdit.
LEMMA EditMoves == EditSteps => EditNext /\ InEdit
<1>1. \A j \in NextJob : j \in Job
  BY OneOfThem DEF NextJob
<1>. QED BY <1>1, Zenon DEF EditSteps, EditNext

\* A step of the workflow members' part is one of WorkflowMembers.
LEMMA FlowMoves == FlowSteps => MemberNext /\ InFlow
BY Zenon DEF FlowSteps, MemberNext

\* A step of the logs' part is one of LogTable.
LEMMA LogMoves == LogSteps => LogNext /\ InLog
<1>1. \A c \in NextSweeper : c \in Sweeper
  BY OneOfThem DEF NextSweeper
<1>. QED BY <1>1, Zenon DEF LogSteps, LogNext

\* A step of the webhooks' part is one of WebHooks.
LEMMA HookMoves == HookSteps => HookNext /\ InHooks
<1>1. \A u \in NextUrl : u \in Url
  BY OneOfThem DEF NextUrl
<1>. QED BY <1>1, Zenon DEF HookSteps, HookNext, InHookApi

-----------------------------------------------------------------------------
(* What a step of the whole is for every service.                          *)
EachMoves ==
  /\ [PlanNext]_planVars /\ [RegNext]_regVars /\ [ReplyNext]_replyVars
  /\ [DoctorNext]_doctorVars /\ [TempNext]_tempVars
  /\ [ProjectsNext]_projectVars /\ [EditNext]_editVars
  /\ [MemberNext]_memberVars /\ [LogNext]_logVars /\ [HookNext]_hookVars

\* A step of the whole is a step or a stutter of every service: its part is
\* that of one service, and the variables of the others stay.
LEMMA AllMove == [Next]_vars => EachMoves
<1>. SUFFICES ASSUME [Next]_vars PROVE EachMoves
  OBVIOUS
<1>1. CASE UNCHANGED vars
  BY <1>1 DEF vars, smallVars, EachMoves
<1>2. CASE PlanSteps
  BY <1>2, PlanMoves DEF InPlan, smallVars, EachMoves
<1>3. CASE RegSteps
  BY <1>3, RegMoves DEF InReg, smallVars, EachMoves
<1>4. CASE ReplySteps
  BY <1>4, ReplyMoves DEF InReply, InSmall, smallVars, EachMoves
<1>5. CASE DoctorSteps
  BY <1>5, DoctorMoves DEF InDoctor, smallVars, EachMoves
<1>6. CASE TempSteps
  BY <1>6, TempMoves DEF InTemp, smallVars, EachMoves
<1>7. CASE MembersSteps \/ DeletionSteps
  BY <1>7, ProjectMoves DEF InProject, smallVars, EachMoves
<1>8. CASE EditSteps
  BY <1>8, EditMoves DEF InEdit, smallVars, EachMoves
<1>9. CASE FlowSteps
  BY <1>9, FlowMoves DEF InFlow, InSmall, smallVars, EachMoves
<1>10. CASE LogSteps
  BY <1>10, LogMoves DEF InLog, InSmall, smallVars, EachMoves
<1>11. CASE HookSteps
  BY <1>11, HookMoves DEF InHooks, InSmall, smallVars, EachMoves
<1>. QED
  BY <1>1, <1>2, <1>3, <1>4, <1>5, <1>6, <1>7, <1>8, <1>9, <1>10, <1>11 DEF Next

-----------------------------------------------------------------------------
\* What TLC explores refines every service: its bounds and the choice of the
\* next process to begin only leave behaviours out.  AgentRegister takes part
\* with its steps, not with its fairness.
THEOREM ServicesImplement ==
  Spec => /\ PlanSpec /\ RegSafety /\ ReplySpec /\ DoctorSpec /\ TempSpec
          /\ ProjectsSpec /\ EditSpec /\ MemberSpec /\ LogSpec /\ HookSpec
<1>. QED
  BY AllBegin, AllMove, PTL
     DEF Spec, EachMoves, PlanSpec, RegSafety, ReplySpec, DoctorSpec, TempSpec,
         ProjectsSpec, EditSpec, MemberSpec, LogSpec, HookSpec

\* Every variable of every service keeps its type, whichever of them runs.
THEOREM ServicesTypeCorrect == Spec => []TypeOK
<1>. QED
  BY ServicesImplement, PlanTypeCorrect, RegTypedUnfair, ReplyTypeCorrect,
     DoctorTypeCorrect, TempTypeCorrect, ProjectsTypeCorrect, EditTypeCorrect,
     MemberTypeCorrect, LogTypeCorrect, HookTypeCorrect, PTL DEF TypeOK

\* No agent's plan table is stale once its events are in, no stream is open
\* that nobody listens to, no answer panics, and the streams of an agent are
\* one session.
THEOREM StreamsAreSafe ==
  Spec => [](InSync /\ NeverDeaf /\ NoPanic) /\ OneSession
<1>. QED
  BY ServicesImplement, InSyncAlways, NeverDeafUnfair, NobodyPanics,
     OneSessionUnfair, PTL

\* A run judged offline is over, a temporary task has one fate, and what was
\* stored of a result or a log stays until its time.
THEOREM JobsAreSafe ==
  Spec => [](OfflineIsOver /\ OneFate) /\ ResultKept /\ RowsKept
<1>. QED
  BY ServicesImplement, OfflineIsOverAlways, OneFateAlways, ResultKeptAlways,
     RowsKeptAlways, PTL

\* Every webhook of a report is told, a deleted project leaves nothing, a
\* project keeps an administrator, a workflow's tasks wait for tasks it has,
\* and a removed member is out.
THEOREM DefinitionsAreSafe ==
  Spec => [](/\ EveryHookTold /\ GoneIsEmpty /\ ChiefRemains /\ DepsListed
             /\ OutIsOut)
<1>. QED
  BY ServicesImplement, EveryHookToldAlways, GoneLeavesNothing,
     ChiefRemainsAlways, NoTaskWaitsForNone, RemovedIsOut, PTL
=============================================================================
