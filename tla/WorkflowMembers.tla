--------------------------- MODULE WorkflowMembers ---------------------------
(***************************************************************************)
(* Who may edit a workflow: the rows of gc_user_workflow, added and        *)
(* removed through the API and deleted with the workflow (app/workflow.go).*)
(* Reads go to a replica.  Both calls take the lock of the workflow and    *)
(* the user, which has no owner and therefore refuses nobody (TaskLock).   *)
(***************************************************************************)
EXTENDS Naturals

CONSTANTS Person,       \* the users
          First,        \* the user with the id 1, who may do everything
          Request,      \* API calls that may be under way at once
          MaxCopies     \* bound: rows for one user

ASSUME MemberAssumption == First \in Person /\ MaxCopies \in Nat \ {0}

VARIABLES
  flow,       \* MySQL: whether the workflow is there, and its rows
  oldFlow,    \* MySQL before the last commit: what a late replica has
  request,    \* per call: how far it is
  out         \* history: who was removed, or lost the workflow, and has not
              \* been inserted since

memberVars == <<flow, oldFlow, request, out>>

NoRequest == [op |-> "none", step |-> "none", who |-> First]

MemberTypeOK ==
  /\ {flow, oldFlow} \subseteq
       [live : BOOLEAN, copies : [Person -> 0..MaxCopies]]
  /\ request \in [Request -> [op : {"none", "add", "remove"},
                              step : {"none", "check", "act"},
                              who : Person]]
  /\ out \subseteq Person

(* The user who created the workflow has a row.                            *)
MemberInit ==
  /\ \E p \in Person :
       flow = [live |-> TRUE,
               copies |-> [q \in Person |-> IF q = p THEN 1 ELSE 0]]
  /\ oldFlow = flow
  /\ request = [r \in Request |-> NoRequest]
  /\ out = {}

FlowView == {flow, oldFlow}
Related(view, p) == view.copies[p] > 0

(* checkUserWorkflowPermission, also before a workflow is edited, started, *)
(* killed or deleted.                                                      *)
MayEdit(view, p) == p = First \/ Related(view, p)

-----------------------------------------------------------------------------
(* The controllers: two reads, of replicas that may differ.                *)

Asks(r, op, who) ==
  /\ request[r] = NoRequest
  /\ request' = [request EXCEPT
       ![r] = [op |-> op, step |-> "check", who |-> who]]
  /\ UNCHANGED <<flow, oldFlow, out>>

AskToAdd(r, p, who) ==
  /\ \E view \in FlowView : MayEdit(view, p)
  /\ \E view \in FlowView : view.live
  /\ Asks(r, "add", who)

(* Nobody removes himself, nor anyone the first user.                      *)
AskToRemove(r, p, who) ==
  /\ who # p /\ who # First
  /\ \E view \in FlowView : MayEdit(view, p)
  /\ \E view \in FlowView : view.live
  /\ Asks(r, "remove", who)

(* With the lock: one who is there is not added, one who is not there not  *)
(* removed.                                                                *)
CheckMember(r, view) ==
  /\ request[r].step = "check" /\ view \in FlowView
  /\ request' = [request EXCEPT
       ![r] = IF Related(view, @.who) = (@.op = "remove")
                THEN [@ EXCEPT !.step = "act"] ELSE NoRequest]
  /\ UNCHANGED <<flow, oldFlow, out>>

(* A row is inserted, whatever became of the workflow meanwhile.           *)
InsertMember(r) ==
  LET who == request[r].who
  IN  /\ request[r].step = "act" /\ request[r].op = "add"
      /\ flow.copies[who] < MaxCopies
      /\ flow' = [flow EXCEPT !.copies[who] = @ + 1]
      /\ oldFlow' = flow
      /\ out' = out \ {who}
      /\ request' = [request EXCEPT ![r] = NoRequest]

\* Faulty variant of Without: the row that was found is deleted.
WithoutOne(copies, who) == [copies EXCEPT ![who] = IF @ = 0 THEN 0 ELSE @ - 1]

(* DeleteUserWorkflowRelevance: every row of the user.                     *)
Without(copies, who) == [copies EXCEPT ![who] = 0]

DeleteMember(r) ==
  LET who == request[r].who
  IN  /\ request[r].step = "act" /\ request[r].op = "remove"
      /\ flow' = [flow EXCEPT !.copies = Without(@, who)]
      /\ oldFlow' = flow
      /\ out' = out \union {who}
      /\ request' = [request EXCEPT ![r] = NoRequest]

(* The statement fails, or the center dies.                                *)
RequestFails(r) ==
  /\ request[r] # NoRequest
  /\ request' = [request EXCEPT ![r] = NoRequest]
  /\ UNCHANGED <<flow, oldFlow, out>>

(* DeleteWorkflow commits (its steps are those of WorkflowEdit).           *)
DeleteFlow(p) ==
  /\ flow.live /\ \E view \in FlowView : MayEdit(view, p)
  /\ flow' = [live |-> FALSE, copies |-> [q \in Person |-> 0]]
  /\ oldFlow' = flow
  /\ out' = Person
  /\ UNCHANGED request

MemberNext ==
  \/ \E r \in Request, p \in Person, who \in Person :
       AskToAdd(r, p, who) \/ AskToRemove(r, p, who)
  \/ \E r \in Request : InsertMember(r) \/ DeleteMember(r) \/ RequestFails(r)
  \/ \E r \in Request, view \in FlowView : CheckMember(r, view)
  \/ \E p \in Person : DeleteFlow(p)

MemberSpec == MemberInit /\ [][MemberNext]_memberVars

-----------------------------------------------------------------------------
(* A user who was removed, or whose workflow was deleted, may edit it no   *)
(* more until an addition inserts him again, also when two additions at    *)
(* once, which the lock does not keep apart, had given him two rows.       *)
OutIsOut == \A p \in out : ~Related(flow, p)
=============================================================================
