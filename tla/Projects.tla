------------------------------ MODULE Projects ------------------------------
(***************************************************************************)
(* A project from its creation to its deletion: its members and their      *)
(* roles, the organisation it belongs to, and what is stored for it (cron  *)
(* tasks in etcd, webhooks and workflow tasks in MySQL).                   *)
(*                                                                         *)
(* Every API call first reads what it needs to decide, from a replica that *)
(* may be behind, and acts later (app/app.go, app/org.go and the           *)
(* controllers).  Other calls pass in between.                             *)
(***************************************************************************)
EXTENDS Naturals, Sequences, FiniteSets

CONSTANTS User,         \* the accounts there are at the beginning
          Super,        \* those with the system permission "admin"
          Role,         \* roles that AddUser is asked for
          Call,         \* API calls that may be under way at once
          MaxRows       \* bound: rows of a user in gc_project_relevance

ASSUME RolesAreKnown == Role \subseteq {"user", "manager", "admin"}

VARIABLES
  db,         \* MySQL: the project, its members, its organisation's members
  previous,   \* MySQL before the last commit: what a late replica has
  etcdTasks,  \* etcd holds tasks of the project
  heldBy,     \* the transaction that has deleted the project's row, if any
  call,       \* per call: what it does
  pardoned,   \* history: a chief was removed by a call that saw old rows,
              \* by an administrator, or lost the account
  late        \* history: what was stored when the project was being deleted

projectVars == <<db, previous, etcdTasks, heldBy, call, pardoned, late>>

Level == [r \in {"none", "user", "manager", "admin"} |->
            CASE r = "none" -> 0 [] r = "user" -> 1
              [] r = "manager" -> 2 [] r = "admin" -> 3]

(* rbac.go: a role has the permissions of those below it.                  *)
Needed == [p \in {"view", "edit", "delete", "all"} |->
             CASE p = "view" -> 1 [] p \in {"edit", "delete"} -> 2
               [] p = "all" -> 3]
IsGranted(role, permission) == Level[role] >= Needed[permission]

Thing == {"task", "hook", "workflow task"}
Free == [op |-> "none", step |-> "none", who |-> "nobody", role |-> "none",
         what |-> "none", fresh |-> FALSE]

(* The members' rows are, for each user, the roles in the order of the ids.*)
Database == [project : {"none", "live", "gone"},
             rows : [User -> Seq(DOMAIN Level \ {"none"})],
             org : [User -> {"none", "user", "admin"}],
             accounts : SUBSET User, hook : BOOLEAN, flow : BOOLEAN]

ProjectsTypeOK ==
  /\ db \in Database /\ previous \in Database
  /\ etcdTasks \in BOOLEAN
  /\ heldBy \subseteq Call \union {"leaked"}
  /\ call \in [Call ->
       [op : {"none", "create", "add", "remove", "store", "drop", "delete",
              "delete org"},
        step : {"none", "act", "rows", "count", "list", "clear", "commit"},
        who : User \union {"nobody"}, role : DOMAIN Level,
        what : Thing \union {"none"}, fresh : BOOLEAN]]
  /\ pardoned \in BOOLEAN /\ late \subseteq Thing

ProjectsInit ==
  /\ db = [project |-> "none", rows |-> [u \in User |-> <<>>],
           org |-> [u \in User |-> "none"], accounts |-> User,
           hook |-> FALSE, flow |-> FALSE]
  /\ previous = db
  /\ etcdTasks = FALSE /\ heldBy = {}
  /\ call = [c \in Call |-> Free]
  /\ pardoned = FALSE /\ late = {}

-----------------------------------------------------------------------------
(* What a call reads.                                                      *)

(* CheckUserIsInProject takes the first row it finds.                      *)
RoleIn(s, u) == IF s.rows[u] = <<>> THEN "none" ELSE Head(s.rows[u])

IsAdmin(s, u) == u \in s.accounts /\ u \in Super

CheckPermissions(s, u, permission) ==
  /\ u \in s.accounts
  /\ IsAdmin(s, u) \/ IsGranted(RoleIn(s, u), permission)

(* CheckUserPermissionAndGreaterOrEqualAnotherRole, ...AnotherUser.        *)
GreaterOrEqual(s, u, permission, role) ==
  /\ CheckPermissions(s, u, permission)
  /\ IsAdmin(s, u) \/ (role # "none" /\ Level[RoleIn(s, u)] >= Level[role])

Stored == (IF etcdTasks THEN {"task"} ELSE {})
          \union (IF db.hook THEN {"hook"} ELSE {})
          \union (IF db.flow THEN {"workflow task"} ELSE {})

Deletes == {"delete", "delete org"}
Deleting == \E c \in Call : call[c].op \in Deletes

(* The replica a call reads has the last commit, or not yet.               *)
Seen == {db, previous}

(* The checks of a call are over and it will do op.                        *)
Starts(c, new) ==
  /\ call[c].op = "none"
  /\ call' = [call EXCEPT ![c] = new]
  /\ UNCHANGED <<db, previous, etcdTasks, heldBy, pardoned, late>>

Ends(c) == call' = [call EXCEPT ![c] = Free]

Commits(new) == db' = new /\ previous' = db

-----------------------------------------------------------------------------
(* Organisation, project, members.                                         *)

CreateOrg(u, s) ==
  /\ IsAdmin(s, u) /\ \A v \in User : s.org[v] = "none" /\ db.org[v] = "none"
  /\ Commits([db EXCEPT !.org[u] = "admin"])
  /\ UNCHANGED <<etcdTasks, heldBy, call, pardoned, late>>

MayCreate(s, u) == u \in s.accounts /\ (IsAdmin(s, u) \/ s.org[u] # "none")

(* The project, its chief's row and, at need, the chief's row in the       *)
(* organisation are one transaction.                                       *)
CreateProject(u, s) ==
  /\ db.project = "none"
  /\ MayCreate(s, u)
  /\ Commits([db EXCEPT !.project = "live",
                        !.rows[u] = <<"admin">>,
                        !.org[u] = IF @ = "none" THEN "user" ELSE @])
  /\ pardoned' = (u \notin db.accounts)
  /\ UNCHANGED <<etcdTasks, heldBy, call, late>>

Adds == {c \in Call : call[c].op = "add"}

AddUser(c, u, who, role, s) ==
  /\ Len(db.rows[who]) + Cardinality(Adds) < MaxRows
  /\ GreaterOrEqual(s, u, "edit", role)
  /\ who \in s.accounts /\ RoleIn(s, who) = "none"
  /\ s.project # "none"
  /\ Starts(c, [Free EXCEPT !.op = "add", !.step = "act",
                            !.who = who, !.role = role])

(* CreateProjectRelevance in a transaction of its own: it looks for the    *)
(* member again, but not at the permissions.                               *)
CreateProjectRelevance(c, s) ==
  /\ call[c].op = "add"
  /\ Ends(c)
  /\ LET who == call[c].who IN
     IF RoleIn(s, who) = "none" /\ db.project = "live"
       THEN Commits([db EXCEPT
              !.rows[who] = Append(@, call[c].role),
              !.org[who] = IF @ = "none" THEN "user" ELSE @])
       ELSE UNCHANGED <<db, previous>>
  /\ UNCHANGED <<etcdTasks, heldBy, pardoned, late>>

\* Faulty variant of RemoveUser: members may leave by themselves.
RemoveAnyone(c, u, who, s) ==
  /\ GreaterOrEqual(s, u, "edit", RoleIn(s, who))
  /\ Starts(c, [Free EXCEPT !.op = "remove", !.step = "act", !.who = who,
                            !.fresh = (s = db /\ u \notin Super)])

RemoveUser(c, u, who, s) ==
  /\ u # who
  /\ GreaterOrEqual(s, u, "edit", RoleIn(s, who))
  /\ Starts(c, [Free EXCEPT !.op = "remove", !.step = "act", !.who = who,
                            !.fresh = (s = db /\ u \notin Super)])

(* A row or an account is deleted: what other calls have checked is old.   *)
Outdated(calls) == [d \in Call |-> [calls[d] EXCEPT !.fresh = FALSE]]

DeleteProjectRelevance(c) ==
  /\ call[c].op = "remove"
  /\ call' = Outdated([call EXCEPT ![c] = Free])
  /\ Commits([db EXCEPT !.rows[call[c].who] = <<>>])
  /\ pardoned' = (pardoned \/ ~call[c].fresh)
  /\ UNCHANGED <<etcdTasks, heldBy, late>>

DeleteUser(u, who, s) ==
  /\ IsAdmin(s, u) /\ who \in db.accounts
  /\ Commits([db EXCEPT !.accounts = @ \ {who}])
  /\ call' = Outdated(call)
  /\ pardoned' = (pardoned \/ RoleIn(db, who) = "admin")
  /\ UNCHANGED <<etcdTasks, heldBy, late>>

-----------------------------------------------------------------------------
(* What is stored for a project.                                           *)

Permission(thing) == IF thing = "workflow task" THEN "view" ELSE "edit"
Put(thing, there) ==
  /\ etcdTasks' = IF thing = "task" THEN there ELSE etcdTasks
  /\ CASE thing = "task" -> UNCHANGED <<db, previous>>
       [] thing = "hook" -> Commits([db EXCEPT !.hook = there])
       [] thing = "workflow task" -> Commits([db EXCEPT !.flow = there])

(* SaveTask, CreateWebHook, CreateWorkflowTask after their checks, none of *)
(* which is whether the project exists.                                    *)
Store(c, u, thing, s) ==
  /\ CheckPermissions(s, u, Permission(thing))
  /\ thing = "hook" => ~s.hook
  /\ Starts(c, [Free EXCEPT !.op = "store", !.step = "act",
                            !.what = thing])

(* An insert waits for the transaction that deleted the hooks.             *)
Stores(c) ==
  /\ call[c].op = "store"
  /\ call[c].what = "hook" => heldBy = {}
  /\ Ends(c)
  /\ Put(call[c].what, TRUE)
  /\ late' = IF db.project = "gone" \/ Deleting
               THEN late \union {call[c].what} ELSE late
  /\ UNCHANGED <<heldBy, pardoned>>

(* DeleteTask of a cron task, DeleteWebHook.                               *)
DropThing(u, thing, s) ==
  /\ thing # "workflow task" /\ thing \in Stored
  /\ CheckPermissions(s, u, Permission(thing))
  /\ thing = "hook" => heldBy = {}
  /\ Put(thing, FALSE)
  /\ UNCHANGED <<heldBy, call, pardoned, late>>

(* DeleteWorkflowTask of a task to which no plan refers.                   *)
DropWorkflowTask(u, s) ==
  /\ db.flow
  /\ CheckPermissions(s, u, "view")
  /\ Put("workflow task", FALSE)
  /\ UNCHANGED <<heldBy, call, pardoned, late>>

-----------------------------------------------------------------------------
(* Deletion: DeleteOne of a project, DeleteOrg of all of an organisation.  *)

DeleteOne(c, u, s) ==
  /\ CheckPermissions(s, u, "delete") /\ s.project # "none"
  /\ Starts(c, [Free EXCEPT !.op = "delete", !.step = "rows"])

DeleteOrg(c, u, s) ==
  /\ IsGranted(s.org[u], "all") /\ s.project = "live"
  /\ Starts(c, [Free EXCEPT !.op = "delete org", !.step = "rows"])

Goes(c, from, to) ==
  /\ call[c].op \in Deletes /\ call[c].step = from
  /\ call' = [call EXCEPT ![c].step = to]

(* The project's row, its logs and its hooks, in the transaction.          *)
DeleteRows(c) ==
  /\ Goes(c, "rows", "count")
  /\ heldBy = {} /\ heldBy' = {c}
  /\ UNCHANGED <<db, previous, etcdTasks, pardoned, late>>

(* DeleteProjectAllTasks: no workflow task may be left, by the replica.    *)
CountWorkflowTasks(c, s) ==
  /\ Goes(c, "count", "list")
  /\ ~s.flow
  /\ late' = IF db.flow THEN late \union {"workflow task"} ELSE late
  /\ UNCHANGED <<db, previous, etcdTasks, heldBy, pardoned>>

ListTasks(c) ==
  /\ Goes(c, "list", IF etcdTasks THEN "clear" ELSE "commit")
  /\ UNCHANGED <<db, previous, etcdTasks, heldBy, pardoned, late>>

\* Faulty variant of ClearTasks: an error of the dispatch is only logged and
\* the tasks stay in etcd.
ClearTasksLogsError(c) ==
  /\ Goes(c, "clear", "commit")
  /\ etcdTasks' \in {FALSE, etcdTasks}
  /\ late' = late \ {"task"}
  /\ UNCHANGED <<db, previous, heldBy, pardoned>>

(* The agents are told and etcd's prefix is deleted, which no transaction  *)
(* can undo.                                                               *)
ClearTasks(c) ==
  /\ Goes(c, "clear", "commit")
  /\ etcdTasks' = FALSE
  /\ late' = late \ {"task"}
  /\ UNCHANGED <<db, previous, heldBy, pardoned>>

CommitDeletion(c) ==
  /\ call[c].op \in Deletes /\ call[c].step = "commit"
  /\ Ends(c) /\ heldBy' = heldBy \ {c}
  /\ Commits([db EXCEPT !.project = "gone", !.hook = FALSE])
  /\ late' = late \ {"hook"}
  /\ UNCHANGED <<etcdTasks, pardoned>>

(* A step fails: the lock is not had in time, a workflow task is there, an *)
(* agent does not answer, a store does not.  DeleteOne rolls back; DeleteOrg *)
(* shadows the error its deferred function looks at and leaves its         *)
(* transaction open, unless it is the commit that failed.                  *)
DeletionFails(c) ==
  /\ call[c].op \in Deletes
  /\ Ends(c)
  /\ heldBy' = IF c \notin heldBy THEN heldBy
                ELSE IF call[c].op = "delete" \/ call[c].step = "commit"
                       THEN {} ELSE {"leaked"}
  /\ UNCHANGED <<db, previous, etcdTasks, pardoned, late>>

(* The center with the open transaction ends.                              *)
LeakEnds ==
  /\ heldBy = {"leaked"} /\ heldBy' = {}
  /\ UNCHANGED <<db, previous, etcdTasks, call, pardoned, late>>

ProjectsNext ==
  \/ LeakEnds
  \/ \E u \in User, s \in Seen :
       \/ CreateOrg(u, s) \/ CreateProject(u, s)
       \/ \E who \in User : DeleteUser(u, who, s)
       \/ \E thing \in Thing : DropThing(u, thing, s)
       \/ DropWorkflowTask(u, s)
  \/ \E c \in Call, s \in Seen, u \in User :
       \/ DeleteOne(c, u, s) \/ DeleteOrg(c, u, s)
       \/ \E who \in User, role \in Role : AddUser(c, u, who, role, s)
       \/ \E who \in User : RemoveUser(c, u, who, s)
       \/ \E thing \in Thing : Store(c, u, thing, s)
  \/ \E c \in Call, s \in Seen :
       CreateProjectRelevance(c, s) \/ CountWorkflowTasks(c, s)
  \/ \E c \in Call :
       \/ DeleteProjectRelevance(c) \/ Stores(c) \/ DeleteRows(c)
       \/ ListTasks(c) \/ ClearTasks(c) \/ CommitDeletion(c)
       \/ DeletionFails(c)

ProjectsSpec == ProjectsInit /\ [][ProjectsNext]_projectVars

-----------------------------------------------------------------------------
(* A deleted project has no task in etcd, no hook and no workflow task but *)
(* those that were stored while it was being deleted or afterwards, which  *)
(* no check prevents, however often a deletion failed half-way before.     *)
GoneIsEmpty == db.project = "gone" => Stored \subseteq late

(* A project has a chief whose account exists, whatever members add and    *)
(* remove each other at the same time.  Excepted are removals by an        *)
(* administrator or by a call whose checks read rows that were deleted     *)
(* before it acted, and the deletion of a chief's account.                 *)
ChiefRemains ==
  db.project = "live" /\ ~pardoned
    => \E u \in db.accounts : RoleIn(db, u) = "admin"
=============================================================================
