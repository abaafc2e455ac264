-------------------------- MODULE DefinitionProofs --------------------------
(***************************************************************************)
(* Proofs about what users define: projects and their roles (Projects), the *)
(* members and the lists of workflows (WorkflowMembers, WorkflowEdit), for *)
(* any number of users, calls, tasks, rows and centers.                    *)
(***************************************************************************)
EXTENDS Projects, WorkflowEdit, WorkflowMembers, WellFoundedInduction, TLAPS

-----------------------------------------------------------------------------
(***************************************************************************)
(* Projects.  A deleted project leaves nothing behind (GoneIsEmpty) and a  *)
(* project has a chief (ChiefRemains).  The strengthening of the first says *)
(* what a deletion under way already knows: no workflow task since it has  *)
(* counted them, no cron task since it has cleared them, but for what was  *)
(* stored meanwhile.                                                       *)
(***************************************************************************)
\* What a call may be; one that stores something knows what, and one that
\* adds a member whom and with which role.
AnyCall ==
  [op : {"none", "create", "add", "remove", "store", "drop", "delete",
         "delete org"},
   step : {"none", "act", "rows", "count", "list", "clear", "commit"},
   who : User \union {"nobody"}, role : DOMAIN Level,
   what : Thing \union {"none"}, fresh : BOOLEAN]
CallRecord ==
  {r \in AnyCall : /\ r.op = "store" => r.what \in Thing
                   /\ r.op = "add" => r.who \in User /\ r.role # "none"}

Doing == call \in [Call -> CallRecord]

\* What is needed of the type of db: its fields.
Shaped == db = [project |-> db.project, rows |-> db.rows, org |-> db.org,
                accounts |-> db.accounts, hook |-> db.hook, flow |-> db.flow]

\* How far the deletion is that the call carries out.
At(c) == IF call[c].op \in Deletes THEN call[c].step ELSE "none"

Counted == \A c \in Call : At(c) \in {"list", "clear", "commit"} /\ db.flow
                             => "workflow task" \in late
Cleared == \A c \in Call : At(c) = "commit" /\ etcdTasks => "task" \in late

Emptying == GoneIsEmpty /\ Counted /\ Cleared

-----------------------------------------------------------------------------

\* The roles RBAC knows.
LEMMA RoleLevels == DOMAIN Level = {"none", "user", "manager", "admin"}
BY DEF Level

\* A call that begins, and one that is over.
LEMMA FreeCall == Free \in CallRecord /\ Free.op \notin Deletes
BY RoleLevels DEF Free, CallRecord, AnyCall, Deletes

\* A step that stores, drops and finishes nothing.
LEMMA NothingStored ==
  ASSUME Emptying, UNCHANGED <<etcdTasks, late>>,
         db'.hook = db.hook, db'.flow = db.flow,
         db'.project = "gone" => db.project = "gone",
         \A c \in Call : At(c)' \in {At(c), "none", "rows", "count"}
  PROVE  Emptying'
<1>1. Stored' = Stored
  BY DEF Stored
<1>2. GoneIsEmpty'
  BY <1>1 DEF Emptying, GoneIsEmpty
<1>3. Counted'
  BY Zenon DEF Emptying, Counted
<1>4. Cleared'
  BY Zenon DEF Emptying, Cleared
<1>5. QED
  BY <1>2, <1>3, <1>4 DEF Emptying

\* One call changes, and how far it is with a deletion.
LEMMA OneCall ==
  ASSUME Doing, NEW c \in Call, NEW r \in CallRecord,
         call' = [call EXCEPT ![c] = r]
  PROVE  /\ Doing'
         /\ \A d \in Call : d # c => At(d)' = At(d)
         /\ r.op \notin Deletes => At(c)' = "none"
         /\ r.op \in Deletes => At(c)' = r.step
<1>1. \A d \in Call : call'[d] = IF d = c THEN r ELSE call[d]
  BY DEF Doing
<1>2. Doing'
  BY DEF Doing
<1>3. QED
  BY <1>1, <1>2 DEF At

\* A call that ends is at no step of a deletion; the others stay where they
\* are.
LEMMA CallEnds ==
  ASSUME Doing, NEW c \in Call, Ends(c)
  PROVE  Doing' /\ \A d \in Call : At(d)' \in {At(d), "none"}
BY FreeCall, OneCall DEF Ends

\* A call that begins keeps them; a deletion begins with the rows.
LEMMA CallStarts ==
  ASSUME Doing, Shaped, Emptying, NEW c \in Call, NEW r \in CallRecord,
         Starts(c, r), (r.op \in Deletes => r.step = "rows")
  PROVE  Doing' /\ Shaped' /\ Emptying'
<1>1. Doing' /\ \A d \in Call : At(d)' \in {At(d), "none", "rows"}
  BY OneCall, Zenon DEF Starts
<1>2. Shaped'
  BY DEF Starts, Shaped
<1>3. QED
  BY <1>1, <1>2, NothingStored DEF Starts

\* A call that goes on is the only one to take a step.
LEMMA CallGoesOn ==
  ASSUME Doing, NEW c \in Call, NEW from,
         NEW to \in {"count", "list", "clear", "commit"}, Goes(c, from, to)
  PROVE  /\ Doing' /\ At(c) = from /\ At(c)' = to
         /\ \A d \in Call : d # c => At(d)' = At(d)
<1> DEFINE r == call[c]
<1>0. /\ r \in AnyCall /\ (r.op = "store" => r.what \in Thing)
      /\ r.op = "add" => r.who \in User /\ r.role # "none"
  BY DEF Doing, CallRecord
<1> HIDE DEF r
<1>1. [r EXCEPT !.step = to] \in CallRecord
  <2>1. [r EXCEPT !.step = to] \in AnyCall
    BY <1>0 DEF AnyCall
  <2>2. /\ [r EXCEPT !.step = to].op = r.op
        /\ [r EXCEPT !.step = to].what = r.what
        /\ [r EXCEPT !.step = to].who = r.who
        /\ [r EXCEPT !.step = to].role = r.role
    BY <1>0 DEF AnyCall
  <2>3. QED
    BY <1>0, <2>1, <2>2 DEF CallRecord
<1>2. [r EXCEPT !.step = to].op = r.op
  BY <1>0 DEF AnyCall
<1>3. [r EXCEPT !.step = to].step = to
  BY <1>0 DEF AnyCall
<1> USE DEF r
<1>4. QED
  BY <1>1, <1>2, <1>3, OneCall, Zenon DEF Goes, At

\* A commit makes stale what the calls have read, not what they are about or
\* how far they are.
LEMMA Outdates ==
  ASSUME NEW calls \in [Call -> CallRecord]
  PROVE  /\ Outdated(calls) \in [Call -> CallRecord]
         /\ \A d \in Call : /\ Outdated(calls)[d].op = calls[d].op
                            /\ Outdated(calls)[d].step = calls[d].step
<1>1. ASSUME NEW r \in CallRecord
      PROVE  /\ [r EXCEPT !.fresh = FALSE] \in CallRecord
             /\ [r EXCEPT !.fresh = FALSE].op = r.op
             /\ [r EXCEPT !.fresh = FALSE].step = r.step
  <2>1. /\ r \in AnyCall /\ (r.op = "store" => r.what \in Thing)
        /\ r.op = "add" => r.who \in User /\ r.role # "none"
    BY DEF CallRecord
  <2>2. /\ [r EXCEPT !.fresh = FALSE].op = r.op
        /\ [r EXCEPT !.fresh = FALSE].step = r.step
        /\ [r EXCEPT !.fresh = FALSE].what = r.what
        /\ [r EXCEPT !.fresh = FALSE].who = r.who
        /\ [r EXCEPT !.fresh = FALSE].role = r.role
    BY <2>1 DEF AnyCall
  <2>3. [r EXCEPT !.fresh = FALSE] \in AnyCall
    BY <2>1 DEF AnyCall
  <2>4. QED
    BY <2>1, <2>2, <2>3 DEF CallRecord
<1>2. QED
  BY <1>1 DEF Outdated

-----------------------------------------------------------------------------
\* A deleted project has no cron task, no webhook and no workflow task but
\* those stored while it was being deleted or afterwards, whatever fails in the
\* deletions before and whoever reads an old replica (DeleteOne, DeleteOrg,
\* DeleteProjectAllTasks).
THEOREM GoneLeavesNothing == ProjectsSpec => []GoneIsEmpty
<1> DEFINE Inv == Doing /\ Shaped /\ Emptying
<1>1. ProjectsInit => Inv
  <2> SUFFICES ASSUME ProjectsInit PROVE Inv
    OBVIOUS
  <2>1. Doing
    BY FreeCall DEF ProjectsInit, Doing
  <2>2. Shaped
    BY DEF ProjectsInit, Shaped
  <2>3. \A c \in Call : At(c) = "none"
    BY DEF ProjectsInit, At, Free, Deletes
  <2>4. Emptying
    BY <2>3 DEF ProjectsInit, Emptying, GoneIsEmpty, Counted, Cleared
  <2>5. QED
    BY <2>1, <2>2, <2>4
<1>2. ASSUME Inv, [ProjectsNext]_projectVars PROVE Inv'
  <2>i. Doing /\ Shaped /\ Emptying
    BY <1>2
  <2> HIDE DEF Inv
  <2>1. ASSUME LeakEnds PROVE Inv'
    <3>1. Shaped' /\ db'.hook = db.hook /\ db'.flow = db.flow
          /\ (db'.project = "gone" => db.project = "gone")
      BY <2>i, <2>1 DEF LeakEnds, Commits, Shaped
    <3>2. UNCHANGED <<call, etcdTasks, late>>
      BY <2>1 DEF LeakEnds
    <3>3. Doing' /\ \A d \in Call : At(d)' = At(d)
      BY <2>i, <3>2 DEF Doing, At
    <3>4. QED
      BY <2>i, <3>1, <3>2, <3>3, NothingStored DEF Inv
  <2>2. ASSUME NEW u \in User, NEW s \in Seen, CreateOrg(u, s) PROVE Inv'
    <3>1. Shaped' /\ db'.hook = db.hook /\ db'.flow = db.flow
          /\ (db'.project = "gone" => db.project = "gone")
      BY <2>i, <2>2 DEF CreateOrg, Commits, Shaped
    <3>2. UNCHANGED <<call, etcdTasks, late>>
      BY <2>2 DEF CreateOrg
    <3>3. Doing' /\ \A d \in Call : At(d)' = At(d)
      BY <2>i, <3>2 DEF Doing, At
    <3>4. QED
      BY <2>i, <3>1, <3>2, <3>3, NothingStored DEF Inv
  <2>3. ASSUME NEW u \in User, NEW s \in Seen, CreateProject(u, s) PROVE Inv'
    <3>1. Shaped' /\ db'.hook = db.hook /\ db'.flow = db.flow
          /\ (db'.project = "gone" => db.project = "gone")
      BY <2>i, <2>3 DEF CreateProject, Commits, Shaped
    <3>2. UNCHANGED <<call, etcdTasks, late>>
      BY <2>3 DEF CreateProject
    <3>3. Doing' /\ \A d \in Call : At(d)' = At(d)
      BY <2>i, <3>2 DEF Doing, At
    <3>4. QED
      BY <2>i, <3>1, <3>2, <3>3, NothingStored DEF Inv
  <2>4. ASSUME NEW u \in User, NEW s \in Seen, NEW who \in User,
               DeleteUser(u, who, s) PROVE Inv'
    <3>1. Shaped' /\ db'.hook = db.hook /\ db'.flow = db.flow
          /\ (db'.project = "gone" => db.project = "gone")
      BY <2>i, <2>4 DEF DeleteUser, Commits, Shaped
    <3>2. UNCHANGED <<etcdTasks, late>> /\ call' = Outdated(call)
      BY <2>4 DEF DeleteUser
    <3>3. Doing' /\ \A d \in Call : At(d)' = At(d)
      BY <2>i, <3>2, Outdates DEF Doing, At
    <3>4. QED
      BY <2>i, <3>1, <3>2, <3>3, NothingStored DEF Inv
  <2>5. ASSUME NEW u \in User, NEW s \in Seen, NEW thing \in Thing,
               DropThing(u, thing, s) PROVE Inv'
    <3>1. Doing' /\ \A d \in Call : At(d)' = At(d)
      BY <2>i, <2>5 DEF DropThing, Doing, At
    <3>2. Shaped'
      BY <2>i, <2>5 DEF DropThing, Put, Commits, Shaped, Thing
    <3>3. /\ db'.project = db.project /\ late' = late
          /\ db'.hook => db.hook
          /\ db'.flow => db.flow
          /\ etcdTasks' => etcdTasks
      BY <2>i, <2>5 DEF DropThing, Put, Commits, Shaped, Thing
    <3>4. Emptying'
      BY <2>i, <3>1, <3>3 DEF Emptying, GoneIsEmpty, Counted, Cleared, Stored
    <3>5. QED
      BY <3>1, <3>2, <3>4 DEF Inv
  <2>6. ASSUME NEW u \in User, NEW s \in Seen, DropWorkflowTask(u, s)
        PROVE  Inv'
    <3>1. Doing' /\ \A d \in Call : At(d)' = At(d)
      BY <2>i, <2>6 DEF DropWorkflowTask, Doing, At
    <3>2. Shaped'
      BY <2>i, <2>6 DEF DropWorkflowTask, Put, Commits, Shaped, Thing
    <3>3. /\ db'.project = db.project /\ late' = late
          /\ db'.hook => db.hook
          /\ db'.flow => db.flow
          /\ etcdTasks' => etcdTasks
      BY <2>i, <2>6 DEF DropWorkflowTask, Put, Commits, Shaped, Thing
    <3>4. Emptying'
      BY <2>i, <3>1, <3>3 DEF Emptying, GoneIsEmpty, Counted, Cleared, Stored
    <3>5. QED
      BY <3>1, <3>2, <3>4 DEF Inv
  <2>7. ASSUME NEW c \in Call, NEW u \in User, NEW s \in Seen,
               DeleteOne(c, u, s) PROVE Inv'
    <3> DEFINE r == [Free EXCEPT !.op = "delete", !.step = "rows"]
    <3>1. r \in CallRecord /\ (r.op \in Deletes => r.step = "rows")
      BY <2>7, RoleLevels, RolesAreKnown
         DEF DeleteOne, CallRecord, AnyCall, Free,
             Deletes, Thing
    <3>2. Starts(c, r)
      BY <2>7 DEF DeleteOne
    <3> HIDE DEF r
    <3>3. QED
      BY <2>i, <3>1, <3>2, CallStarts DEF Inv
  <2>8. ASSUME NEW c \in Call, NEW u \in User, NEW s \in Seen,
               DeleteOrg(c, u, s) PROVE Inv'
    <3> DEFINE r == [Free EXCEPT !.op = "delete org", !.step = "rows"]
    <3>1. r \in CallRecord /\ (r.op \in Deletes => r.step = "rows")
      BY <2>8, RoleLevels, RolesAreKnown
         DEF DeleteOrg, CallRecord, AnyCall, Free,
             Deletes, Thing
    <3>2. Starts(c, r)
      BY <2>8 DEF DeleteOrg
    <3> HIDE DEF r
    <3>3. QED
      BY <2>i, <3>1, <3>2, CallStarts DEF Inv
  <2>9. ASSUME NEW c \in Call, NEW u \in User, NEW s \in Seen,
               NEW who \in User, NEW role \in Role, AddUser(c, u, who, role, s)
        PROVE  Inv'
    <3> DEFINE r == [Free EXCEPT !.op = "add", !.step = "act",
                                !.who = who, !.role = role]
    <3>1. r \in CallRecord /\ (r.op \in Deletes => r.step = "rows")
      BY <2>9, RoleLevels, RolesAreKnown
         DEF AddUser, CallRecord, AnyCall, Free,
             Deletes, Thing
    <3>2. Starts(c, r)
      BY <2>9 DEF AddUser
    <3> HIDE DEF r
    <3>3. QED
      BY <2>i, <3>1, <3>2, CallStarts DEF Inv
  <2>10. ASSUME NEW c \in Call, NEW u \in User, NEW s \in Seen,
               NEW who \in User, RemoveUser(c, u, who, s) PROVE Inv'
    <3> DEFINE r == [Free EXCEPT !.op = "remove", !.step = "act", !.who = who,
                                !.fresh = (s = db /\ u \notin Super)]
    <3>1. r \in CallRecord /\ (r.op \in Deletes => r.step = "rows")
      BY <2>10, RoleLevels, RolesAreKnown
         DEF RemoveUser, CallRecord, AnyCall, Free,
             Deletes, Thing
    <3>2. Starts(c, r)
      BY <2>10 DEF RemoveUser
    <3> HIDE DEF r
    <3>3. QED
      BY <2>i, <3>1, <3>2, CallStarts DEF Inv
  <2>11. ASSUME NEW c \in Call, NEW u \in User, NEW s \in Seen,
               NEW thing \in Thing, Store(c, u, thing, s) PROVE Inv'
    <3> DEFINE r == [Free EXCEPT !.op = "store", !.step = "act",
                                !.what = thing]
    <3>1. r \in CallRecord /\ (r.op \in Deletes => r.step = "rows")
      BY <2>11, RoleLevels, RolesAreKnown
         DEF Store, CallRecord, AnyCall, Free,
             Deletes, Thing
    <3>2. Starts(c, r)
      BY <2>11 DEF Store
    <3> HIDE DEF r
    <3>3. QED
      BY <2>i, <3>1, <3>2, CallStarts DEF Inv
  <2>12. ASSUME NEW c \in Call, NEW s \in Seen, CreateProjectRelevance(c, s)
        PROVE  Inv'
    <3>1. Doing' /\ \A d \in Call : At(d)' \in {At(d), "none"}
      BY <2>i, <2>12, CallEnds DEF CreateProjectRelevance
    <3>2. Shaped' /\ db'.hook = db.hook /\ db'.flow = db.flow
          /\ (db'.project = "gone" => db.project = "gone")
      BY <2>i, <2>12 DEF CreateProjectRelevance, Commits, Shaped
    <3>3. UNCHANGED <<etcdTasks, late>>
      BY <2>12 DEF CreateProjectRelevance
    <3>4. QED
      BY <2>i, <3>1, <3>2, <3>3, NothingStored DEF Inv
  <2>13. ASSUME NEW c \in Call, NEW s \in Seen, CountWorkflowTasks(c, s)
        PROVE  Inv'
    <3>1. Goes(c, "count", "list")
      BY <2>13 DEF CountWorkflowTasks
    <3>2. Doing' /\ At(c)' = "list" /\ \A d \in Call : d # c => At(d)' = At(d)
      BY <2>i, <3>1, CallGoesOn
    <3>3. Shaped' /\ UNCHANGED <<db, etcdTasks>>
      BY <2>i, <2>13 DEF CountWorkflowTasks, Shaped
    <3>4. late \subseteq late' /\ (db.flow => "workflow task" \in late')
      BY <2>13 DEF CountWorkflowTasks
    <3>5. GoneIsEmpty' /\ Counted'
      BY <2>i, <3>2, <3>3, <3>4 DEF Emptying, GoneIsEmpty, Counted, Stored
    <3>6. Cleared'
      BY <2>i, <3>2, <3>3, <3>4 DEF Emptying, Cleared
    <3>7. QED
      BY <3>2, <3>3, <3>5, <3>6 DEF Inv, Emptying
  <2>14. ASSUME NEW c \in Call, DeleteProjectRelevance(c) PROVE Inv'
    <3> DEFINE calls == [call EXCEPT ![c] = Free]
    <3>1. calls \in [Call -> CallRecord] /\ call' = Outdated(calls)
      BY <2>i, <2>14, FreeCall DEF DeleteProjectRelevance, Doing
    <3>2. \A d \in Call : calls[d] = IF d = c THEN Free ELSE call[d]
      BY <2>i DEF Doing
    <3> HIDE DEF calls
    <3>3. Doing' /\ \A d \in Call : At(d)' \in {At(d), "none"}
      BY <3>1, <3>2, FreeCall, Outdates DEF Doing, At
    <3>4. Shaped' /\ db'.hook = db.hook /\ db'.flow = db.flow
          /\ (db'.project = "gone" => db.project = "gone")
      BY <2>i, <2>14 DEF DeleteProjectRelevance, Commits, Shaped
    <3>5. UNCHANGED <<etcdTasks, late>>
      BY <2>14 DEF DeleteProjectRelevance
    <3>6. QED
      BY <2>i, <3>3, <3>4, <3>5, NothingStored DEF Inv
  <2>15. ASSUME NEW c \in Call, Stores(c) PROVE Inv'
    <3>1. Doing' /\ \A d \in Call : At(d)' \in {At(d), "none"}
      BY <2>i, <2>15, CallEnds DEF Stores
    <3>2. /\ call[c].what \in Thing /\ Put(call[c].what, TRUE)
          /\ late' = IF db.project = "gone" \/ Deleting
                       THEN late \union {call[c].what} ELSE late
      BY <2>i, <2>15 DEF Stores, Doing, CallRecord
    <3>3. /\ Shaped' /\ db'.project = db.project
          /\ db'.hook => db.hook \/ call[c].what = "hook"
          /\ db'.flow => db.flow \/ call[c].what = "workflow task"
          /\ etcdTasks' => etcdTasks \/ call[c].what = "task"
      BY <2>i, <3>2 DEF Put, Commits, Shaped, Thing
    <3>4. CASE db.project = "gone" \/ Deleting
      <4>1. late' = late \union {call[c].what}
        BY <3>2, <3>4
      <4>2. GoneIsEmpty'
        BY <2>i, <3>3, <4>1 DEF Emptying, GoneIsEmpty, Stored
      <4>3. Counted' /\ Cleared'
        BY <2>i, <3>1, <3>3, <4>1 DEF Emptying, Counted, Cleared
      <4>4. QED
        BY <3>1, <3>3, <4>2, <4>3 DEF Inv, Emptying
    <3>5. CASE db.project # "gone" /\ ~Deleting
      <4>1. \A d \in Call : At(d) = "none"
        BY <3>5 DEF Deleting, At
      <4>2. \A d \in Call : At(d)' = "none"
        BY <3>1, <4>1
      <4>3. QED
        BY <3>1, <3>3, <3>5, <4>2
           DEF Emptying, GoneIsEmpty, Counted, Cleared, Inv
    <3>6. QED
      BY <3>4, <3>5
  <2>16. ASSUME NEW c \in Call, DeleteRows(c) PROVE Inv'
    <3>1. Goes(c, "rows", "count")
      BY <2>16 DEF DeleteRows
    <3>2. Doing' /\ At(c)' = "count" /\ \A d \in Call : d # c => At(d)' = At(d)
      BY <2>i, <3>1, CallGoesOn
    <3>3. Shaped' /\ UNCHANGED <<db, etcdTasks, late>>
      BY <2>i, <2>16 DEF DeleteRows, Shaped
    <3>4. QED
      BY <2>i, <3>2, <3>3, NothingStored DEF Inv
  <2>17. ASSUME NEW c \in Call, ListTasks(c) PROVE Inv'
    <3>1. Goes(c, "list", IF etcdTasks THEN "clear" ELSE "commit")
      BY <2>17 DEF ListTasks
    <3>2. /\ Doing' /\ At(c) = "list"
          /\ At(c)' = IF etcdTasks THEN "clear" ELSE "commit"
          /\ \A d \in Call : d # c => At(d)' = At(d)
      BY <2>i, <3>1, CallGoesOn
    <3>3. Shaped' /\ UNCHANGED <<db, etcdTasks, late>>
      BY <2>i, <2>17 DEF ListTasks, Shaped
    <3>4. GoneIsEmpty'
      BY <2>i, <3>3 DEF Emptying, GoneIsEmpty, Stored
    <3>5. Counted'
      BY <2>i, <3>2, <3>3 DEF Emptying, Counted
    <3>6. Cleared'
      BY <2>i, <3>2, <3>3 DEF Emptying, Cleared
    <3>7. QED
      BY <3>2, <3>3, <3>4, <3>5, <3>6 DEF Inv, Emptying
  <2>18. ASSUME NEW c \in Call, ClearTasks(c) PROVE Inv'
    <3>1. Goes(c, "clear", "commit")
      BY <2>18 DEF ClearTasks
    <3>2. /\ Doing' /\ At(c) = "clear" /\ At(c)' = "commit"
          /\ \A d \in Call : d # c => At(d)' = At(d)
      BY <2>i, <3>1, CallGoesOn
    <3>3. Shaped' /\ db' = db /\ ~etcdTasks' /\ late' = late \ {"task"}
      BY <2>i, <2>18 DEF ClearTasks, Shaped
    <3>4. GoneIsEmpty'
      BY <2>i, <3>3 DEF Emptying, GoneIsEmpty, Stored
    <3>5. Counted'
      BY <2>i, <3>2, <3>3 DEF Emptying, Counted
    <3>6. Cleared'
      BY <3>3 DEF Cleared
    <3>7. QED
      BY <3>2, <3>3, <3>4, <3>5, <3>6 DEF Inv, Emptying
  <2>19. ASSUME NEW c \in Call, CommitDeletion(c) PROVE Inv'
    <3>1. Doing' /\ \A d \in Call : At(d)' \in {At(d), "none"}
      BY <2>i, <2>19, CallEnds DEF CommitDeletion
    <3>2. At(c) = "commit"
      BY <2>19 DEF CommitDeletion, At
    <3>3. /\ Shaped' /\ etcdTasks' = etcdTasks /\ late' = late \ {"hook"}
          /\ ~db'.hook /\ db'.flow = db.flow
      BY <2>i, <2>19 DEF CommitDeletion, Commits, Shaped
    <3>4. GoneIsEmpty'
      BY <2>i, <3>2, <3>3 DEF Emptying, GoneIsEmpty, Counted, Cleared, Stored
    <3>5. Counted' /\ Cleared'
      BY <2>i, <3>1, <3>3 DEF Emptying, Counted, Cleared
    <3>6. QED
      BY <3>1, <3>3, <3>4, <3>5 DEF Inv, Emptying
  <2>20. ASSUME NEW c \in Call, DeletionFails(c) PROVE Inv'
    <3>1. Doing' /\ \A d \in Call : At(d)' \in {At(d), "none"}
      BY <2>i, <2>20, CallEnds DEF DeletionFails
    <3>2. Shaped' /\ db'.hook = db.hook /\ db'.flow = db.flow
          /\ (db'.project = "gone" => db.project = "gone")
      BY <2>i, <2>20 DEF DeletionFails, Commits, Shaped
    <3>3. UNCHANGED <<etcdTasks, late>>
      BY <2>20 DEF DeletionFails
    <3>4. QED
      BY <2>i, <3>1, <3>2, <3>3, NothingStored DEF Inv
  <2>21. CASE UNCHANGED projectVars
    <3>1. UNCHANGED <<db, call, etcdTasks, late>>
      BY <2>21 DEF projectVars
    <3>2. Doing' /\ Shaped' /\ \A d \in Call : At(d)' = At(d)
      BY <2>i, <3>1 DEF Doing, Shaped, At
    <3>3. QED
      BY <2>i, <3>1, <3>2, NothingStored DEF Inv
  <2>22. QED
    BY <1>2, <2>1, <2>2, <2>3, <2>4, <2>5, <2>6, <2>7, <2>8, <2>9, <2>10,
       <2>11, <2>12, <2>13, <2>14, <2>15, <2>16, <2>17, <2>18, <2>19,
       <2>20, <2>21 DEF ProjectsNext
<1>3. Inv => GoneIsEmpty
  BY DEF Emptying
<1>4. QED
  BY <1>1, <1>2, <1>3, PTL DEF ProjectsSpec

-----------------------------------------------------------------------------
\* What the chief rests on: no rows before the project is there, and of a
\* removal whose checks are up to date that it does not take the last chief,
\* for the one who asked for it is another.
Safe(c) ==
  call[c].op = "remove" /\ call[c].fresh =>
    /\ call[c].who \in User /\ RoleIn(db, call[c].who) # "none"
    /\ RoleIn(db, call[c].who) = "admin"
         => \E u \in db.accounts : u # call[c].who /\ RoleIn(db, u) = "admin"

Ruled ==
  /\ db \in Database
  /\ db.project = "none" => \A u \in User : db.rows[u] = <<>>
  /\ \A c \in Call : Safe(c)
  /\ ChiefRemains

\* A step that changes no row and no account and begins no removal.
LEMMA SameRows ==
  ASSUME Ruled, db' \in Database,
         db'.rows = db.rows, db'.accounts = db.accounts,
         db'.project \in {db.project, "gone"}, pardoned' = pardoned,
         \A c \in Call : call'[c].op = "remove" => call'[c] = call[c]
  PROVE  Ruled'
<1>1. \A u : RoleIn(db, u)' = RoleIn(db, u)
  BY DEF RoleIn
<1>2. ASSUME NEW c \in Call PROVE Safe(c)'
  <2> SUFFICES ASSUME call'[c].op = "remove", call'[c].fresh PROVE Safe(c)'
    BY DEF Safe
  <2>1. call'[c] = call[c]
    OBVIOUS
  <2>2. Safe(c)
    BY DEF Ruled
  <2>3. QED
    BY <1>1, <2>1, <2>2 DEF Safe
<1>3. ChiefRemains'
  BY <1>1 DEF Ruled, ChiefRemains
<1>4. QED
  BY <1>2, <1>3 DEF Ruled

\* What is put into the database for the project is not a row of a member.
LEMMA ThingsArePut ==
  ASSUME db \in Database, NEW thing \in Thing, NEW there \in BOOLEAN,
         Put(thing, there)
  PROVE  /\ db' \in Database /\ db'.rows = db.rows
         /\ db'.accounts = db.accounts /\ db'.project = db.project
<1>1. CASE thing = "task"
  BY <1>1 DEF Put
<1>2. CASE thing = "hook"
  <2>1. db' = [db EXCEPT !.hook = there]
    BY <1>2 DEF Put, Commits
  <2>2. QED
    BY <2>1 DEF Database
<1>3. CASE thing = "workflow task"
  <2>1. db' = [db EXCEPT !.flow = there]
    BY <1>3 DEF Put, Commits
  <2>2. QED
    BY <2>1 DEF Database
<1>4. QED
  BY <1>1, <1>2, <1>3 DEF Thing

\* A call that is over, and one that begins, is no removal but for RemoveUser.
LEMMA NoRemoval ==
  ASSUME Doing, NEW c \in Call, NEW r, r.op # "remove",
         call' = [call EXCEPT ![c] = r]
  PROVE  \A d \in Call : call'[d].op = "remove" => call'[d] = call[d]
BY DEF Doing

\* Once a row or an account is deleted no check is up to date.
LEMMA NothingFresh ==
  ASSUME NEW calls \in [Call -> CallRecord]
  PROVE  /\ Outdated(calls) \in [Call -> CallRecord]
         /\ \A d \in Call : ~Outdated(calls)[d].fresh
<1>1. Outdated(calls) \in [Call -> CallRecord]
  BY Outdates
<1>2. ASSUME NEW d \in Call PROVE ~Outdated(calls)[d].fresh
  <2>1. calls[d] \in AnyCall
    BY DEF CallRecord
  <2>2. [calls[d] EXCEPT !.fresh = FALSE].fresh = FALSE
    BY <2>1 DEF AnyCall
  <2>3. QED
    BY <2>2 DEF Outdated
<1>3. QED
  BY <1>1, <1>2

\* A call that begins and removes nobody keeps what is known of removals.
LEMMA OtherStarts ==
  ASSUME Doing, Ruled, NEW c \in Call, NEW r \in CallRecord,
         r.op # "remove", Starts(c, r)
  PROVE  Doing' /\ Ruled'
<1>1. UNCHANGED <<db, pardoned>> /\ call' = [call EXCEPT ![c] = r]
  BY DEF Starts
<1>2. \A d \in Call : call'[d].op = "remove" => call'[d] = call[d]
  BY <1>1, NoRemoval
<1>3. Doing'
  BY <1>1 DEF Doing
<1>4. QED
  BY <1>1, <1>2, <1>3, SameRows DEF Ruled

\* Nor does a call that goes on change a removal.
LEMMA GoesOnNoRemoval ==
  ASSUME Doing, NEW c \in Call, NEW from, NEW to, Goes(c, from, to)
  PROVE  \A d \in Call : call'[d].op = "remove" => call'[d] = call[d]
<1> DEFINE r == [call[c] EXCEPT !.step = to]
<1>1. call[c] \in AnyCall /\ call[c].op \in Deletes
  BY DEF Doing, CallRecord, Goes
<1>2. r.op # "remove"
  BY <1>1 DEF AnyCall, Deletes
<1>3. call' = [call EXCEPT ![c] = r]
  BY DEF Goes
<1> HIDE DEF r
<1>4. QED
  BY <1>2, <1>3, NoRemoval

\* Every user has a role in any state of the table, be it none.
LEMMA RolesInRows ==
  ASSUME db \in Database
  PROVE  \A u \in User : RoleIn(db, u) \in DOMAIN Level
<1> SUFFICES ASSUME NEW u \in User PROVE RoleIn(db, u) \in DOMAIN Level
  OBVIOUS
<1>1. db.rows[u] \in Seq(DOMAIN Level \ {"none"})
  BY DEF Database
<1>2. db.rows[u] # <<>> => Head(db.rows[u]) \in DOMAIN Level \ {"none"}
  BY <1>1
<1>3. QED
  BY <1>2, RoleLevels DEF RoleIn

\* Nobody but a chief has at least a chief's level.
LEMMA OneHighest ==
  ASSUME NEW r \in DOMAIN Level, Level[r] >= Level["admin"]
  PROVE  r = "admin"
<1>1. /\ Level["none"] = 0 /\ Level["user"] = 1
      /\ Level["manager"] = 2 /\ Level["admin"] = 3
  BY DEF Level
<1>2. QED
  BY <1>1, RoleLevels

\* A project has a chief whose account exists, for any number of users and of
\* members who add and remove each other at the same time (RemoveUser in
\* app/app.go, CheckUserPermissionAndGreaterOrEqualAnotherUser).
THEOREM ChiefRemainsAlways == ProjectsSpec => []ChiefRemains
<1> DEFINE Inv == Doing /\ Ruled
<1>1. ProjectsInit => Inv
  <2> SUFFICES ASSUME ProjectsInit PROVE Inv
    OBVIOUS
  <2>1. Doing
    BY FreeCall DEF ProjectsInit, Doing
  <2>2. db \in Database /\ db.project = "none"
        /\ \A u \in User : db.rows[u] = <<>>
    BY DEF ProjectsInit, Database
  <2>3. \A c \in Call : Safe(c)
    BY DEF ProjectsInit, Safe, Free
  <2>4. QED
    BY <2>1, <2>2, <2>3 DEF Ruled, ChiefRemains
<1>2. ASSUME Inv, [ProjectsNext]_projectVars PROVE Inv'
  <2>i. Doing /\ Ruled
    BY <1>2
  <2> HIDE DEF Inv
  <2>1. ASSUME LeakEnds PROVE Inv'
    <3>1. UNCHANGED <<db, call, pardoned>>
      BY <2>1 DEF LeakEnds
    <3>2. QED
      BY <2>i, <3>1, SameRows DEF Inv, Ruled, Doing
  <2>2. ASSUME NEW u \in User, NEW s \in Seen, CreateOrg(u, s) PROVE Inv'
    <3>1. db' = [db EXCEPT !.org[u] = "admin"] /\ UNCHANGED <<call, pardoned>>
      BY <2>2 DEF CreateOrg, Commits
    <3>2. /\ db' \in Database /\ db'.rows = db.rows
          /\ db'.accounts = db.accounts /\ db'.project = db.project
      BY <2>i, <3>1 DEF Ruled, Database
    <3>3. QED
      BY <2>i, <3>1, <3>2, SameRows DEF Inv, Doing
  <2>3. ASSUME NEW u \in User, NEW s \in Seen, CreateProject(u, s) PROVE Inv'
    <3>1. /\ db.project = "none" /\ call' = call
          /\ pardoned' = (u \notin db.accounts)
          /\ db' = [db EXCEPT !.project = "live", !.rows[u] = <<"admin">>,
                              !.org[u] = IF @ = "none" THEN "user" ELSE @]
      BY <2>3 DEF CreateProject, Commits
    <3>2. /\ db' \in Database /\ db'.rows[u] = <<"admin">>
          /\ db'.accounts = db.accounts /\ db'.project = "live"
      <4> DEFINE rows == [db.rows EXCEPT ![u] = <<"admin">>]
                 org == [db.org EXCEPT ![u] = IF @ = "none" THEN "user" ELSE @]
      <4>1. db \in Database
        BY <2>i DEF Ruled
      <4>2. /\ rows \in [User -> Seq(DOMAIN Level \ {"none"})]
            /\ rows[u] = <<"admin">>
        BY <4>1, RoleLevels DEF Database
      <4>3. org \in [User -> {"none", "user", "admin"}]
        BY <4>1 DEF Database
      <4>4. db' = [db EXCEPT !.project = "live", !.rows = rows, !.org = org]
        BY <3>1, <4>1 DEF Database
      <4> HIDE DEF rows, org
      <4>5. QED
        BY <4>1, <4>2, <4>3, <4>4 DEF Database
    <3>3. \A v \in User : RoleIn(db, v) = "none"
      BY <2>i, <3>1 DEF Ruled, RoleIn
    <3>4. \A c \in Call : ~(call[c].op = "remove" /\ call[c].fresh)
      BY <2>i, <3>3 DEF Ruled, Safe
    <3>5. \A c \in Call : Safe(c)'
      BY <3>1, <3>4 DEF Safe
    <3>6. RoleIn(db, u)' = "admin"
      BY <3>2 DEF RoleIn
    <3>7. ChiefRemains'
      BY <3>1, <3>2, <3>6 DEF ChiefRemains
    <3>8. QED
      BY <2>i, <3>1, <3>2, <3>5, <3>7 DEF Inv, Ruled, Doing
  <2>4. ASSUME NEW u \in User, NEW s \in Seen, NEW who \in User,
               DeleteUser(u, who, s) PROVE Inv'
    <3>1. /\ db' = [db EXCEPT !.accounts = @ \ {who}]
          /\ call' = Outdated(call)
          /\ pardoned' = (pardoned \/ RoleIn(db, who) = "admin")
      BY <2>4 DEF DeleteUser, Commits
    <3>2. /\ db' \in Database /\ db'.rows = db.rows
          /\ db'.accounts = db.accounts \ {who} /\ db'.project = db.project
      BY <2>i, <3>1 DEF Ruled, Database
    <3>3. Doing' /\ \A c \in Call : Safe(c)'
      BY <2>i, <3>1, NothingFresh DEF Doing, Safe
    <3>4. \A v : RoleIn(db, v)' = RoleIn(db, v)
      BY <3>2 DEF RoleIn
    <3>5. ChiefRemains'
      BY <2>i, <3>1, <3>2, <3>4 DEF Ruled, ChiefRemains
    <3>6. QED
      BY <2>i, <3>2, <3>3, <3>5 DEF Inv, Ruled
  <2>5. ASSUME NEW u \in User, NEW s \in Seen, NEW thing \in Thing,
               DropThing(u, thing, s) PROVE Inv'
    <3>1. Put(thing, FALSE) /\ UNCHANGED <<call, pardoned>>
      BY <2>5 DEF DropThing
    <3>2. /\ db' \in Database /\ db'.rows = db.rows
          /\ db'.accounts = db.accounts /\ db'.project = db.project
      BY <2>i, <3>1, ThingsArePut DEF Ruled, Thing
    <3>3. QED
      BY <2>i, <3>1, <3>2, SameRows DEF Inv, Doing
  <2>6. ASSUME NEW u \in User, NEW s \in Seen, DropWorkflowTask(u, s)
        PROVE  Inv'
    <3>1. Put("workflow task", FALSE) /\ UNCHANGED <<call, pardoned>>
      BY <2>6 DEF DropWorkflowTask
    <3>2. /\ db' \in Database /\ db'.rows = db.rows
          /\ db'.accounts = db.accounts /\ db'.project = db.project
      BY <2>i, <3>1, ThingsArePut DEF Ruled, Thing
    <3>3. QED
      BY <2>i, <3>1, <3>2, SameRows DEF Inv, Doing
  <2>7. ASSUME NEW c \in Call, NEW u \in User, NEW s \in Seen,
               DeleteOne(c, u, s) PROVE Inv'
    <3> DEFINE r == [Free EXCEPT !.op = "delete", !.step = "rows"]
    <3>1. r \in CallRecord /\ r.op # "remove"
      BY RoleLevels, RolesAreKnown DEF CallRecord, AnyCall, Free, Thing
    <3>2. Starts(c, r)
      BY <2>7 DEF DeleteOne
    <3> HIDE DEF r
    <3>3. QED
      BY <2>i, <3>1, <3>2, OtherStarts DEF Inv
  <2>8. ASSUME NEW c \in Call, NEW u \in User, NEW s \in Seen,
               DeleteOrg(c, u, s) PROVE Inv'
    <3> DEFINE r == [Free EXCEPT !.op = "delete org", !.step = "rows"]
    <3>1. r \in CallRecord /\ r.op # "remove"
      BY RoleLevels, RolesAreKnown DEF CallRecord, AnyCall, Free, Thing
    <3>2. Starts(c, r)
      BY <2>8 DEF DeleteOrg
    <3> HIDE DEF r
    <3>3. QED
      BY <2>i, <3>1, <3>2, OtherStarts DEF Inv
  <2>9. ASSUME NEW c \in Call, NEW u \in User, NEW s \in Seen,
               NEW who \in User, NEW role \in Role, AddUser(c, u, who, role, s)
        PROVE  Inv'
    <3> DEFINE r == [Free EXCEPT !.op = "add", !.step = "act",
                                !.who = who, !.role = role]
    <3>1. r \in CallRecord /\ r.op # "remove"
      BY RoleLevels, RolesAreKnown DEF CallRecord, AnyCall, Free, Thing
    <3>2. Starts(c, r)
      BY <2>9 DEF AddUser
    <3> HIDE DEF r
    <3>3. QED
      BY <2>i, <3>1, <3>2, OtherStarts DEF Inv
  <2>10. ASSUME NEW c \in Call, NEW u \in User, NEW s \in Seen,
               NEW thing \in Thing, Store(c, u, thing, s) PROVE Inv'
    <3> DEFINE r == [Free EXCEPT !.op = "store", !.step = "act",
                                !.what = thing]
    <3>1. r \in CallRecord /\ r.op # "remove"
      BY RoleLevels, RolesAreKnown DEF CallRecord, AnyCall, Free, Thing
    <3>2. Starts(c, r)
      BY <2>10 DEF Store
    <3> HIDE DEF r
    <3>3. QED
      BY <2>i, <3>1, <3>2, OtherStarts DEF Inv
  <2>11. ASSUME NEW c \in Call, NEW u \in User, NEW s \in Seen,
               NEW who \in User, RemoveUser(c, u, who, s) PROVE Inv'
    <3> DEFINE r == [Free EXCEPT !.op = "remove", !.step = "act", !.who = who,
                                !.fresh = (s = db /\ u \notin Super)]
    <3>1. /\ r \in CallRecord /\ r.who = who
          /\ r.fresh = (s = db /\ u \notin Super)
      BY RoleLevels DEF CallRecord, AnyCall, Free, Thing
    <3>2. Starts(c, r)
      BY <2>11 DEF RemoveUser
    <3> HIDE DEF r
    <3>3. UNCHANGED <<db, pardoned>> /\ call' = [call EXCEPT ![c] = r]
      BY <3>2 DEF Starts
    <3>4. Doing' /\ \A d \in Call : call'[d] = IF d = c THEN r ELSE call[d]
      BY <2>i, <3>1, <3>3 DEF Doing
    <3>5. ASSUME r.fresh
          PROVE  /\ RoleIn(db, who) # "none"
                 /\ RoleIn(db, who) = "admin" =>
                      \E v \in db.accounts :
                        v # who /\ RoleIn(db, v) = "admin"
      <4>1. s = db /\ u # who /\ ~IsAdmin(db, u)
            /\ GreaterOrEqual(db, u, "edit", RoleIn(db, who))
        BY <2>11, <3>1, <3>5 DEF RemoveUser, IsAdmin
      <4>2. /\ u \in db.accounts /\ RoleIn(db, who) # "none"
            /\ Level[RoleIn(db, u)] >= Level[RoleIn(db, who)]
        BY <4>1 DEF GreaterOrEqual, CheckPermissions
      <4>3. RoleIn(db, u) \in DOMAIN Level
        BY <2>i, RolesInRows DEF Ruled
      <4>4. RoleIn(db, who) = "admin" => RoleIn(db, u) = "admin"
        BY <4>2, <4>3, OneHighest
      <4>5. QED
        BY <4>1, <4>2, <4>4
    <3>6. \A v : RoleIn(db, v)' = RoleIn(db, v)
      BY <3>3 DEF RoleIn
    <3>7. \A d \in Call : Safe(d)'
      BY <2>i, <3>1, <3>3, <3>4, <3>5, <3>6 DEF Ruled, Safe
    <3>8. ChiefRemains'
      BY <2>i, <3>3, <3>6 DEF Ruled, ChiefRemains
    <3>9. QED
      BY <2>i, <3>3, <3>4, <3>7, <3>8 DEF Inv, Ruled
  <2>12. ASSUME NEW c \in Call, NEW s \in Seen, CreateProjectRelevance(c, s)
        PROVE  Inv'
    <3> DEFINE who == call[c].who
    <3>1. /\ Ends(c) /\ pardoned' = pardoned /\ call[c].op = "add"
          /\ \/ db' = db
             \/ /\ db.project = "live"
                /\ db' = [db EXCEPT
                     !.rows[who] = Append(@, call[c].role),
                     !.org[who] = IF @ = "none" THEN "user" ELSE @]
      BY <2>12 DEF CreateProjectRelevance, Commits
    <3>2. Doing'
      BY <2>i, <3>1, CallEnds
    <3>3. \A d \in Call : call'[d].op = "remove" => call'[d] = call[d]
      BY <2>i, <3>1, NoRemoval DEF Ends, Free
    <3>4. CASE db' = db
      BY <2>i, <3>1, <3>2, <3>3, <3>4, SameRows DEF Inv, Ruled
    <3>5. CASE db' # db
      <4>1. who \in User /\ call[c].role \in DOMAIN Level \ {"none"}
        BY <2>i, <3>1 DEF Doing, CallRecord, AnyCall
      <4>2. db.project = "live" /\ db' = [db EXCEPT
                     !.rows[who] = Append(@, call[c].role),
                     !.org[who] = IF @ = "none" THEN "user" ELSE @]
        BY <3>1, <3>5
      <4> HIDE DEF who
      <4>3. db' \in Database /\ db'.project = db.project
            /\ db'.accounts = db.accounts
            /\ \A v \in User : db'.rows[v] =
                 IF v = who THEN Append(db.rows[v], call[c].role) ELSE db.rows[v]
        <5> DEFINE rows == [db.rows EXCEPT ![who] = Append(@, call[c].role)]
                   org == [db.org EXCEPT ![who] =
                             IF @ = "none" THEN "user" ELSE @]
        <5>1. db \in Database
          BY <2>i DEF Ruled
        <5>2. /\ rows \in [User -> Seq(DOMAIN Level \ {"none"})]
              /\ \A v \in User : rows[v] =
                   IF v = who THEN Append(db.rows[v], call[c].role)
                              ELSE db.rows[v]
          BY <4>1, <5>1 DEF Database
        <5>3. org \in [User -> {"none", "user", "admin"}]
          BY <5>1 DEF Database
        <5>4. db' = [db EXCEPT !.rows = rows, !.org = org]
          BY <4>2, <5>1 DEF Database
        <5> HIDE DEF rows, org
        <5>5. QED
          BY <5>1, <5>2, <5>3, <5>4 DEF Database
      <4>4. \A v \in User : RoleIn(db, v) # "none" =>
                              RoleIn(db, v)' = RoleIn(db, v)
        <5> SUFFICES ASSUME NEW v \in User, db.rows[v] # <<>>
                     PROVE  RoleIn(db, v)' = RoleIn(db, v)
          BY DEF RoleIn
        <5>1. db.rows[v] \in Seq(DOMAIN Level \ {"none"})
          BY <2>i DEF Ruled, Database
        <5>2. /\ Append(db.rows[v], call[c].role) # <<>>
              /\ Head(Append(db.rows[v], call[c].role)) = Head(db.rows[v])
          BY <4>1, <5>1
        <5>3. QED
          BY <4>3, <5>2 DEF RoleIn
      <4>a. db.accounts \subseteq User
        BY <2>i DEF Ruled, Database
      <4>5. ASSUME NEW d \in Call PROVE Safe(d)'
        <5> SUFFICES ASSUME call'[d].op = "remove", call'[d].fresh
                     PROVE  Safe(d)'
          BY DEF Safe
        <5>1. call'[d] = call[d] /\ Safe(d)
          BY <2>i, <3>3 DEF Ruled
        <5>2. /\ call[d].who \in User
              /\ RoleIn(db, call[d].who)' = RoleIn(db, call[d].who)
              /\ RoleIn(db, call[d].who) # "none"
          BY <4>4, <5>1 DEF Safe
        <5>3. QED
          BY <4>a, <4>3, <4>4, <5>1, <5>2 DEF Safe
      <4>6. ChiefRemains'
        BY <2>i, <3>1, <4>a, <4>3, <4>4 DEF Ruled, ChiefRemains
      <4>7. QED
        BY <3>2, <4>2, <4>3, <4>5, <4>6 DEF Inv, Ruled
    <3>6. QED
      BY <3>4, <3>5
  <2>13. ASSUME NEW c \in Call, NEW s \in Seen, CountWorkflowTasks(c, s)
        PROVE  Inv'
    <3>1. Goes(c, "count", "list")
          /\ UNCHANGED <<db, pardoned>>
      BY <2>13 DEF CountWorkflowTasks
    <3>2. Doing'
      BY <2>i, <3>1, CallGoesOn
    <3>3. \A d \in Call : call'[d].op = "remove" => call'[d] = call[d]
      BY <2>i, <3>1, GoesOnNoRemoval
    <3>4. QED
      BY <2>i, <3>1, <3>2, <3>3, SameRows DEF Inv, Ruled
  <2>14. ASSUME NEW c \in Call, DeleteRows(c) PROVE Inv'
    <3>1. Goes(c, "rows", "count")
          /\ UNCHANGED <<db, pardoned>>
      BY <2>14 DEF DeleteRows
    <3>2. Doing'
      BY <2>i, <3>1, CallGoesOn
    <3>3. \A d \in Call : call'[d].op = "remove" => call'[d] = call[d]
      BY <2>i, <3>1, GoesOnNoRemoval
    <3>4. QED
      BY <2>i, <3>1, <3>2, <3>3, SameRows DEF Inv, Ruled
  <2>15. ASSUME NEW c \in Call, ListTasks(c) PROVE Inv'
    <3>1. Goes(c, "list", IF etcdTasks THEN "clear" ELSE "commit")
          /\ UNCHANGED <<db, pardoned>>
      BY <2>15 DEF ListTasks
    <3>2. Doing'
      BY <2>i, <3>1, CallGoesOn
    <3>3. \A d \in Call : call'[d].op = "remove" => call'[d] = call[d]
      BY <2>i, <3>1, GoesOnNoRemoval
    <3>4. QED
      BY <2>i, <3>1, <3>2, <3>3, SameRows DEF Inv, Ruled
  <2>16. ASSUME NEW c \in Call, ClearTasks(c) PROVE Inv'
    <3>1. Goes(c, "clear", "commit")
          /\ UNCHANGED <<db, pardoned>>
      BY <2>16 DEF ClearTasks
    <3>2. Doing'
      BY <2>i, <3>1, CallGoesOn
    <3>3. \A d \in Call : call'[d].op = "remove" => call'[d] = call[d]
      BY <2>i, <3>1, GoesOnNoRemoval
    <3>4. QED
      BY <2>i, <3>1, <3>2, <3>3, SameRows DEF Inv, Ruled
  <2>17. ASSUME NEW c \in Call, DeleteProjectRelevance(c) PROVE Inv'
    <3> DEFINE who == call[c].who
               calls == [call EXCEPT ![c] = Free]
    <3>1. /\ call[c].op = "remove" /\ call' = Outdated(calls)
          /\ db' = [db EXCEPT !.rows[who] = <<>>]
          /\ pardoned' = (pardoned \/ ~call[c].fresh)
      BY <2>17 DEF DeleteProjectRelevance, Commits
    <3>2. calls \in [Call -> CallRecord]
      BY <2>i, FreeCall DEF Doing
    <3> HIDE DEF who, calls
    <3>3. Doing' /\ \A d \in Call : Safe(d)'
      BY <3>1, <3>2, NothingFresh DEF Doing, Safe
    <3>4. /\ db' \in Database /\ db'.accounts = db.accounts
          /\ db'.project = db.project
          /\ \A v \in User : v # who => db'.rows[v] = db.rows[v]
          /\ \A v \in User : db.rows[v] = <<>> => db'.rows[v] = <<>>
      <4> DEFINE rows == [db.rows EXCEPT ![who] = <<>>]
      <4>1. db \in Database
        BY <2>i DEF Ruled
      <4>2. /\ rows \in [User -> Seq(DOMAIN Level \ {"none"})]
            /\ \A v \in User : rows[v] = IF v = who THEN <<>> ELSE db.rows[v]
        <5>1. db.rows \in [User -> Seq(DOMAIN Level \ {"none"})]
          BY <4>1 DEF Database
        <5>2. <<>> \in Seq(DOMAIN Level \ {"none"})
          OBVIOUS
        <5>3. QED
          BY <5>1, <5>2
      <4>3. db' = [db EXCEPT !.rows = rows]
        BY <3>1, <4>1 DEF Database
      <4> HIDE DEF rows
      <4>4. QED
        BY <4>1, <4>2, <4>3 DEF Database
    <3>5. \A v \in User : v # who => RoleIn(db, v)' = RoleIn(db, v)
      BY <3>4 DEF RoleIn
    <3>6. ChiefRemains'
      <4> SUFFICES ASSUME db'.project = "live", ~pardoned'
                   PROVE  \E v \in db'.accounts : RoleIn(db, v)' = "admin"
        BY DEF ChiefRemains
      <4>1. db.project = "live" /\ ~pardoned /\ call[c].fresh
        BY <3>1, <3>4
      <4>2. PICK v \in db.accounts : RoleIn(db, v) = "admin"
        BY <2>i, <4>1 DEF Ruled, ChiefRemains
      <4>3. RoleIn(db, who) = "admin" =>
              \E w \in db.accounts : w # who /\ RoleIn(db, w) = "admin"
        BY <2>i, <3>1, <4>1 DEF Ruled, Safe, who
      <4>4. PICK w \in db.accounts : w # who /\ RoleIn(db, w) = "admin"
        BY <4>2, <4>3
      <4>5. w \in User
        BY <2>i DEF Ruled, Database
      <4>6. QED
        BY <3>4, <3>5, <4>4, <4>5
    <3>7. QED
      BY <2>i, <3>3, <3>4, <3>6 DEF Inv, Ruled
  <2>18. ASSUME NEW c \in Call, Stores(c) PROVE Inv'
    <3>1. Ends(c) /\ Put(call[c].what, TRUE) /\ pardoned' = pardoned
          /\ call[c].what \in Thing
      BY <2>i, <2>18 DEF Stores, Doing, CallRecord
    <3>2. /\ db' \in Database /\ db'.rows = db.rows
          /\ db'.accounts = db.accounts /\ db'.project = db.project
      BY <2>i, <3>1, ThingsArePut DEF Ruled
    <3>3. Doing'
      BY <2>i, <3>1, CallEnds
    <3>4. \A d \in Call : call'[d].op = "remove" => call'[d] = call[d]
      BY <2>i, <3>1, NoRemoval DEF Ends, Free
    <3>5. QED
      BY <2>i, <3>1, <3>2, <3>3, <3>4, SameRows DEF Inv
  <2>19. ASSUME NEW c \in Call, CommitDeletion(c) PROVE Inv'
    <3>1. Ends(c) /\ pardoned' = pardoned
          /\ db' = [db EXCEPT !.project = "gone", !.hook = FALSE]
      BY <2>19 DEF CommitDeletion, Commits
    <3>2. /\ db' \in Database /\ db'.rows = db.rows
          /\ db'.accounts = db.accounts /\ db'.project = "gone"
      BY <2>i, <3>1 DEF Ruled, Database
    <3>3. Doing'
      BY <2>i, <3>1, CallEnds
    <3>4. \A d \in Call : call'[d].op = "remove" => call'[d] = call[d]
      BY <2>i, <3>1, NoRemoval DEF Ends, Free
    <3>5. QED
      BY <2>i, <3>1, <3>2, <3>3, <3>4, SameRows DEF Inv
  <2>20. ASSUME NEW c \in Call, DeletionFails(c) PROVE Inv'
    <3>1. Ends(c) /\ UNCHANGED <<db, pardoned>>
      BY <2>20 DEF DeletionFails
    <3>2. Doing'
      BY <2>i, <3>1, CallEnds
    <3>3. \A d \in Call : call'[d].op = "remove" => call'[d] = call[d]
      BY <2>i, <3>1, NoRemoval DEF Ends, Free
    <3>4. QED
      BY <2>i, <3>1, <3>2, <3>3, SameRows DEF Inv, Ruled
  <2>21. CASE UNCHANGED projectVars
    <3>1. UNCHANGED <<db, call, pardoned>>
      BY <2>21 DEF projectVars
    <3>2. QED
      BY <2>i, <3>1, SameRows DEF Inv, Ruled, Doing
  <2>22. QED
    BY <1>2, <2>1, <2>2, <2>3, <2>4, <2>5, <2>6, <2>7, <2>8, <2>9, <2>10,
       <2>11, <2>12, <2>13, <2>14, <2>15, <2>16, <2>17, <2>18, <2>19,
       <2>20, <2>21 DEF ProjectsNext
<1>3. Inv => ChiefRemains
  BY DEF Ruled
<1>4. QED
  BY <1>1, <1>2, <1>3, PTL DEF ProjectsSpec

-----------------------------------------------------------------------------
\* The rows of the members, and who is a member of the organisation.
Rows == [User -> Seq(DOMAIN Level \ {"none"})]
Members == [User -> {"none", "user", "admin"}]

\* One member's rows are deleted, written or added to.
LEMMA RowsChange ==
  ASSUME NEW rows \in Rows, NEW u \in User, NEW role \in DOMAIN Level,
         role # "none"
  PROVE  /\ [rows EXCEPT ![u] = <<>>] \in Rows
         /\ [rows EXCEPT ![u] = <<role>>] \in Rows
         /\ [rows EXCEPT ![u] = Append(@, role)] \in Rows
<1>1. <<>> \in Seq(DOMAIN Level \ {"none"})
  OBVIOUS
<1>2. <<role>> \in Seq(DOMAIN Level \ {"none"})
  OBVIOUS
<1>3. rows[u] \in Seq(DOMAIN Level \ {"none"})
  BY DEF Rows
<1>4. Append(rows[u], role) \in Seq(DOMAIN Level \ {"none"})
  BY <1>3
<1>5. QED
  BY <1>1, <1>2, <1>4 DEF Rows

\* A field of the database changes.
LEMMA DatabaseChanges ==
  ASSUME NEW d \in Database
  PROVE  /\ d.rows \in Rows /\ d.org \in Members /\ d.accounts \subseteq User
         /\ \A x \in {"none", "live", "gone"} :
              [d EXCEPT !.project = x] \in Database
         /\ \A x \in Rows : [d EXCEPT !.rows = x] \in Database
         /\ \A x \in Members : [d EXCEPT !.org = x] \in Database
         /\ \A x \in SUBSET User : [d EXCEPT !.accounts = x] \in Database
         /\ \A x \in BOOLEAN : [d EXCEPT !.hook = x] \in Database
         /\ \A x \in BOOLEAN : [d EXCEPT !.flow = x] \in Database
BY DEF Database, Rows, Members

\* A member of the organisation stays one or becomes one.
LEMMA MembersChange ==
  ASSUME NEW org \in Members, NEW u \in User, NEW x \in {"user", "admin"}
  PROVE  /\ [org EXCEPT ![u] = x] \in Members
         /\ [org EXCEPT ![u] = IF @ = "none" THEN x ELSE @] \in Members
BY DEF Members

\* A call that begins is one that may be.
LEMMA CallIsKnown ==
  ASSUME NEW c \in Call, NEW u \in User, NEW s \in Seen,
         \/ DeleteOne(c, u, s) \/ DeleteOrg(c, u, s)
         \/ \E who \in User, role \in Role : AddUser(c, u, who, role, s)
         \/ \E who \in User : RemoveUser(c, u, who, s)
         \/ \E thing \in Thing : Store(c, u, thing, s)
  PROVE  \E r \in CallRecord : Starts(c, r)
<1>1. Free \in AnyCall /\ Free.op = "none"
  BY RoleLevels DEF Free, AnyCall
<1>2. CASE DeleteOne(c, u, s)
  <2>1. [Free EXCEPT !.op = "delete", !.step = "rows"] \in CallRecord
    BY RoleLevels DEF Free, CallRecord, AnyCall
  <2>2. QED
    BY <1>2, <2>1 DEF DeleteOne
<1>3. CASE DeleteOrg(c, u, s)
  <2>1. [Free EXCEPT !.op = "delete org", !.step = "rows"] \in CallRecord
    BY RoleLevels DEF Free, CallRecord, AnyCall
  <2>2. QED
    BY <1>3, <2>1 DEF DeleteOrg
<1>4. ASSUME NEW who \in User, NEW role \in Role, AddUser(c, u, who, role, s)
      PROVE  \E r \in CallRecord : Starts(c, r)
  <2>1. [Free EXCEPT !.op = "add", !.step = "act", !.who = who,
                     !.role = role] \in CallRecord
    BY RoleLevels, RolesAreKnown DEF Free, CallRecord, AnyCall
  <2>2. QED
    BY <1>4, <2>1 DEF AddUser
<1>5. ASSUME NEW who \in User, RemoveUser(c, u, who, s)
      PROVE  \E r \in CallRecord : Starts(c, r)
  <2>1. [Free EXCEPT !.op = "remove", !.step = "act", !.who = who,
                     !.fresh = (s = db /\ u \notin Super)] \in CallRecord
    BY RoleLevels DEF Free, CallRecord, AnyCall
  <2>2. QED
    BY <1>5, <2>1 DEF RemoveUser
<1>6. ASSUME NEW thing \in Thing, Store(c, u, thing, s)
      PROVE  \E r \in CallRecord : Starts(c, r)
  <2>1. [Free EXCEPT !.op = "store", !.step = "act",
                     !.what = thing] \in CallRecord
    BY RoleLevels DEF Free, CallRecord, AnyCall
  <2>2. QED
    BY <1>6, <2>1 DEF Store
<1>7. QED
  BY <1>2, <1>3, <1>4, <1>5, <1>6

\* What is stored for the project is stored or not.
LEMMA PutTyped ==
  ASSUME db \in Database, previous \in Database, etcdTasks \in BOOLEAN,
         NEW thing \in Thing, NEW there \in BOOLEAN, Put(thing, there)
  PROVE  db' \in Database /\ previous' \in Database /\ etcdTasks' \in BOOLEAN
<1>1. etcdTasks' \in BOOLEAN
  BY DEF Put
<1>2. \/ UNCHANGED <<db, previous>>
      \/ Commits([db EXCEPT !.hook = there])
      \/ Commits([db EXCEPT !.flow = there])
  BY DEF Put, Thing
<1>3. /\ [db EXCEPT !.hook = there] \in Database
      /\ [db EXCEPT !.flow = there] \in Database
  BY DatabaseChanges
<1>4. QED
  BY <1>1, <1>2, <1>3 DEF Commits

\* Every variable of a project keeps its type.
THEOREM ProjectsTypeCorrect == ProjectsSpec => []ProjectsTypeOK
<1> DEFINE Inv == ProjectsTypeOK /\ Doing
<1>1. ProjectsInit => Inv
  <2> SUFFICES ASSUME ProjectsInit PROVE Inv
    OBVIOUS
  <2>1. Doing
    BY FreeCall DEF ProjectsInit, Doing
  <2>2. [u \in User |-> <<>>] \in Rows
    BY DEF Rows
  <2>3. [u \in User |-> "none"] \in Members
    BY DEF Members
  <2>4. db \in Database
    BY <2>2, <2>3 DEF ProjectsInit, Database, Rows, Members
  <2>5. call \in [Call -> AnyCall]
    BY <2>1 DEF Doing, CallRecord
  <2>6. QED
    BY <2>1, <2>4, <2>5 DEF ProjectsInit, ProjectsTypeOK, AnyCall
<1>2. ASSUME Inv, [ProjectsNext]_projectVars PROVE Inv'
  <2>1. /\ db \in Database /\ previous \in Database /\ etcdTasks \in BOOLEAN
        /\ heldBy \subseteq Call \union {"leaked"} /\ Doing
        /\ pardoned \in BOOLEAN /\ late \subseteq Thing
    BY <1>2 DEF ProjectsTypeOK
  <2>2. ASSUME db' \in Database, previous' \in Database,
               etcdTasks' \in BOOLEAN,
               heldBy' \subseteq Call \union {"leaked"}, Doing',
               pardoned' \in BOOLEAN, late' \subseteq Thing
        PROVE  Inv'
    <3>1. call' \in [Call -> AnyCall]
      BY <2>2 DEF Doing, CallRecord
    <3>2. QED
      BY <2>2, <3>1 DEF ProjectsTypeOK, AnyCall
  <2> HIDE DEF Inv
  <2> USE <2>1
  <2>3. UNCHANGED call => Doing'
    BY DEF Doing
  <2>4. CASE LeakEnds
    BY <2>2, <2>3, <2>4 DEF LeakEnds
  <2>5. ASSUME NEW u \in User, NEW s \in Seen, CreateOrg(u, s) PROVE Inv'
    <3>1. [db.org EXCEPT ![u] = "admin"] \in Members
      BY DatabaseChanges, MembersChange
    <3>2. Commits([db EXCEPT !.org = [db.org EXCEPT ![u] = "admin"]])
      BY <2>5 DEF CreateOrg, Database
    <3>3. db' \in Database /\ previous' \in Database
      BY <3>1, <3>2, DatabaseChanges DEF Commits
    <3>4. QED
      BY <2>2, <2>3, <2>5, <3>3 DEF CreateOrg
  <2>6. ASSUME NEW u \in User, NEW s \in Seen, CreateProject(u, s) PROVE Inv'
    <3> DEFINE rows == [db.rows EXCEPT ![u] = <<"admin">>]
               org == [db.org EXCEPT ![u] = IF @ = "none" THEN "user" ELSE @]
               d == [[[db EXCEPT !.project = "live"] EXCEPT !.rows = rows]
                     EXCEPT !.org = org]
    <3>1. rows \in Rows /\ org \in Members
      BY DatabaseChanges, MembersChange, RowsChange, RoleLevels
    <3>2. Commits(d)
      BY <2>6 DEF CreateProject, Database
    <3> HIDE DEF rows, org
    <3>3. [db EXCEPT !.project = "live"] \in Database
      BY DatabaseChanges
    <3>4. [[db EXCEPT !.project = "live"] EXCEPT !.rows = rows] \in Database
      BY <3>1, <3>3, DatabaseChanges
    <3>5. d \in Database
      BY <3>1, <3>4, DatabaseChanges
    <3> HIDE DEF d
    <3>6. db' \in Database /\ previous' \in Database
      BY <3>2, <3>5 DEF Commits
    <3>7. QED
      BY <2>2, <2>3, <2>6, <3>6 DEF CreateProject
  <2>7. ASSUME NEW u \in User, NEW s \in Seen, NEW who \in User,
               DeleteUser(u, who, s)
        PROVE  Inv'
    <3>1. Doing'
      BY <2>7, Outdates DEF DeleteUser, Doing
    <3>2. db.accounts \ {who} \subseteq User
      BY DatabaseChanges
    <3>3. Commits([db EXCEPT !.accounts = db.accounts \ {who}])
      BY <2>7 DEF DeleteUser, Database
    <3>4. db' \in Database /\ previous' \in Database
      BY <3>2, <3>3, DatabaseChanges DEF Commits
    <3>5. QED
      BY <2>2, <2>7, <3>1, <3>4 DEF DeleteUser
  <2>8. ASSUME NEW u \in User, NEW s \in Seen, NEW thing \in Thing,
               DropThing(u, thing, s) \/ DropWorkflowTask(u, s)
        PROVE  Inv'
    <3>1. \E x \in Thing : Put(x, FALSE)
      BY <2>8 DEF DropThing, DropWorkflowTask, Thing
    <3>2. /\ db' \in Database /\ previous' \in Database
          /\ etcdTasks' \in BOOLEAN
      BY <3>1, PutTyped
    <3>3. UNCHANGED <<heldBy, call, pardoned, late>>
      BY <2>8 DEF DropThing, DropWorkflowTask
    <3>4. QED
      BY <2>2, <2>3, <3>2, <3>3
  <2>9. ASSUME NEW c \in Call, NEW r \in CallRecord, Starts(c, r) PROVE Inv'
    <3>1. Doing'
      BY <2>9, OneCall DEF Starts
    <3>2. QED
      BY <2>2, <2>9, <3>1 DEF Starts
  <2>10. ASSUME NEW c \in Call, NEW s \in Seen, CreateProjectRelevance(c, s)
         PROVE  Inv'
    <3> DEFINE who == call[c].who
               role == call[c].role
               rows == [db.rows EXCEPT ![who] = Append(@, role)]
               org == [db.org EXCEPT ![who] = IF @ = "none" THEN "user" ELSE @]
               d == [[db EXCEPT !.rows = rows] EXCEPT !.org = org]
    <3>1. Doing'
      BY <2>10, CallEnds DEF CreateProjectRelevance
    <3>2. who \in User /\ role \in DOMAIN Level /\ role # "none"
      BY <2>10 DEF CreateProjectRelevance, Doing, CallRecord, AnyCall
    <3>3. Commits(d) \/ UNCHANGED <<db, previous>>
      BY <2>10 DEF CreateProjectRelevance, Database
    <3> HIDE DEF who, role
    <3>4. rows \in Rows /\ org \in Members
      BY <3>2, DatabaseChanges, MembersChange, RowsChange
    <3> HIDE DEF rows, org
    <3>5. [db EXCEPT !.rows = rows] \in Database
      BY <3>4, DatabaseChanges
    <3>6. d \in Database
      BY <3>4, <3>5, DatabaseChanges
    <3> HIDE DEF d
    <3>7. db' \in Database /\ previous' \in Database
      BY <3>3, <3>6 DEF Commits
    <3>8. QED
      BY <2>2, <2>10, <3>1, <3>7 DEF CreateProjectRelevance
  <2>11. ASSUME NEW c \in Call, DeleteProjectRelevance(c) PROVE Inv'
    <3> DEFINE rows == [db.rows EXCEPT ![call[c].who] = <<>>]
    <3>1. Doing'
      <4>1. [call EXCEPT ![c] = Free] \in [Call -> CallRecord]
        BY FreeCall DEF Doing
      <4>2. QED
        BY <2>11, <4>1, Outdates DEF DeleteProjectRelevance, Doing
    <3>2. rows \in Rows
      <4>1. db.rows \in Rows
        BY DatabaseChanges
      <4>2. <<>> \in Seq(DOMAIN Level \ {"none"})
        OBVIOUS
      <4>3. QED
        BY <4>1, <4>2 DEF Rows
    <3>3. Commits([db EXCEPT !.rows = rows])
      BY <2>11 DEF DeleteProjectRelevance, Database
    <3> HIDE DEF rows
    <3>4. db' \in Database /\ previous' \in Database
      BY <3>2, <3>3, DatabaseChanges DEF Commits
    <3>5. QED
      BY <2>2, <2>11, <3>1, <3>4 DEF DeleteProjectRelevance
  <2>12. ASSUME NEW c \in Call, Stores(c) PROVE Inv'
    <3>1. call[c].what \in Thing
      BY <2>12 DEF Stores, Doing, CallRecord
    <3>2. Put(call[c].what, TRUE)
      BY <2>12 DEF Stores
    <3>3. /\ db' \in Database /\ previous' \in Database
          /\ etcdTasks' \in BOOLEAN
      BY <3>1, <3>2, PutTyped
    <3>4. Doing' /\ late' \subseteq Thing
      BY <2>12, <3>1, CallEnds DEF Stores
    <3>5. QED
      BY <2>2, <2>12, <3>3, <3>4 DEF Stores
  <2>13. ASSUME NEW c \in Call, DeleteRows(c) PROVE Inv'
    <3>1. Doing'
      BY <2>13, CallGoesOn DEF DeleteRows
    <3>2. QED
      BY <2>2, <2>13, <3>1 DEF DeleteRows
  <2>14. ASSUME NEW c \in Call, NEW s \in Seen, CountWorkflowTasks(c, s)
         PROVE  Inv'
    <3>1. Doing' /\ late' \subseteq Thing
      BY <2>14, CallGoesOn DEF CountWorkflowTasks, Thing
    <3>2. QED
      BY <2>2, <2>14, <3>1 DEF CountWorkflowTasks
  <2>15. ASSUME NEW c \in Call, ListTasks(c) PROVE Inv'
    <3>1. Goes(c, "list", "clear") \/ Goes(c, "list", "commit")
      BY <2>15 DEF ListTasks
    <3>2. Doing'
      BY <3>1, CallGoesOn
    <3>3. QED
      BY <2>2, <2>15, <3>2 DEF ListTasks
  <2>16. ASSUME NEW c \in Call, ClearTasks(c) PROVE Inv'
    <3>1. Doing' /\ late' \subseteq Thing
      BY <2>16, CallGoesOn DEF ClearTasks
    <3>2. QED
      BY <2>2, <2>16, <3>1 DEF ClearTasks
  <2>17. ASSUME NEW c \in Call, CommitDeletion(c) PROVE Inv'
    <3> DEFINE d == [[db EXCEPT !.project = "gone"] EXCEPT !.hook = FALSE]
    <3>1. Doing' /\ late' \subseteq Thing
      BY <2>17, CallEnds DEF CommitDeletion
    <3>2. Commits(d)
      BY <2>17 DEF CommitDeletion, Database
    <3>3. [db EXCEPT !.project = "gone"] \in Database
      BY DatabaseChanges
    <3>4. d \in Database
      BY <3>3, DatabaseChanges
    <3> HIDE DEF d
    <3>5. db' \in Database /\ previous' \in Database
      BY <3>2, <3>4 DEF Commits
    <3>6. QED
      BY <2>2, <2>17, <3>1, <3>5 DEF CommitDeletion
  <2>18. ASSUME NEW c \in Call, DeletionFails(c) PROVE Inv'
    <3>1. Doing'
      BY <2>18, CallEnds DEF DeletionFails
    <3>2. QED
      BY <2>2, <2>18, <3>1 DEF DeletionFails
  <2>19. CASE UNCHANGED projectVars
    BY <2>2, <2>3, <2>19 DEF projectVars
  <2>20. ASSUME NEW c \in Call, NEW s \in Seen, NEW u \in User,
                \/ DeleteOne(c, u, s) \/ DeleteOrg(c, u, s)
                \/ \E who \in User, role \in Role :
                     AddUser(c, u, who, role, s)
                \/ \E who \in User : RemoveUser(c, u, who, s)
                \/ \E thing \in Thing : Store(c, u, thing, s)
         PROVE  Inv'
    BY <2>9, <2>20, CallIsKnown
  <2> HIDE <2>1
  <2>21. ASSUME NEW u \in User, NEW s \in Seen,
                \/ CreateOrg(u, s) \/ CreateProject(u, s)
                \/ \E who \in User : DeleteUser(u, who, s)
                \/ \E thing \in Thing : DropThing(u, thing, s)
                \/ DropWorkflowTask(u, s)
         PROVE  Inv'
    <3>1. CASE DropWorkflowTask(u, s)
      <4>1. "task" \in Thing
        BY DEF Thing
      <4>2. QED
        BY <2>8, <3>1, <4>1
    <3>2. QED
      BY <2>5, <2>6, <2>7, <2>8, <2>21, <3>1
  <2>22. ASSUME NEW c \in Call,
                \/ DeleteProjectRelevance(c) \/ Stores(c) \/ DeleteRows(c)
                \/ ListTasks(c) \/ ClearTasks(c) \/ CommitDeletion(c)
                \/ DeletionFails(c)
         PROVE  Inv'
    BY <2>11, <2>12, <2>13, <2>15, <2>16, <2>17, <2>18, <2>22
  <2>23. QED
    BY <1>2, <2>4, <2>10, <2>14, <2>19, <2>20, <2>21, <2>22 DEF ProjectsNext
<1>3. QED
  BY <1>1, <1>2, PTL DEF ProjectsSpec

-----------------------------------------------------------------------------
(***************************************************************************)
(* WorkflowEdit: DepsListed.  The strengthening looks at every set of rows *)
(* there is (in MySQL, on a late replica, in the hands of an edit): of each *)
(* list that was ever saved it has all rows or none, and each list is      *)
(* closed.                                                                 *)
(***************************************************************************)
Batch(A, b) == {r \in A : r.batch = b}

\* The two sets have the same rows of every list of which both have some.
Agree(A, B) == \A b : \/ Batch(A, b) = {} \/ Batch(B, b) = {}
                      \/ Batch(A, b) = Batch(B, b)
Whole(A) == \A b : Closed(Edges(Batch(A, b)))
Dated(A) == \A r \in A : r.batch \in 1..batch

\* The sets of rows there are.
Live == {wf.rows, older.rows} \union {job[j].del : j \in Job}
        \union {job[j].new : j \in Job}

Sound == /\ batch \in Nat
         /\ \A A \in Live : Whole(A) /\ Dated(A)
         /\ \A A, B \in Live : Agree(A, B)

\* What is needed of the types: the fields of the records.
HasJobFields(r) == {"del", "new"} \subseteq DOMAIN r
HasPlanFields(p) == "flow" \in DOMAIN p
HasFields(d) == "rows" \in DOMAIN d
Jobs == /\ job = [j \in Job |-> job[j]]
        /\ \A j \in Job : HasJobFields(job[j])
Plans == /\ plan = [n \in Office |-> plan[n]]
         /\ \A n \in Office : HasPlanFields(plan[n]) /\ Closed(plan[n].flow)
Workflows == HasFields(wf) /\ HasFields(older)

Kept == Sound /\ Jobs /\ Plans /\ Workflows

-----------------------------------------------------------------------------

\* The empty list of a workflow is closed.
LEMMA NothingIsClosed ==
  Closed({}) /\ Edges({}) = {} /\ \A b : Batch({}, b) = {}
BY DEF Closed, Edges, Batch

\* Lists that are each closed are closed together.
LEMMA WholeIsClosed ==
  ASSUME NEW A, Whole(A)
  PROVE  Closed(Edges(A))
<1>1. SUFFICES ASSUME NEW e \in Edges(A), e.dep # "none"
               PROVE  \E f \in Edges(A) : f.task = e.dep
  BY DEF Closed
<1>2. PICK r \in A : e = [task |-> r.task, dep |-> r.dep]
  BY DEF Edges
<1>3. e \in Edges(Batch(A, r.batch))
  BY <1>2 DEF Edges, Batch
<1>4. PICK f \in Edges(Batch(A, r.batch)) : f.task = e.dep
  BY <1>1, <1>3 DEF Whole, Closed
<1>5. f \in Edges(A)
  BY <1>4 DEF Edges, Batch
<1>6. QED
  BY <1>4, <1>5

\* An edit deletes whole lists and inserts one.
LEMMA Replaced ==
  ASSUME NEW A, NEW D, NEW N, NEW b, Agree(A, D), Agree(A, N)
  PROVE  Batch((A \ D) \union N, b) \in {{}, Batch(A, b), Batch(N, b)}
<1>1. CASE Batch(D, b) = {} /\ Batch(N, b) = {}
  <2>1. Batch((A \ D) \union N, b) = Batch(A, b)
    BY <1>1 DEF Batch
  <2>2. QED
    BY <2>1
<1>2. CASE Batch(D, b) = {} /\ Batch(A, b) = Batch(N, b)
  <2>1. Batch((A \ D) \union N, b) = Batch(N, b)
    BY <1>2 DEF Batch
  <2>2. QED
    BY <2>1
<1>3. CASE Batch(A, b) = {} \/ Batch(A, b) = Batch(D, b)
  <2>1. Batch((A \ D) \union N, b) = Batch(N, b)
    BY <1>3 DEF Batch
  <2>2. QED
    BY <2>1
<1>4. QED
  BY <1>1, <1>2, <1>3 DEF Agree

\* A step that makes no new set of rows.
LEMMA NothingWritten ==
  ASSUME Sound, batch' = batch, Live' \subseteq Live \union {{}}
  PROVE  Sound'
<1>1. \A A \in Live' : Whole(A) /\ Dated(A)'
  BY NothingIsClosed DEF Sound, Whole, Dated
<1>2. \A A, B \in Live' : Agree(A, B)
  BY NothingIsClosed DEF Sound, Agree
<1>3. QED
  BY <1>1, <1>2 DEF Sound

\* One job changes.
LEMMA OneJob ==
  ASSUME Jobs, NEW j \in Job, NEW r, HasJobFields(r),
         job' = [job EXCEPT ![j] = r]
  PROVE  /\ Jobs'
         /\ \A k \in Job : job'[k] = IF k = j THEN r ELSE job[k]
<1>1. \A k \in Job : job'[k] = IF k = j THEN r ELSE job[k]
  BY DEF Jobs
<1>2. job' = [k \in Job |-> job'[k]]
  BY DEF Jobs
<1>3. QED
  BY <1>1, <1>2 DEF Jobs

\* An edit that takes its next step keeps all lists closed if it takes up whole
\* ones.
LEMMA JobMoves ==
  ASSUME Kept, NEW j \in Job, NEW r, HasJobFields(r),
         job' = [job EXCEPT ![j] = r],
         r.del \in Live \union {{}}, r.new \in Live \union {{}},
         wf'.rows \in Live \union {{}}, older'.rows \in Live \union {{}},
         Workflows', batch' = batch, Plans'
  PROVE  Kept'
<1>1. /\ Jobs'
      /\ \A k \in Job : job'[k] = IF k = j THEN r ELSE job[k]
  BY OneJob DEF Kept
<1>2. Live' \subseteq Live \union {{}}
  BY <1>1 DEF Live
<1>3. QED
  BY <1>1, <1>2, NothingWritten DEF Kept

\* So does an edit that begins, and has read nothing yet,
LEMMA JobBegins ==
  ASSUME Kept, NEW j \in Job, NEW n, NEW op, NEW step, Begins(j, n, op, step)
  PROVE  Kept'
<1> DEFINE r == [NoJob EXCEPT !.op = op, !.step = step, !.center = n]
<1>1. HasJobFields(r) /\ r.del = {} /\ r.new = {}
  <2>1. HasJobFields(NoJob) /\ NoJob.del = {} /\ NoJob.new = {}
    BY DEF NoJob, HasJobFields
  <2>2. QED
    BY <2>1 DEF HasJobFields
<1>2. /\ job' = [job EXCEPT ![j] = r]
      /\ UNCHANGED <<wf, older, plan, batch>>
  BY DEF Begins
<1> HIDE DEF r
<1>3. Plans' /\ Workflows'
  BY <1>2 DEF Kept, Plans, Workflows
<1>4. wf.rows \in Live /\ older.rows \in Live
  BY DEF Live
<1>5. QED
  BY <1>1, <1>2, <1>3, <1>4, JobMoves

\* and one that ends.
LEMMA JobIsOver ==
  ASSUME Kept, NEW j \in Job, JobEnds(j), batch' = batch, Plans', Workflows',
         wf'.rows \in Live \union {{}}, older'.rows \in Live \union {{}}
  PROVE  Kept'
<1>1. HasJobFields(NoJob) /\ NoJob.del = {} /\ NoJob.new = {}
  BY DEF NoJob, HasJobFields
<1>2. QED
  BY <1>1, JobMoves DEF JobEnds

\* A runner's plan made of a closed list keeps the plans closed.
LEMMA PlanStored ==
  ASSUME Plans, NEW j \in Job, NEW p, HasPlanFields(p), Closed(p.flow),
         StorePlan(j, p)
  PROVE  Plans'
BY DEF Plans, StorePlan

\* What an edit has in its hands, also after its next step.
LEMMA JobHas ==
  ASSUME Jobs, NEW j \in Job
  PROVE  /\ HasJobFields(StepsOn(j))
         /\ StepsOn(j).del \in Live \union {{}}
         /\ StepsOn(j).new \in Live \union {{}}
<1>1. HasJobFields(NoJob) /\ NoJob.del = {} /\ NoJob.new = {}
  BY DEF NoJob, HasJobFields
<1> DEFINE r == [job[j] EXCEPT !.step = AfterRefresh(j), !.latest = 0]
<1>2. HasJobFields(r) /\ r.del = job[j].del /\ r.new = job[j].new
  <2>1. HasJobFields(job[j])
    BY DEF Jobs
  <2>2. QED
    BY <2>1 DEF HasJobFields
<1>3. StepsOn(j) = NoJob \/ StepsOn(j) = r
  BY DEF StepsOn
<1>4. job[j].del \in Live /\ job[j].new \in Live
  BY DEF Live
<1>5. QED
  BY <1>1, <1>2, <1>3, <1>4

\* What MySQL and its replica hold is what edits may take up.
LEMMA StoredRows == wf.rows \in Live /\ older.rows \in Live
BY DEF Live

\* The plan of a runner that has read nothing is closed.
LEMMA Unread ==
  /\ HasPlanFields(NoPlan) /\ Closed(NoPlan.flow)
  /\ HasPlanFields([NoPlan EXCEPT !.has = TRUE])
  /\ Closed([NoPlan EXCEPT !.has = TRUE].flow)
<1>1. HasPlanFields(NoPlan) /\ NoPlan.flow = {}
  BY DEF HasPlanFields, NoPlan
<1>2. /\ HasPlanFields([NoPlan EXCEPT !.has = TRUE])
      /\ [NoPlan EXCEPT !.has = TRUE].flow = NoPlan.flow
  BY <1>1 DEF HasPlanFields
<1>3. QED
  BY <1>1, <1>2, NothingIsClosed

\* A plan that is known to be there and keeps its list.
LEMMA PlanFound ==
  ASSUME NEW p, HasPlanFields(p)
  PROVE  /\ HasPlanFields([p EXCEPT !.has = TRUE])
         /\ [p EXCEPT !.has = TRUE].flow = p.flow
BY DEF HasPlanFields

-----------------------------------------------------------------------------
\* No task waits for one that is not in the workflow, in MySQL and in the plan
\* of every center, however edits, deletions and refreshes overlap, whatever
\* replica they read and wherever they fail (CreateWorkflowSchedulePlan,
\* RefreshPlanTasks, DeleteWorkflow).
THEOREM NoTaskWaitsForNone == EditSpec => []DepsListed
<1>1. EditInit => Kept
  <2> SUFFICES ASSUME EditInit PROVE Kept
    OBVIOUS
  <2>1. Jobs /\ \A j \in Job : job[j].del = {} /\ job[j].new = {}
    BY DEF EditInit, Jobs, NoJob, HasJobFields
  <2>2. Plans
    BY NothingIsClosed DEF EditInit, Plans, NoPlan, HasPlanFields
  <2>3. Workflows /\ wf.rows = {} /\ older.rows = {} /\ batch = 0
    BY DEF EditInit, Workflows, HasFields
  <2>4. Live \subseteq {{}}
    BY <2>1, <2>3 DEF Live
  <2>5. Sound
    BY <2>3, <2>4, NothingIsClosed DEF Sound, Whole, Dated, Agree
  <2>6. QED
    BY <2>1, <2>2, <2>3, <2>5 DEF Kept
<1>2. ASSUME Kept, [EditNext]_editVars PROVE Kept'
  <2> USE <1>2
  <2>1. CASE OrphansEnd
    <3>1. UNCHANGED <<wf, older, plan, job, batch>>
      BY <2>1 DEF OrphansEnd
    <3>2. Live' = Live /\ Jobs' /\ Plans' /\ Workflows'
      BY <3>1 DEF Kept, Live, Jobs, Plans, Workflows
    <3>3. QED
      BY <3>1, <3>2, NothingWritten DEF Kept
  <2>2. ASSUME NEW j \in Job, NEW s \in Replica, ReadLatest(j, s) PROVE Kept'
    <3>1. UNCHANGED <<wf, older, batch>> /\ Workflows'
      BY <2>2 DEF ReadLatest, Kept, Workflows
    <3> DEFINE n == job[j].center
               latest == LatestCreateTime(s)
               p == IF latest = 0 THEN [NoPlan EXCEPT !.has = TRUE]
                    ELSE [plan[n] EXCEPT !.has = TRUE]
               r == [job[j] EXCEPT !.step = "list", !.latest = latest]
    <3>2. CASE job' = [job EXCEPT ![j] = StepsOn(j)] /\ StorePlan(j, p)
      <4>1. CASE n \in Office
        <5>1. HasPlanFields(p) /\ Closed(p.flow)
          BY <4>1, Unread, PlanFound DEF Kept, Plans
        <5>2. QED
          BY <3>1, <3>2, <5>1, PlanStored, JobHas, StoredRows, JobMoves
             DEF Kept
      <4>2. CASE n \notin Office
        <5>1. plan' = plan
          BY <3>2, <4>2 DEF StorePlan, Kept, Plans
        <5>2. Plans'
          BY <5>1 DEF Kept, Plans
        <5>3. QED
          BY <3>1, <3>2, <5>2, JobHas, StoredRows, JobMoves DEF Kept
      <4>3. QED
        BY <4>1, <4>2
    <3>3. CASE job' = [job EXCEPT ![j].step = "list", ![j].latest = latest]
               /\ UNCHANGED plan
      <4>1. HasJobFields(r) /\ r.del = job[j].del /\ r.new = job[j].new
        <5>1. HasJobFields(job[j])
          BY DEF Kept, Jobs
        <5>2. QED
          BY <5>1 DEF HasJobFields
      <4>2. job' = [job EXCEPT ![j] = r] /\ Plans'
        BY <3>3 DEF Kept, Jobs, Plans
      <4>3. r.del \in Live /\ r.new \in Live
        BY <4>1 DEF Live
      <4> HIDE DEF r
      <4>4. QED
        BY <3>1, <4>1, <4>2, <4>3, StoredRows, JobMoves
    <3>4. QED
      BY <2>2, <3>2, <3>3 DEF ReadLatest
  <2>3. ASSUME NEW j \in Job, NEW s \in Replica, ReadRows(j, s) PROVE Kept'
    <3>1. UNCHANGED <<wf, older, batch>> /\ Workflows'
      BY <2>3 DEF ReadRows, Kept, Workflows
    <3> DEFINE p == [has |-> TRUE, flow |-> Edges(s.rows),
                     time |-> job[j].latest]
    <3>2. s.rows \in Live
      BY StoredRows DEF Replica
    <3>3. Closed(Edges(s.rows))
      BY <3>2, WholeIsClosed DEF Kept, Sound
    <3>4. HasPlanFields(p) /\ Closed(p.flow)
      BY <3>3 DEF HasPlanFields
    <3>5. StorePlan(j, p) /\ job' = [job EXCEPT ![j] = StepsOn(j)]
      BY <2>3 DEF ReadRows
    <3> HIDE DEF p
    <3>6. QED
      BY <3>1, <3>4, <3>5, PlanStored, JobHas, StoredRows, JobMoves DEF Kept
  <2>4. ASSUME NEW j \in Job, NEW n \in Office, NEW s \in Replica,
               \/ Schedule(j, n) \/ CreateWorkflow(j, n) \/ Refresh(j, n, s)
               \/ UpdateWorkflow(j, n, s) \/ DeleteWorkflow(j, n, s)
               \/ EditPlan(j, n, s)
        PROVE  Kept'
    <3>1. \E op, step : Begins(j, n, op, step)
      BY <2>4 DEF Schedule, CreateWorkflow, Refresh, UpdateWorkflow,
                  DeleteWorkflow, EditPlan
    <3>2. QED
      BY <3>1, JobBegins
  <2>5. ASSUME NEW j \in Job, DelPlan(j) PROVE Kept'
    <3> DEFINE r == [job[j] EXCEPT !.step = "commit"]
    <3>1. HasJobFields(r) /\ r.del = job[j].del /\ r.new = job[j].new
      <4>1. HasJobFields(job[j])
        BY DEF Kept, Jobs
      <4>2. QED
        BY <4>1 DEF HasJobFields
    <3>2. job' = [job EXCEPT ![j] = r] /\ UNCHANGED <<wf, older, batch>>
      BY <2>5 DEF DelPlan
    <3>3. r.del \in Live /\ r.new \in Live
      BY <3>1 DEF Live
    <3> HIDE DEF r
    <3>4. Plans' /\ Workflows'
      BY <2>5, Unread DEF DelPlan, Kept, Plans, Workflows
    <3>5. QED
      BY <3>1, <3>2, <3>3, <3>4, StoredRows, JobMoves
  <2>6. ASSUME NEW j \in Job, StopFails(j) \/ JobFails(j) PROVE Kept'
    <3>1. JobEnds(j) /\ UNCHANGED <<wf, older, plan, batch>>
      BY <2>6 DEF StopFails, JobFails
    <3>2. Plans' /\ Workflows'
      BY <3>1 DEF Kept, Plans, Workflows
    <3>3. QED
      BY <3>1, <3>2, StoredRows, JobIsOver
  <2>7. ASSUME NEW j \in Job, CommitWorkflow(j) PROVE Kept'
    <3>1. JobEnds(j) /\ UNCHANGED <<plan, batch>> /\ Plans'
      BY <2>7 DEF CommitWorkflow, Kept, Plans
    <3>2. \/ UNCHANGED <<wf, older>>
          \/ older' = wf /\ wf' = [wf EXCEPT !.there = TRUE]
          \/ older' = wf /\ wf' = [there |-> FALSE, rows |-> {}]
      BY <2>7 DEF CommitWorkflow, Saves
    <3>3. /\ Workflows' /\ wf'.rows \in {wf.rows, {}}
          /\ older'.rows \in {wf.rows, older.rows}
      BY <3>2 DEF Kept, Workflows, HasFields
    <3>4. QED
      BY <3>1, <3>3, StoredRows, JobIsOver
  <2>8. ASSUME NEW j \in Job, CommitPlan(j) PROVE Kept'
    <3> DEFINE A == wf.rows
               N == job[j].new
               new == (A \ job[j].del) \union N
    <3>1. /\ JobEnds(j) /\ UNCHANGED <<plan, batch>> /\ Plans'
          /\ older' = wf /\ wf' = [wf EXCEPT !.rows = new]
      BY <2>8 DEF CommitPlan, Saves, Kept, Plans
    <3>2. Workflows' /\ wf'.rows = new /\ older'.rows = A
      BY <3>1 DEF Kept, Workflows, HasFields
    <3>3. A \in Live /\ job[j].del \in Live /\ N \in Live
      BY DEF Live
    <3>4. \A b : Batch(new, b) \in {{}, Batch(A, b), Batch(N, b)}
      BY <3>3, Replaced DEF Kept, Sound
    <3>5. Dated(new)
      BY <3>3 DEF Kept, Sound, Dated
    <3> HIDE DEF A, N, new
    <3>6. Whole(new)
      BY <3>3, <3>4, NothingIsClosed DEF Kept, Sound, Whole
    <3>7. \A B \in Live : Agree(new, B) /\ Agree(B, new)
      BY <3>3, <3>4 DEF Kept, Sound, Agree
    <3>8. /\ Agree(new, new)
          /\ \A B : Agree(new, {}) /\ Agree({}, B) /\ Agree(B, {})
      BY NothingIsClosed DEF Agree
    <3>9. HasJobFields(NoJob) /\ NoJob.del = {} /\ NoJob.new = {}
      BY DEF NoJob, HasJobFields
    <3>10. /\ Jobs'
           /\ \A k \in Job : job'[k] = IF k = j THEN NoJob ELSE job[k]
      BY <3>1, <3>9, OneJob DEF JobEnds, Kept
    <3>11. Live' \subseteq Live \union {{}, new}
      BY <3>2, <3>3, <3>9, <3>10 DEF Live
    <3>12. \A B \in Live' : Whole(B) /\ Dated(B)'
      BY <3>1, <3>5, <3>6, <3>11, NothingIsClosed DEF Kept, Sound, Whole, Dated
    <3>13. \A B, D \in Live' : Agree(B, D)
      BY <3>7, <3>8, <3>11 DEF Kept, Sound
    <3>14. QED
      BY <3>1, <3>2, <3>10, <3>12, <3>13 DEF Kept, Sound
  <2>9. ASSUME NEW j \in Job, NEW edges \in List, NEW s \in Replica,
               NEW time \in 1..MaxSeconds, WritePlan(j, edges, s, time)
        PROVE  Kept'
    <3> DEFINE new == Stamped(edges, time)
               r == [job[j] EXCEPT !.step = "latest", !.del = s.rows,
                                   !.new = new]
    <3>1. /\ HasJobFields(r) /\ r.del = s.rows /\ r.new = new
          /\ job' = [job EXCEPT ![j] = r]
      <4>1. HasJobFields(r) /\ r.del = s.rows /\ r.new = new
        <5>1. HasJobFields(job[j])
          BY DEF Kept, Jobs
        <5>2. QED
          BY <5>1 DEF HasJobFields
      <4>2. job' = [job EXCEPT ![j] = r]
        BY <2>9 DEF WritePlan
      <4>3. QED
        BY <4>1, <4>2
    <3>2. /\ batch' = batch + 1 /\ ValidList(edges)
          /\ UNCHANGED <<wf, older, plan>> /\ Plans' /\ Workflows'
      BY <2>9 DEF WritePlan, Kept, Plans, Workflows
    <3> HIDE DEF r
    <3>3. /\ Jobs'
          /\ \A k \in Job : job'[k] = IF k = j THEN r ELSE job[k]
      BY <3>1, OneJob DEF Kept
    <3>4. s.rows \in Live
      BY StoredRows DEF Replica
    <3>5. Live' \subseteq Live \union {new}
      BY <3>1, <3>2, <3>3, <3>4 DEF Live
    <3>6. batch \in Nat /\ batch + 1 \notin 1..batch
      BY DEF Kept, Sound
    <3>7. \A q \in new : q.batch = batch + 1
      BY DEF Stamped
    <3>8. /\ \A b : b # batch + 1 => Batch(new, b) = {}
          /\ Batch(new, batch + 1) = new
      BY <3>7 DEF Batch
    <3>9. \A B \in Live : Batch(B, batch + 1) = {}
      BY <3>6 DEF Kept, Sound, Dated, Batch
    <3>10. Closed(Edges(new))
      <4>1. SUFFICES ASSUME NEW e \in Edges(new), e.dep # "none"
                     PROVE  \E f \in Edges(new) : f.task = e.dep
        BY DEF Closed
      <4>2. PICK q \in new : e = [task |-> q.task, dep |-> q.dep]
        BY DEF Edges
      <4>3. PICK d \in edges : q = [task |-> d.task, dep |-> d.dep,
                                   batch |-> batch + 1, at |-> time]
        BY DEF Stamped
      <4>4. d.dep # "none" /\ e.dep = d.dep
        BY <4>1, <4>2, <4>3
      <4>5. PICK g \in edges : g.task = d.dep
        BY <3>2, <4>4 DEF ValidList
      <4> DEFINE h == [task |-> g.task, dep |-> g.dep,
                       batch |-> batch + 1, at |-> time]
      <4>6. h \in new
        BY DEF Stamped
      <4>7. [task |-> h.task, dep |-> h.dep] \in Edges(new)
        BY <4>6 DEF Edges
      <4>8. QED
        BY <4>4, <4>5, <4>7
    <3> HIDE DEF new
    <3>11. Whole(new)
      BY <3>8, <3>10, NothingIsClosed DEF Whole
    <3>12. \A B \in Live : Agree(new, B) /\ Agree(B, new)
      BY <3>8, <3>9 DEF Agree
    <3>13. Agree(new, new)
      BY DEF Agree
    <3>14. \A B \in Live : Dated(B)'
      BY <3>2, <3>6 DEF Kept, Sound, Dated
    <3>15. \A B \in {new} : Dated(B)'
      <4>1. batch + 1 \in 1..batch'
        BY <3>2, <3>6
      <4>2. QED
        BY <3>7, <4>1 DEF Dated
    <3>16. batch' \in Nat
      BY <3>2, <3>6
    <3>17. \A B \in Live' : Whole(B) /\ Dated(B)'
      BY <3>5, <3>11, <3>14, <3>15 DEF Kept, Sound
    <3>18. \A B, D \in Live' : Agree(B, D)
      BY <3>5, <3>12, <3>13 DEF Kept, Sound
    <3>19. QED
      BY <3>2, <3>3, <3>16, <3>17, <3>18 DEF Kept, Sound
  <2>10. CASE UNCHANGED editVars
    <3>1. UNCHANGED <<wf, older, plan, job, batch>>
      BY <2>10 DEF editVars
    <3>2. Live' = Live /\ Jobs' /\ Plans' /\ Workflows'
      BY <3>1 DEF Kept, Live, Jobs, Plans, Workflows
    <3>3. QED
      BY <3>1, <3>2, NothingWritten DEF Kept
  <2>11. QED
    <3>1. wf \in Replica
      BY DEF Replica
    <3>2. QED
      BY <2>1, <2>2, <2>3, <2>4, <2>5, <2>6, <2>7, <2>8, <2>9, <2>10, <3>1
         DEF EditNext
<1>3. Kept => DepsListed
  BY WholeIsClosed, StoredRows DEF Kept, Sound, Plans, DepsListed
<1>4. QED
  BY <1>1, <1>2, <1>3, PTL DEF EditSpec

-----------------------------------------------------------------------------
\* A set of natural numbers has a least element.
LEMMA Least ==
  ASSUME NEW S, S \subseteq Nat, S # {}
  PROVE  \E x \in S : \A y \in S : x <= y
<1> DEFINE Less == OpToRel(<, Nat)
<1>1. PICK x \in S : \A y \in S : ~ (<<y, x>> \in Less)
  <2> HIDE DEF Less
  <2>1. IsWellFoundedOn(Less, Nat)
    BY NatLessThanWellFounded DEF Less
  <2>2. QED
    BY <2>1, WFMin
<1>2. \A y \in S : /\ <<y, x>> \in Nat \X Nat
                   /\ <<y, x>>[1] = y /\ <<y, x>>[2] = x
  OBVIOUS
<1>3. \A y \in S : ~ (y < x)
  BY <1>1, <1>2 DEF OpToRel
<1>4. QED
  BY <1>3

\* A set of numbers up to m has a greatest.
LEMMA Greatest ==
  ASSUME NEW m \in Nat, NEW S, S \subseteq 0..m, S # {}
  PROVE  \E x \in S : \A y \in S : y <= x
<1> DEFINE T == {n \in Nat : \E x \in S : n = m - x}
<1>1. \A x \in S : m - x \in T
  OBVIOUS
<1>2. T \subseteq Nat /\ T # {}
  BY <1>1
<1>3. PICK t \in T : \A y \in T : t <= y
  <2> HIDE DEF T
  <2> QED
    BY <1>2, Least
<1>4. PICK x \in S : t = m - x
  OBVIOUS
<1>5. \A y \in S : t <= m - y
  BY <1>1, <1>3
<1>6. QED
  BY <1>4, <1>5

\* The time of the latest row.
LEMMA LatestIsATime ==
  ASSUME NEW s, s.rows \subseteq PlanRow
  PROVE  LatestCreateTime(s) \in 0..MaxSeconds
<1> DEFINE T == {r.at : r \in s.rows}
<1>1. T \subseteq 0..MaxSeconds
  BY DEF PlanRow
<1>2. CASE s.rows = {}
  BY <1>2, EditBounds DEF LatestCreateTime
<1>3. CASE s.rows # {}
  <2>1. T # {}
    BY <1>3
  <2>2. PICK x \in T : \A y \in T : y <= x
    <3> HIDE DEF T
    <3> QED
      BY <1>1, <2>1, Greatest, EditBounds
  <2>3. \A r \in s.rows : r.at <= x
    BY <2>2
  <2>4. LatestCreateTime(s) \in T
    BY <1>3, <2>2, <2>3, Zenon DEF LatestCreateTime
  <2>5. QED
    BY <1>1, <2>4
<1>4. QED
  BY <1>2, <1>3

\* The dependencies of rows.
LEMMA EdgesOfRows ==
  ASSUME NEW rows, rows \subseteq PlanRow
  PROVE  Edges(rows) \subseteq Edge
BY DEF Edges, Edge, PlanRow

\* A runner's plan.
PlanRecord == [has : BOOLEAN, flow : SUBSET Edge, time : 0..MaxSeconds]

\* A plan is put in its place.
LEMMA PlanTypeStored ==
  ASSUME EditTypeOK, NEW j \in Job, NEW p,
         job[j].center \in Office => p \in PlanRecord, StorePlan(j, p)
  PROVE  plan' \in [Office -> PlanRecord]
BY DEF EditTypeOK, StorePlan, PlanRecord

\* An idle job, and one that goes on after a refresh.
LEMMA JobGoesOn ==
  ASSUME EditTypeOK, NEW j \in Job
  PROVE  NoJob \in JobRecord /\ StepsOn(j) \in JobRecord
<1>1. NoJob \in JobRecord
  BY EditBounds DEF NoJob, JobRecord
<1>2. AfterRefresh(j) \in {"commit", "read", "none"}
  BY DEF AfterRefresh
<1>3. job[j] \in JobRecord
  BY DEF EditTypeOK
<1>4. ASSUME NEW r \in JobRecord, NEW step \in {"commit", "read", "none"},
             NEW time \in 0..MaxSeconds
      PROVE  [r EXCEPT !.step = step, !.latest = time] \in JobRecord
  BY <1>4 DEF JobRecord
<1>5. 0 \in 0..MaxSeconds
  BY EditBounds
<1>6. [job[j] EXCEPT !.step = AfterRefresh(j), !.latest = 0] \in JobRecord
  BY <1>2, <1>3, <1>4, <1>5
<1>7. QED
  BY <1>1, <1>6 DEF StepsOn

\* Every variable of a workflow's definition keeps its type.
THEOREM EditTypeCorrect == EditSpec => []EditTypeOK
<1>1. EditInit => EditTypeOK
  <2> SUFFICES ASSUME EditInit PROVE EditTypeOK
    OBVIOUS
  <2>1. NoJob \in JobRecord
    BY EditBounds DEF NoJob, JobRecord
  <2>2. NoPlan \in PlanRecord
    BY EditBounds DEF NoPlan, PlanRecord
  <2>3. QED
    BY <2>1, <2>2, EditBounds DEF EditInit, EditTypeOK, PlanRecord
<1>2. ASSUME EditTypeOK, [EditNext]_editVars PROVE EditTypeOK'
  <2> USE <1>2
  <2>1. /\ \A s \in Replica : s.there \in BOOLEAN /\ s.rows \subseteq PlanRow
        /\ job \in [Job -> JobRecord] /\ plan \in [Office -> PlanRecord]
        /\ \A j \in Job : /\ job[j].del \subseteq PlanRow
                          /\ job[j].new \subseteq PlanRow
                          /\ job[j].latest \in 0..MaxSeconds
    BY DEF EditTypeOK, Replica, PlanRecord, JobRecord
  <2>2. ASSUME UNCHANGED <<wf, older, plan, batch, second, orphaned>>,
               job' \in [Job -> JobRecord]
        PROVE  EditTypeOK'
    BY <2>2 DEF EditTypeOK
  <2>3. ASSUME UNCHANGED <<wf, older, batch, second, orphaned>>,
               job' \in [Job -> JobRecord], plan' \in [Office -> PlanRecord]
        PROVE  EditTypeOK'
    BY <2>3 DEF EditTypeOK, PlanRecord
  <2>4. CASE OrphansEnd
    BY <2>4 DEF OrphansEnd, EditTypeOK
  <2>5. ASSUME NEW j \in Job, NEW s \in Replica, ReadLatest(j, s)
        PROVE  EditTypeOK'
    <3> DEFINE n == job[j].center
               latest == LatestCreateTime(s)
               p == IF latest = 0 THEN [NoPlan EXCEPT !.has = TRUE]
                    ELSE [plan[n] EXCEPT !.has = TRUE]
               r == [job[j] EXCEPT !.step = "list", !.latest = latest]
    <3>1. latest \in 0..MaxSeconds
      BY <2>1, LatestIsATime
    <3>2. UNCHANGED <<wf, older, batch, second, orphaned>>
      BY <2>5 DEF ReadLatest
    <3>3. CASE job' = [job EXCEPT ![j] = StepsOn(j)] /\ StorePlan(j, p)
      <4>1. n \in Office => p \in PlanRecord
        <5>1. NoPlan \in PlanRecord
          BY EditBounds DEF NoPlan, PlanRecord
        <5>2. ASSUME NEW q \in PlanRecord
              PROVE  [q EXCEPT !.has = TRUE] \in PlanRecord
          BY DEF PlanRecord
        <5>3. n \in Office => plan[n] \in PlanRecord
          BY <2>1
        <5> HIDE DEF n, latest
        <5>4. QED
          BY <5>1, <5>2, <5>3
      <4> HIDE DEF p
      <4>2. plan' \in [Office -> PlanRecord]
        BY <3>3, <4>1, PlanTypeStored
      <4>3. job' \in [Job -> JobRecord]
        BY <2>1, <3>3, JobGoesOn
      <4>4. QED
        BY <2>3, <3>2, <4>2, <4>3
    <3>4. CASE job' = [job EXCEPT ![j].step = "list", ![j].latest = latest]
               /\ UNCHANGED plan
      <4>1. job[j] \in JobRecord
        BY <2>1
      <4> HIDE DEF latest
      <4>2. r \in JobRecord
        BY <3>1, <4>1 DEF JobRecord
      <4>3. job' = [job EXCEPT ![j] = r]
        BY <2>1, <3>4
      <4> HIDE DEF r
      <4>4. job' \in [Job -> JobRecord]
        BY <2>1, <4>2, <4>3
      <4>5. QED
        BY <2>2, <3>2, <3>4, <4>4
    <3>5. QED
      BY <2>5, <3>3, <3>4 DEF ReadLatest
  <2>6. ASSUME NEW j \in Job, NEW s \in Replica, ReadRows(j, s)
        PROVE  EditTypeOK'
    <3> DEFINE p == [has |-> TRUE, flow |-> Edges(s.rows),
                     time |-> job[j].latest]
    <3>1. p \in PlanRecord
      BY <2>1, EdgesOfRows DEF PlanRecord
    <3>2. StorePlan(j, p) /\ job' = [job EXCEPT ![j] = StepsOn(j)]
      BY <2>6 DEF ReadRows
    <3> HIDE DEF p
    <3>3. plan' \in [Office -> PlanRecord]
      BY <3>1, <3>2, PlanTypeStored
    <3>4. job' \in [Job -> JobRecord]
      BY <2>1, <3>2, JobGoesOn
    <3>5. QED
      BY <2>3, <2>6, <3>3, <3>4 DEF ReadRows
  <2>7. ASSUME NEW j \in Job, NEW n \in Office, NEW s \in Replica,
               \/ Schedule(j, n) \/ CreateWorkflow(j, n) \/ Refresh(j, n, s)
               \/ UpdateWorkflow(j, n, s) \/ DeleteWorkflow(j, n, s)
               \/ EditPlan(j, n, s)
        PROVE  EditTypeOK'
    <3>1. \E op \in {"schedule", "create", "refresh", "update", "delete",
                     "edit"},
             step \in {"latest", "stop", "read"} : Begins(j, n, op, step)
      BY <2>7 DEF Schedule, CreateWorkflow, Refresh, UpdateWorkflow,
                  DeleteWorkflow, EditPlan
    <3>2. PICK op \in {"schedule", "create", "refresh", "update", "delete",
                       "edit"},
               step \in {"latest", "stop", "read"} : Begins(j, n, op, step)
      BY <3>1
    <3> DEFINE r == [NoJob EXCEPT !.op = op, !.step = step, !.center = n]
    <3>3. r \in JobRecord
      <4>1. ASSUME NEW q \in JobRecord
            PROVE  [q EXCEPT !.op = op, !.step = step, !.center = n]
                      \in JobRecord
        BY DEF JobRecord
      <4>2. NoJob \in JobRecord
        BY JobGoesOn
      <4>3. QED
        BY <4>1, <4>2
    <3>4. job' = [job EXCEPT ![j] = r]
      BY <3>2 DEF Begins
    <3> HIDE DEF r
    <3>5. job' \in [Job -> JobRecord]
      BY <2>1, <3>3, <3>4
    <3>6. QED
      BY <2>2, <3>2, <3>5 DEF Begins
  <2>8. ASSUME NEW j \in Job, DelPlan(j) PROVE EditTypeOK'
    <3> DEFINE r == [job[j] EXCEPT !.step = "commit"]
    <3>1. job[j] \in JobRecord
      BY <2>1
    <3>2. r \in JobRecord
      BY <3>1 DEF JobRecord
    <3>3. job' = [job EXCEPT ![j] = r]
      BY <2>8 DEF DelPlan
    <3> HIDE DEF r
    <3>4. job' \in [Job -> JobRecord]
      BY <2>1, <3>2, <3>3
    <3>5. NoPlan \in PlanRecord
      BY EditBounds DEF NoPlan, PlanRecord
    <3>6. plan' \in [Office -> PlanRecord]
      BY <2>1, <2>8, <3>5 DEF DelPlan
    <3>7. QED
      BY <2>3, <2>8, <3>4, <3>6 DEF DelPlan
  <2>9. ASSUME NEW j \in Job, JobFails(j) PROVE EditTypeOK'
    <3>1. job' \in [Job -> JobRecord]
      BY <2>1, <2>9, JobGoesOn DEF JobFails, JobEnds
    <3>2. QED
      BY <2>2, <2>9, <3>1 DEF JobFails
  <2>10. ASSUME NEW j \in Job, StopFails(j) PROVE EditTypeOK'
    <3>1. job' \in [Job -> JobRecord]
      BY <2>1, <2>10, JobGoesOn DEF StopFails, JobEnds
    <3>2. /\ orphaned' \subseteq PlanRow
          /\ UNCHANGED <<wf, older, plan, batch, second>>
      BY <2>1, <2>10 DEF StopFails, EditTypeOK
    <3>3. QED
      BY <3>1, <3>2 DEF EditTypeOK
  <2>11. ASSUME NEW j \in Job, CommitWorkflow(j) PROVE EditTypeOK'
    <3>1. job' \in [Job -> JobRecord]
      BY <2>1, <2>11, JobGoesOn DEF CommitWorkflow, JobEnds
    <3>2. \/ UNCHANGED <<wf, older>>
          \/ older' = wf /\ wf' = [wf EXCEPT !.there = TRUE]
          \/ older' = wf /\ wf' = [there |-> FALSE, rows |-> {}]
      BY <2>11 DEF CommitWorkflow, Saves
    <3>3. {wf', older'} \subseteq [there : BOOLEAN, rows : SUBSET PlanRow]
      <4>1. CASE UNCHANGED <<wf, older>>
        BY <4>1 DEF EditTypeOK
      <4>2. CASE older' = wf /\ wf' = [wf EXCEPT !.there = TRUE]
        BY <4>2 DEF EditTypeOK
      <4>3. CASE older' = wf /\ wf' = [there |-> FALSE, rows |-> {}]
        BY <4>3 DEF EditTypeOK
      <4>4. QED
        BY <3>2, <4>1, <4>2, <4>3
    <3>4. QED
      BY <2>11, <3>1, <3>3 DEF CommitWorkflow, EditTypeOK
  <2>12. ASSUME NEW j \in Job, CommitPlan(j) PROVE EditTypeOK'
    <3>1. job' \in [Job -> JobRecord]
      BY <2>1, <2>12, JobGoesOn DEF CommitPlan, JobEnds
    <3> DEFINE new == (wf.rows \ job[j].del) \union job[j].new
    <3>2. older' = wf /\ wf' = [wf EXCEPT !.rows = new]
      BY <2>12 DEF CommitPlan, Saves
    <3>3. new \subseteq PlanRow
      BY <2>1 DEF Replica
    <3> HIDE DEF new
    <3>4. {wf', older'} \subseteq [there : BOOLEAN, rows : SUBSET PlanRow]
      BY <3>2, <3>3 DEF EditTypeOK
    <3>5. QED
      BY <2>12, <3>1, <3>4 DEF CommitPlan, EditTypeOK
  <2>13. ASSUME NEW j \in Job, NEW edges \in List, NEW s \in Replica,
                NEW time \in 1..MaxSeconds, WritePlan(j, edges, s, time)
         PROVE  EditTypeOK'
    <3> DEFINE new == Stamped(edges, time)
               r == [job[j] EXCEPT !.step = "latest", !.del = s.rows,
                                   !.new = new]
    <3>1. batch \in 0..MaxBatches /\ batch < MaxBatches
      BY <2>13 DEF WritePlan, EditTypeOK
    <3>2. batch + 1 \in 1..MaxBatches
      BY <3>1, EditBounds
    <3>3. \A e \in edges : e.task \in Node /\ e.dep \in Dependency
      BY ListsAreEdges DEF Edge
    <3>4. new \subseteq PlanRow
      BY <3>2, <3>3 DEF Stamped, PlanRow
    <3> HIDE DEF new
    <3>5. job[j] \in JobRecord
      BY <2>1
    <3>6. r \in JobRecord
      BY <2>1, <3>4, <3>5 DEF JobRecord
    <3>7. job' = [job EXCEPT ![j] = r]
      BY <2>13 DEF WritePlan, new
    <3> HIDE DEF r
    <3>8. job' \in [Job -> JobRecord]
      BY <2>1, <3>6, <3>7
    <3>9. batch' \in 0..MaxBatches /\ second' \in 1..MaxSeconds
      BY <2>13, <3>2 DEF WritePlan
    <3>10. UNCHANGED <<wf, older, plan, orphaned>>
      BY <2>13 DEF WritePlan
    <3>11. QED
      BY <3>8, <3>9, <3>10 DEF EditTypeOK
  <2>14. CASE UNCHANGED editVars
    BY <2>14 DEF editVars, EditTypeOK
  <2>15. QED
    <3>1. wf \in Replica
      BY DEF Replica
    <3>2. QED
      BY <2>4, <2>5, <2>6, <2>7, <2>8, <2>9, <2>10, <2>11, <2>12, <2>13,
         <2>14, <3>1 DEF EditNext
<1>3. QED
  BY <1>1, <1>2, PTL DEF EditSpec

-----------------------------------------------------------------------------
(***************************************************************************)
(* WorkflowMembers.                                                        *)
(***************************************************************************)
\* Every variable keeps its type: the tables and the calls under way.
THEOREM MemberTypeCorrect == MemberSpec => []MemberTypeOK
<1> USE MemberAssumption DEF MemberTypeOK
<1>1. MemberInit => MemberTypeOK
  BY DEF MemberInit, NoRequest
<1>2. ASSUME MemberTypeOK, [MemberNext]_memberVars PROVE MemberTypeOK'
  <2> USE <1>2
  <2>1. ASSUME NEW r \in Request, NEW p \in Person, NEW who \in Person,
               AskToAdd(r, p, who)
        PROVE MemberTypeOK'
    BY <2>1 DEF AskToAdd, Asks
  <2>2. ASSUME NEW r \in Request, NEW p \in Person, NEW who \in Person,
               AskToRemove(r, p, who)
        PROVE MemberTypeOK'
    BY <2>2 DEF AskToRemove, Asks
  <2>3. ASSUME NEW r \in Request, InsertMember(r) PROVE MemberTypeOK'
    <3>1. flow' = [flow EXCEPT !.copies[request[r].who] = @ + 1]
      BY <2>3 DEF InsertMember
    <3>2. flow.copies[request[r].who] + 1 \in 0..MaxCopies
      BY <2>3 DEF InsertMember
    <3>3. flow' \in [live : BOOLEAN, copies : [Person -> 0..MaxCopies]]
      BY <3>1, <3>2
    <3>4. request' \in [Request -> [op : {"none", "add", "remove"},
                                   step : {"none", "check", "act"},
                                   who : Person]]
      BY <2>3 DEF InsertMember, NoRequest
    <3>5. QED
      BY <2>3, <3>3, <3>4 DEF InsertMember
  <2>4. ASSUME NEW r \in Request, DeleteMember(r) PROVE MemberTypeOK'
    BY <2>4 DEF DeleteMember, NoRequest, Without
  <2>5. ASSUME NEW r \in Request, RequestFails(r) PROVE MemberTypeOK'
    BY <2>5 DEF RequestFails, NoRequest
  <2>6. ASSUME NEW r \in Request, NEW view \in FlowView, CheckMember(r, view)
        PROVE MemberTypeOK'
    BY <2>6 DEF CheckMember, NoRequest
  <2>7. ASSUME NEW p \in Person, DeleteFlow(p) PROVE MemberTypeOK'
    BY <2>7 DEF DeleteFlow
  <2>8. CASE UNCHANGED memberVars
    BY <2>8 DEF memberVars
  <2>9. QED
    BY <2>1, <2>2, <2>3, <2>4, <2>5, <2>6, <2>7, <2>8 DEF MemberNext
<1>3. QED
  BY <1>1, <1>2, PTL DEF MemberSpec

\* One who was removed, or whose workflow was deleted, has no row until he is
\* inserted again, although neither WorkflowAddUser nor WorkflowRemoveUser is
\* alone with the rows (workflow.go): the removal deletes by the user, never
\* by what it has read.
THEOREM RemovedIsOut == MemberSpec => []OutIsOut
<1> USE MemberAssumption DEF MemberTypeOK, OutIsOut, Related
<1>1. MemberInit => OutIsOut
  BY DEF MemberInit
<1>2. ASSUME MemberTypeOK, OutIsOut, [MemberNext]_memberVars PROVE OutIsOut'
  <2> USE <1>2
  <2>1. ASSUME NEW r \in Request, NEW p \in Person, NEW who \in Person,
               AskToAdd(r, p, who) \/ AskToRemove(r, p, who)
        PROVE OutIsOut'
    BY <2>1 DEF AskToAdd, AskToRemove, Asks
  <2>2. ASSUME NEW r \in Request, InsertMember(r) PROVE OutIsOut'
    BY <2>2 DEF InsertMember
  <2>3. ASSUME NEW r \in Request, DeleteMember(r) PROVE OutIsOut'
    BY <2>3 DEF DeleteMember, Without
  <2>4. ASSUME NEW r \in Request, RequestFails(r) PROVE OutIsOut'
    BY <2>4 DEF RequestFails
  <2>5. ASSUME NEW r \in Request, NEW view \in FlowView, CheckMember(r, view)
        PROVE OutIsOut'
    BY <2>5 DEF CheckMember
  <2>6. ASSUME NEW p \in Person, DeleteFlow(p) PROVE OutIsOut'
    BY <2>6 DEF DeleteFlow
  <2>7. CASE UNCHANGED memberVars
    BY <2>7 DEF memberVars
  <2>8. QED
    BY <2>1, <2>2, <2>3, <2>4, <2>5, <2>6, <2>7 DEF MemberNext
<1>3. QED
  BY <1>1, <1>2, MemberTypeCorrect, PTL DEF MemberSpec
=============================================================================
