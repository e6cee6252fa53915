------------------------------ MODULE Hierarchy ------------------------------
(***************************************************************************)
(* Epics, projects, stages and todos of one user, and the deletion of an   *)
(* epic, a project or a stage with or without its children.                *)
(*                                                                         *)
(* deleteEpic, deleteProject and deleteStage of internal/graph run several *)
(* statements in one PostgreSQL transaction (READ COMMITTED); the creating *)
(* and moving mutations are one statement that commits on its own.  db is  *)
(* the committed state.  A transaction keeps the rows it wrote in work[r]; *)
(* they are locked until it commits or rolls back, and a statement that    *)
(* would write a row locked by another transaction waits, as does one that *)
(* would refer to a row another transaction has deleted.                   *)
(*                                                                         *)
(* A statement is one step: PostgreSQL locks the rows of a statement one   *)
(* after the other, so that two statements can also wait for each other    *)
(* half way; one of them is then aborted, which Abort stands for.          *)
(*                                                                         *)
(* Columns other than the references (names, statuses, positions, the next *)
(* action) decide nothing here and are left out; so are updateEpic and     *)
(* updateStage, which write no reference.                                  *)
(***************************************************************************)
EXTENDS Naturals, FiniteSets

CONSTANTS
  Epic, Project, Stage, Todo,  \* identifiers, each given to one row at most
  Request,                     \* requests that run a deleting transaction
  Calls,                       \* the mutations that clients may send
  MayAbort,                    \* TRUE: a transaction may roll back at any point
  None                         \* SQL NULL, an absent GraphQL argument

Id == Epic \cup Project \cup Stage \cup Todo

Row == [life    : {"new", "live", "gone"},
        epic    : Epic \cup {None},
        project : Project \cup {None},
        stage   : Stage \cup {None}]

\* An identifier without a row: not given yet, or its row was deleted.
NewRow == [life |-> "new", epic |-> None, project |-> None, stage |-> None]
GoneRow == [NewRow EXCEPT !.life = "gone"]

DeleteOp == {"deleteEpic", "deleteProject", "deleteStage"}
Op == DeleteOp \cup {"none", "createEpic", "createProject", "updateProject", "createStage",
                     "createTodo", "updateTodo", "deleteTodo"}

Call == [op      : Op,
         id      : Id \cup {None},
         epic    : Epic \cup {None},
         project : Project \cup {None},
         stage   : Stage \cup {None},
         keepChildren : {"true", "false", "absent"}]

NoCall == [op |-> "none", id |-> None, epic |-> None, project |-> None, stage |-> None,
           keepChildren |-> "absent"]

ASSUME NoneAssumption == None \notin Id

ASSUME KindsAssumption ==
  /\ Epic \cap (Project \cup Stage \cup Todo) = {}
  /\ Project \cap (Stage \cup Todo) = {}
  /\ Stage \cap Todo = {}

ASSUME CallsAssumption ==
  /\ Calls \subseteq Call
  /\ \A c \in Calls :
       /\ c.op = "deleteEpic" => c.id \in Epic
       /\ c.op \in {"deleteProject", "updateProject"} => c.id \in Project
       /\ c.op = "deleteStage" => c.id \in Stage
       /\ c.op \in {"updateTodo", "deleteTodo"} => c.id \in Todo
       /\ c.op = "createStage" => c.project # None

ASSUME MayAbortAssumption == MayAbort \in BOOLEAN

VARIABLES
  db,    \* the committed rows
  work,  \* the rows written by the transaction of each request
  pc,    \* the next statement of that transaction
  call   \* the mutation it executes

vars == <<db, work, pc, call>>

Statement == {"detachProjectsFromEpic", "deleteProjectsByEpic", "deleteEpic",
              "detachTodosFromProject", "detachStagesFromProject", "deleteProject",
              "detachTodosFromStage", "deleteTodosByStage", "deleteStage", "commit"}

TypeOK ==
  /\ db \in [Id -> Row]
  /\ \A r \in Request : DOMAIN work[r] \subseteq Id /\ work[r] \in [DOMAIN work[r] -> Row]
  /\ pc \in [Request -> Statement \cup {"idle"}]
  /\ call \in [Request -> Call]

Nothing == [i \in {} |-> NewRow]

Init ==
  /\ db = [i \in Id |-> NewRow]
  /\ work = [r \in Request |-> Nothing]
  /\ pc = [r \in Request |-> "idle"]
  /\ call = [r \in Request |-> NoCall]

-----------------------------------------------------------------------------
(* Statements as functions on the rows they see.                           *)

Live(v, i) == v[i].life = "live"

\* The rows of one kind that refer to a parent.
ProjectsOf(v, e) == {p \in Project : v[p].epic = e}
StagesOf(v, p) == {s \in Stage : v[s].project = p}
TodosOf(v, p) == {t \in Todo : v[t].project = p}
TodosIn(v, s) == {t \in Todo : v[t].stage = s}

DetachFromEpic(v, e) ==
  [i \in Id |-> IF i \in ProjectsOf(v, e) THEN [v[i] EXCEPT !.epic = None] ELSE v[i]]

DetachTodosFromProject(v, p) ==
  [i \in Id |-> IF i \in TodosOf(v, p) THEN [v[i] EXCEPT !.project = None] ELSE v[i]]

DetachStagesFromProject(v, p) ==
  [i \in Id |-> IF i \in StagesOf(v, p) THEN [v[i] EXCEPT !.project = None] ELSE v[i]]

DetachFromStage(v, s) ==
  [i \in Id |-> IF i \in TodosIn(v, s) THEN [v[i] EXCEPT !.stage = None] ELSE v[i]]

\* DELETE of todos, stages, projects, an epic, with what the foreign keys do
\* to the rows that refer to them (deleting no row is not an error).
\* todos.stage_id and projects.epic_id are ON DELETE SET NULL, and leave
\* nothing to refuse for the second key (stage_id, user_id), (epic_id,
\* user_id) that has no action; stages.project_id and todos.project_id are
\* ON DELETE CASCADE.
Remove(v, ids) == [i \in Id |-> IF i \in ids /\ Live(v, i) THEN GoneRow ELSE v[i]]

\* Mutant: stage_id has no ON DELETE SET NULL.
MutantRemoveStagesNoAction(v, ss) == Remove(v, ss)

\* Mutant: stage_id is ON DELETE CASCADE.
MutantRemoveStagesCascade(v, ss) == Remove(v, ss \cup {t \in Todo : v[t].stage \in ss})

RemoveStages(v, ss) ==
  LET detached == [i \in Id |-> IF v[i].stage \in ss THEN [v[i] EXCEPT !.stage = None] ELSE v[i]]
  IN  Remove(detached, ss)

\* Mutant: stages.project_id is ON DELETE SET NULL.
MutantRemoveProjects(v, ps) ==
  LET todos    == {t \in Todo : v[t].project \in ps}
      detached == [i \in Id |-> IF i \in Stage /\ v[i].project \in ps
                                THEN [v[i] EXCEPT !.project = None] ELSE v[i]]
  IN  Remove(detached, todos \cup ps)

RemoveProjects(v, ps) ==
  LET todos  == {t \in Todo : v[t].project \in ps}
      stages == {s \in Stage : v[s].project \in ps}
  IN  Remove(RemoveStages(Remove(v, todos), stages), ps)

\* Mutant: epic_id is ON DELETE CASCADE.
MutantRemoveEpic(v, e) == Remove(RemoveProjects(v, ProjectsOf(v, e)), {e})

RemoveEpic(v, e) == Remove(DetachFromEpic(v, e), {e})

-----------------------------------------------------------------------------
(* Transactions.                                                           *)

\* What the statements of r see: the committed rows and its own writes.
View(r) == [i \in Id |-> IF i \in DOMAIN work[r] THEN work[r][i] ELSE db[i]]

\* Rows written by a transaction other than r that has not ended.
LockedByOthers(r) == UNION {DOMAIN work[s] : s \in Request \ {r}}

\* What the next statement of r makes of the rows it sees.
Effect(r) ==
  LET v == View(r)
      i == call[r].id
  IN CASE pc[r] = "detachProjectsFromEpic"  -> DetachFromEpic(v, i)
       [] pc[r] = "deleteProjectsByEpic"    -> RemoveProjects(v, ProjectsOf(v, i))
       [] pc[r] = "deleteEpic"              -> RemoveEpic(v, i)
       [] pc[r] = "detachTodosFromProject"  -> DetachTodosFromProject(v, i)
       [] pc[r] = "detachStagesFromProject" -> DetachStagesFromProject(v, i)
       [] pc[r] = "deleteProject"           -> RemoveProjects(v, {i})
       [] pc[r] = "detachTodosFromStage"    -> DetachFromStage(v, i)
       [] pc[r] = "deleteTodosByStage"      -> Remove(v, TodosIn(v, i))
       [] pc[r] = "deleteStage"             -> RemoveStages(v, {i})
       [] OTHER                             -> v

\* The statement that follows each statement.
After == [detachProjectsFromEpic  |-> "deleteEpic",
          deleteProjectsByEpic    |-> "deleteEpic",
          deleteEpic              |-> "commit",
          detachTodosFromProject  |-> "detachStagesFromProject",
          detachStagesFromProject |-> "deleteProject",
          deleteProject           |-> "commit",
          detachTodosFromStage    |-> "deleteStage",
          deleteTodosByStage      |-> "deleteStage",
          deleteStage             |-> "commit"]

\* The rows that the next statement of r writes, and so locks.
Written(r) == {i \in Id : Effect(r)[i] # View(r)[i]}

\* Statement of a transaction; it waits while another one has locked a row
\* that it writes.
ExecuteStatement(r) ==
  /\ pc[r] \in DOMAIN After
  /\ Written(r) \cap LockedByOthers(r) = {}
  /\ work' = [work EXCEPT ![r] = [i \in DOMAIN work[r] \cup Written(r) |-> Effect(r)[i]]]
  /\ pc' = [pc EXCEPT ![r] = After[pc[r]]]
  /\ UNCHANGED <<db, call>>

\* Mutant: the transaction is neither committed nor rolled back.
MutantEndTransaction(r) ==
  /\ pc' = [pc EXCEPT ![r] = "idle"]
  /\ call' = [call EXCEPT ![r] = NoCall]
  /\ UNCHANGED work

EndTransaction(r) ==
  /\ work' = [work EXCEPT ![r] = Nothing]
  /\ pc' = [pc EXCEPT ![r] = "idle"]
  /\ call' = [call EXCEPT ![r] = NoCall]

\* boolValue(keepChildren, fallback): deleteEpic and deleteStage keep the
\* children unless told otherwise, deleteProject drops them.
KeepsChildren(c) ==
  \/ c.keepChildren = "true"
  \/ c.keepChildren = "absent" /\ c.op # "deleteProject"

\* BeginTx touches no row.  The identifier is one that the client has seen.
Begin(r, op, kept, dropped) ==
  \E c \in Calls :
    /\ c.op = op /\ db[c.id].life # "new"
    /\ pc[r] = "idle"
    /\ pc' = [pc EXCEPT ![r] = IF KeepsChildren(c) THEN kept ELSE dropped]
    /\ call' = [call EXCEPT ![r] = c]
    /\ UNCHANGED <<db, work>>

BeginDeleteEpic(r) == Begin(r, "deleteEpic", "detachProjectsFromEpic", "deleteProjectsByEpic")
BeginDeleteProject(r) == Begin(r, "deleteProject", "detachTodosFromProject", "deleteProject")
BeginDeleteStage(r) == Begin(r, "deleteStage", "detachTodosFromStage", "deleteTodosByStage")

Commit(r) ==
  /\ pc[r] = "commit"
  /\ db' = View(r)
  /\ EndTransaction(r)

\* Mutant: the statements of a deletion run outside of a transaction.
MutantAbort(r) ==
  /\ MayAbort
  /\ pc[r] # "idle"
  /\ db' = View(r)
  /\ EndTransaction(r)

\* defer tx.Rollback(): a failing statement, a cancelled request, a lost
\* connection, a stopped server or a deadlock victim leaves no trace.
Abort(r) ==
  /\ MayAbort
  /\ pc[r] # "idle"
  /\ EndTransaction(r)
  /\ UNCHANGED db

\* r belongs to a set of transactions each of which waits for another one.
WaitsFor(r, s) == r # s /\ pc[r] \in DOMAIN After /\ Written(r) \cap DOMAIN work[s] # {}
Deadlocked(r) ==
  \E group \in SUBSET Request :
    r \in group /\ \A q \in group : \E s \in group : WaitsFor(q, s)

\* PostgreSQL detects the cycle and makes one of its statements fail.
DeadlockVictim(r) ==
  /\ Deadlocked(r)
  /\ EndTransaction(r)
  /\ UNCHANGED db

-----------------------------------------------------------------------------
(* Mutations of one statement.  One that waits for a lock has read nothing *)
(* yet, so it is the step in which it is executed that matters; one that   *)
(* fails changes nothing, so it is not a step.                             *)

\* An insert or update may refer to i: NULL, or a row that is there and that
\* no transaction has deleted (the key-share lock of the foreign key check
\* waits for a delete, and only for a delete).
Referable(i) ==
  i # None =>
    Live(db, i) /\ \A r \in Request : i \in DOMAIN work[r] => Live(work[r], i)

Write(i, row) ==
  /\ \A r \in Request : i \notin DOMAIN work[r]
  /\ db' = [db EXCEPT ![i] = row]
  /\ UNCHANGED <<work, pc, call>>

LiveRow(e, p, s) == [life |-> "live", epic |-> e, project |-> p, stage |-> s]

CreateEpic ==
  \E c \in Calls, i \in Epic :
    /\ c.op = "createEpic" /\ db[i] = NewRow
    /\ Write(i, LiveRow(None, None, None))

CreateProject ==
  \E c \in Calls, i \in Project :
    /\ c.op = "createProject" /\ db[i] = NewRow
    /\ Referable(c.epic)
    /\ Write(i, LiveRow(c.epic, None, None))

\* epic_id = COALESCE($1, epic_id): a project can be moved to another epic,
\* never out of its epic.
UpdateProject ==
  \E c \in Calls :
    /\ c.op = "updateProject" /\ Live(db, c.id)
    /\ c.epic # None /\ Referable(c.epic)
    /\ Write(c.id, [db[c.id] EXCEPT !.epic = c.epic])

CreateStage ==
  \E c \in Calls, i \in Stage :
    /\ c.op = "createStage" /\ db[i] = NewRow
    /\ Referable(c.project)
    /\ Write(i, LiveRow(None, c.project, None))

\* Project and stage are taken as they are given: nothing relates them.
CreateTodo ==
  \E c \in Calls, i \in Todo :
    /\ c.op = "createTodo" /\ db[i] = NewRow
    /\ Referable(c.project) /\ Referable(c.stage)
    /\ Write(i, LiveRow(None, c.project, c.stage))

\* Mutant: the arguments for project_id and stage_id are swapped.
MutantUpdateTodo ==
  \E c \in Calls :
    /\ c.op = "updateTodo" /\ Live(db, c.id)
    /\ Referable(c.project) /\ Referable(c.stage)
    /\ Write(c.id, [db[c.id] EXCEPT !.project = IF c.stage = None THEN @ ELSE c.stage,
                                    !.stage = IF c.project = None THEN @ ELSE c.project])

\* project_id = COALESCE($1, project_id), stage_id = COALESCE($2, stage_id).
UpdateTodo ==
  \E c \in Calls :
    /\ c.op = "updateTodo" /\ Live(db, c.id)
    /\ Referable(c.project) /\ Referable(c.stage)
    /\ Write(c.id, [db[c.id] EXCEPT !.project = IF c.project = None THEN @ ELSE c.project,
                                    !.stage = IF c.stage = None THEN @ ELSE c.stage])

DeleteTodo ==
  \E c \in Calls :
    /\ c.op = "deleteTodo" /\ Live(db, c.id)
    /\ Write(c.id, GoneRow)

-----------------------------------------------------------------------------

Execute(r) == ExecuteStatement(r) \/ Commit(r)

Next ==
  \/ \E r \in Request :
       \/ BeginDeleteEpic(r)
       \/ BeginDeleteProject(r)
       \/ BeginDeleteStage(r)
       \/ Execute(r)
       \/ DeadlockVictim(r)
       \/ Abort(r)
  \/ CreateEpic
  \/ CreateProject
  \/ UpdateProject
  \/ CreateStage
  \/ CreateTodo
  \/ UpdateTodo
  \/ DeleteTodo

Spec == Init /\ [][Next]_vars

\* PostgreSQL queues the transactions that wait for a row: one that can go on
\* again and again after waiting gets its turn; and its deadlock detector
\* runs in every transaction that waits for long.
FairSpec ==
  /\ Spec
  /\ \A r \in Request : SF_vars(Execute(r))
  /\ \A r \in Request : WF_vars(DeadlockVictim(r))

-----------------------------------------------------------------------------
(* Properties.                                                             *)

\* Every reference of a committed row leads to a committed row, also when
\* rows are created in, and moved to, a parent whose deletion is under way.
NoDanglingReference ==
  \A i \in Id :
    /\ db[i].epic # None => Live(db, db[i].epic)
    /\ db[i].project # None => Live(db, db[i].project)
    /\ db[i].stage # None => Live(db, db[i].stage)

\* Committing a deletion that keeps the children deletes no row but its own.
KeepingDeletes(op) ==
  \A r \in Request :
    Commit(r) /\ call[r].op = op /\ KeepsChildren(call[r])
      => \A i \in Id \ {call[r].id} : db'[i].life = "gone" => db[i].life = "gone"

\* README.md: deleteEpic(id, keepChildren: true) keeps projects.  Projects
\* that are created in the epic, or moved to it, after the detaching
\* statement are kept as well.
DeleteEpicKeepsChildren == [][KeepingDeletes("deleteEpic")]_vars

\* README.md: deleteStage(id, keepChildren: true) keeps todos, the ones that
\* arrive after the detaching statement included.
DeleteStageKeepsChildren == [][KeepingDeletes("deleteStage")]_vars

\* README.md: deleteProject(id, keepChildren: true) keeps stages/todos.
DeleteProjectKeepsChildren == [][KeepingDeletes("deleteProject")]_vars

\* A deleting transaction is all or nothing: a project loses its epic, a
\* stage or todo its project, a todo its stage only in the very step in which
\* that parent disappears, wherever transactions stop or roll back.
DetachedOnlyFromDeletedParent ==
  [][\A i \in Id : db'[i].life = "live" =>
       /\ db[i].epic # None /\ db'[i].epic = None => ~Live(db', db[i].epic)
       /\ db[i].project # None /\ db'[i].project = None => ~Live(db', db[i].project)
       /\ db[i].stage # None /\ db'[i].stage = None => ~Live(db', db[i].stage)]_vars

\* Committing deleteProject without keepChildren leaves nothing of the
\* project: what was created in it while the transaction ran goes with it.
DeleteProjectDropsChildren ==
  [][\A r \in Request :
       Commit(r) /\ call[r].op = "deleteProject" /\ ~KeepsChildren(call[r])
         => \A i \in Id : db[i].project = call[r].id => db'[i].life = "gone"]_vars

\* Every deleting transaction ends: none waits for a row for ever.  It takes
\* the deadlock detector: deleteProject locks stages before the todos that
\* arrived late, deleteStage and deleteEpic lock todos before their parents.
TransactionsEnd == \A r \in Request : pc[r] # "idle" ~> pc[r] = "idle"

\* todo-spec.md, Hierarchia: a todo is in a stage of its project.
StageBelongsToProject ==
  \A t \in Todo : Live(db, t) /\ db[t].stage # None /\ db[t].project # None
    => db[db[t].stage].project = db[t].project
=============================================================================
