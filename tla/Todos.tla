-------------------------------- MODULE Todos --------------------------------
(***************************************************************************)
(* The todo resolvers of internal/graph on top of the todos table of one   *)
(* user: creating, updating, completing and deleting todos, the "next      *)
(* action" flag with its partial unique index, and todo dependencies.      *)
(*                                                                         *)
(* A GraphQL request is handled by one goroutine.  None of these resolvers *)
(* opens a transaction: every SQL statement commits on its own, so the     *)
(* statements of concurrent requests interleave freely and a request may   *)
(* stop between two of them.  One action of this module is one statement;  *)
(* pc[r] names the statement that request r executes next.                 *)
(*                                                                         *)
(* Reads that only build the response (labels of the returned todo) change *)
(* nothing and are left out.  Rows of other users are invisible to every   *)
(* statement (user_id is in every WHERE clause), so one user is enough.    *)
(***************************************************************************)
EXTENDS Naturals

CONSTANTS
  Todo,       \* identifiers a todo row may be given (never used twice)
  Project,    \* projects of the user
  Request,    \* goroutines that handle GraphQL requests
  Calls,      \* the mutations, with their inputs, that clients may send
  Deletable,  \* the projects that clients may delete
  Abortable,  \* the requests that may stop before any of their statements
  None        \* SQL NULL, an absent GraphQL argument

Status == {"OPEN", "IN_PROGRESS", "DONE", "BLOCKED"}

\* An absent optional argument of an enum or Boolean type.
Keep == "keep"

Op == {"none", "createTodo", "updateTodo", "markTodoDone", "setTodoNextAction",
       "deleteTodo", "addTodoDependency", "removeTodoDependency"}

\* The arguments of a mutation, those the resolvers below look at.
Call == [op      : Op,
         todo    : Todo \cup {None},
         dep     : Todo \cup {None},
         project : Project \cup {None},
         status  : Status \cup {Keep},
         next    : {"set", "unset", Keep}]

NoCall == [op |-> "none", todo |-> None, dep |-> None, project |-> None,
           status |-> Keep, next |-> Keep]

ASSUME NoneAssumption == None \notin Todo \cup Project

\* The arguments each mutation has (schema.graphqls): a todo is a required ID
\* in every one but createTodo, the others are absent where not named here.
ASSUME CallsAssumption ==
  /\ Calls \subseteq Call
  /\ \A c \in Calls :
       /\ c.op # "createTodo" => c.todo \in Todo
       /\ c.op \in {"addTodoDependency", "removeTodoDependency"} => c.dep \in Todo
       /\ c.op \notin {"createTodo", "updateTodo"} => c.project = None /\ c.status = Keep
       /\ c.op \notin {"createTodo", "updateTodo", "setTodoNextAction"} => c.next = Keep

ASSUME DeletableAssumption == Deletable \subseteq Project

ASSUME AbortableAssumption == Abortable \subseteq Request

VARIABLES
  projects,    \* ids of the live rows of table projects
  todos,       \* ids of the live rows of table todos
  used,        \* ids ever given to a todo row
  project,     \* todos.project_id
  nextAction,  \* the todos whose next_action is TRUE
  status,      \* todos.status
  completed,   \* the todos whose completed_at is not NULL
  deps,        \* todo_dependencies as pairs <<todo_id, depends_on_todo_id>>
  pc,          \* the next statement of each request
  call,        \* the mutation each request executes
  clearIn      \* local variable projectForClear of each request

rowVars == <<projects, todos, used, project, nextAction, status, completed, deps>>
vars == <<projects, todos, used, project, nextAction, status, completed, deps,
          pc, call, clearIn>>

Statement == {"insert", "getForUpdate", "getForNextAction", "clear", "update",
              "delete", "addDep", "countDeps", "removeDep"}

TypeOK ==
  /\ projects \subseteq Project
  /\ todos \subseteq used
  /\ used \subseteq Todo
  /\ project \in [Todo -> Project \cup {None}]
  /\ nextAction \subseteq todos
  /\ status \in [Todo -> Status]
  /\ completed \subseteq todos
  /\ deps \subseteq todos \X todos
  /\ pc \in [Request -> Statement \cup {"idle"}]
  /\ call \in [Request -> Call]
  /\ clearIn \in [Request -> Project \cup {None}]

\* The columns of an id without a row have a fixed value.
Init ==
  /\ projects = Project
  /\ todos = {}
  /\ used = {}
  /\ project = [t \in Todo |-> None]
  /\ nextAction = {}
  /\ status = [t \in Todo |-> "OPEN"]
  /\ completed = {}
  /\ deps = {}
  /\ pc = [r \in Request |-> "idle"]
  /\ call = [r \in Request |-> NoCall]
  /\ clearIn = [r \in Request |-> None]

-----------------------------------------------------------------------------
(* Control of a request.                                                   *)

\* The resolver of call c starts; its first statement is s.
Begin(r, c, s) ==
  /\ pc[r] = "idle"
  /\ pc' = [pc EXCEPT ![r] = s]
  /\ call' = [call EXCEPT ![r] = c]
  /\ UNCHANGED <<rowVars, clearIn>>

Goto(r, s) ==
  /\ pc' = [pc EXCEPT ![r] = s]
  /\ UNCHANGED <<call, clearIn>>

\* The resolver returns, with a result or with an error.
Return(r) ==
  /\ pc' = [pc EXCEPT ![r] = "idle"]
  /\ call' = [call EXCEPT ![r] = NoCall]
  /\ clearIn' = [clearIn EXCEPT ![r] = None]

\* A statement that fails, or finds no row, ends the request with an error.
Fail(r) == Return(r) /\ UNCHANGED rowVars

\* The client goes away (its context is cancelled), the connection to the
\* database breaks, the server stops, or the statement fails for a reason
\* outside this model: the rest of the request is never executed.
Abort(r) ==
  /\ r \in Abortable
  /\ pc[r] # "idle"
  /\ Fail(r)

BeginCreateTodo(r) ==
  \E c \in Calls : c.op = "createTodo" /\ Begin(r, c, "insert")

\* UpdateTodo reads the todo first when the next action is being set.
BeginUpdateTodo(r) ==
  \E c \in Calls :
    /\ c.op = "updateTodo"
    /\ Begin(r, c, IF c.next = "set" THEN "getForUpdate" ELSE "update")

BeginMarkTodoDone(r) ==
  \E c \in Calls :
    /\ c.op = "markTodoDone"
    /\ Begin(r, [c EXCEPT !.status = "DONE"], "update")

BeginSetTodoNextAction(r) ==
  \E c \in Calls :
    /\ c.op = "setTodoNextAction"
    /\ c.next # Keep
    /\ Begin(r, c, "getForNextAction")

BeginDeleteTodo(r) ==
  \E c \in Calls : c.op = "deleteTodo" /\ Begin(r, c, "delete")

BeginAddTodoDependency(r) ==
  \E c \in Calls : c.op = "addTodoDependency" /\ Begin(r, c, "addDep")

BeginRemoveTodoDependency(r) ==
  \E c \in Calls : c.op = "removeTodoDependency" /\ Begin(r, c, "removeDep")

-----------------------------------------------------------------------------
(* The SQL statements.                                                     *)

\* Another row of project p is its next action: giving the flag to t in p
\* would violate todos_one_next_action_per_project_idx.
IndexConflict(t, p) ==
  p # None /\ \E u \in nextAction \ {t} : project[u] = p

\* Mutant: the flags of the removed rows stay behind.
MutantRemoveTodos(gone) ==
  /\ todos' = todos \ gone
  /\ completed' = completed \ gone
  /\ status' = [t \in Todo |-> IF t \in gone THEN "OPEN" ELSE status[t]]
  /\ deps' = {d \in deps : d[1] \notin gone /\ d[2] \notin gone}
  /\ UNCHANGED <<used, nextAction>>

\* DELETE of the rows in gone: their columns, and (ON DELETE CASCADE) every
\* dependency from or to them.
RemoveTodos(gone) ==
  /\ todos' = todos \ gone
  /\ nextAction' = nextAction \ gone
  /\ completed' = completed \ gone
  /\ status' = [t \in Todo |-> IF t \in gone THEN "OPEN" ELSE status[t]]
  /\ deps' = {d \in deps : d[1] \notin gone /\ d[2] \notin gone}
  /\ UNCHANGED used

SetNextActionOf(t) ==
  [op |-> "setTodoNextAction", todo |-> t, dep |-> None, project |-> None,
   status |-> Keep, next |-> "set"]

\* INSERT INTO todos.  The foreign key refuses a project that is gone; the
\* flag is inserted as FALSE and completed_at as NULL, whatever the status.
\* createTodo(nextAction: true) then calls setTodoNextAction.  (Todo is the
\* bound on rows ever created: once every id is used an insert fails.)
Insert(r) ==
  LET c == call[r] IN
  /\ pc[r] = "insert"
  /\ \/ /\ c.project \in projects \cup {None}
        /\ \E t \in Todo \ used :
             /\ todos' = todos \cup {t}
             /\ used' = used \cup {t}
             /\ project' = [project EXCEPT ![t] = c.project]
             /\ status' = [status EXCEPT ![t] = IF c.status = Keep THEN "OPEN" ELSE c.status]
             /\ UNCHANGED <<projects, nextAction, completed, deps>>
             /\ IF c.next = "set"
                THEN /\ pc' = [pc EXCEPT ![r] = "getForNextAction"]
                     /\ call' = [call EXCEPT ![r] = SetNextActionOf(t)]
                     /\ UNCHANGED clearIn
                ELSE Return(r)
     \/ /\ c.project \notin projects \cup {None} \/ used = Todo
        /\ Fail(r)

\* Mutant: the project to clear is the one the todo leaves.
MutantGetForUpdate(r) ==
  LET c == call[r]
      projectForClear == IF project[c.todo] # None THEN project[c.todo] ELSE c.project
  IN
  /\ pc[r] = "getForUpdate"
  /\ IF c.todo \notin todos
     THEN Fail(r)
     ELSE /\ clearIn' = [clearIn EXCEPT ![r] = projectForClear]
          /\ pc' = [pc EXCEPT ![r] = IF projectForClear = None THEN "update" ELSE "clear"]
          /\ UNCHANGED <<rowVars, call>>

\* The read of UpdateTodo: the project to clear is the one the todo moves
\* to, or else the one it is in.
GetForUpdate(r) ==
  LET c == call[r]
      projectForClear == IF c.project # None THEN c.project ELSE project[c.todo]
  IN
  /\ pc[r] = "getForUpdate"
  /\ IF c.todo \notin todos
     THEN Fail(r)
     ELSE /\ clearIn' = [clearIn EXCEPT ![r] = projectForClear]
          /\ pc' = [pc EXCEPT ![r] = IF projectForClear = None THEN "update" ELSE "clear"]
          /\ UNCHANGED <<rowVars, call>>

\* The read of setTodoNextAction.
GetForNextAction(r) ==
  LET c == call[r]
      projectForClear == IF c.next = "set" THEN project[c.todo] ELSE None
  IN
  /\ pc[r] = "getForNextAction"
  /\ IF c.todo \notin todos
     THEN Fail(r)
     ELSE /\ clearIn' = [clearIn EXCEPT ![r] = projectForClear]
          /\ pc' = [pc EXCEPT ![r] = IF projectForClear = None THEN "update" ELSE "clear"]
          /\ UNCHANGED <<rowVars, call>>

\* Mutant: the clear forgets its project_id condition.
MutantClearEveryProject(r) ==
  /\ pc[r] = "clear"
  /\ nextAction' = nextAction \cap {call[r].todo}
  /\ UNCHANGED <<projects, todos, used, project, status, completed, deps>>
  /\ Goto(r, "update")

\* UPDATE todos SET next_action = FALSE on the other todos of that project.
ClearProjectNextActions(r) ==
  /\ pc[r] = "clear"
  /\ nextAction' = {t \in nextAction : project[t] # clearIn[r] \/ t = call[r].todo}
  /\ UNCHANGED <<projects, todos, used, project, status, completed, deps>>
  /\ Goto(r, "update")

\* The row that UPDATE todos ... COALESCE writes for request r.
NewProject(r) == IF call[r].project # None THEN call[r].project ELSE project[call[r].todo]
NewStatus(r) == IF call[r].status # Keep THEN call[r].status ELSE status[call[r].todo]

\* Mutant: the argument nextAction does not reach the UPDATE.
MutantFlags(r) == call[r].todo \in nextAction

\* Mutant: reopening a todo keeps its completion time.
MutantCompletes(r) == call[r].status = "DONE" \/ call[r].todo \in completed

Flags(r) == \/ call[r].next = "set"
            \/ call[r].next = Keep /\ call[r].todo \in nextAction
Completes(r) == \/ call[r].status = "DONE"
                \/ call[r].status = Keep /\ call[r].todo \in completed

\* Mutant: the table has no unique index.
MutantNoIndex(r) ==
  call[r].todo \notin todos \/ call[r].project \notin projects \cup {None}

\* Mutant: project_id has no foreign key.
MutantNoForeignKey(r) ==
  call[r].todo \notin todos \/ (Flags(r) /\ IndexConflict(call[r].todo, NewProject(r)))

UpdateRefused(r) ==
  \/ call[r].todo \notin todos
  \/ call[r].project \notin projects \cup {None}
  \/ Flags(r) /\ IndexConflict(call[r].todo, NewProject(r))

\* UPDATE todos of UpdateTodo and setTodoNextAction, and of the BLOCKED mark
\* of AddTodoDependency: no row, a missing project or the unique index make
\* it fail; a NULL argument keeps the column.
Update(r) ==
  LET t == call[r].todo IN
  /\ pc[r] = "update"
  /\ IF UpdateRefused(r)
     THEN Fail(r)
     ELSE /\ project' = [project EXCEPT ![t] = NewProject(r)]
          /\ status' = [status EXCEPT ![t] = NewStatus(r)]
          /\ nextAction' = IF Flags(r) THEN nextAction \cup {t} ELSE nextAction \ {t}
          /\ completed' = IF Completes(r) THEN completed \cup {t} ELSE completed \ {t}
          /\ UNCHANGED <<projects, todos, used, deps>>
          /\ Return(r)

\* DELETE FROM todos; deleting no row is not an error.
DeleteTodo(r) ==
  /\ pc[r] = "delete"
  /\ RemoveTodos({call[r].todo})
  /\ project' = [project EXCEPT ![call[r].todo] = None]
  /\ UNCHANGED projects
  /\ Return(r)

\* INSERT INTO todo_dependencies ... WHERE EXISTS ... ON CONFLICT DO NOTHING:
\* nothing is inserted when a todo is missing, and the CHECK constraint
\* refuses a todo that depends on itself.
AddTodoDependency(r) ==
  LET c == call[r] IN
  /\ pc[r] = "addDep"
  /\ IF c.todo = c.dep /\ c.todo \in todos
     THEN Fail(r)
     ELSE /\ deps' = deps \cup ({<<c.todo, c.dep>>} \cap (todos \X todos))
          /\ UNCHANGED <<projects, todos, used, project, nextAction, status, completed>>
          /\ Goto(r, "countDeps")

Incomplete(t) == {d \in deps : d[1] = t /\ status[d[2]] # "DONE"}

\* Mutant: a dependency that is blocked in turn does not count.
MutantCountIncompleteDependencies(r) ==
  /\ pc[r] = "countDeps"
  /\ UNCHANGED rowVars
  /\ IF \E d \in Incomplete(call[r].todo) : status[d[2]] # "BLOCKED"
     THEN /\ pc' = [pc EXCEPT ![r] = "update"]
          /\ call' = [call EXCEPT ![r] = [@ EXCEPT !.status = "BLOCKED"]]
          /\ UNCHANGED clearIn
     ELSE Return(r)

\* SELECT COUNT of the incomplete dependencies; when there are some the
\* resolver goes on to UpdateTodo with status BLOCKED.
CountIncompleteDependencies(r) ==
  /\ pc[r] = "countDeps"
  /\ UNCHANGED rowVars
  /\ IF Incomplete(call[r].todo) # {}
     THEN /\ pc' = [pc EXCEPT ![r] = "update"]
          /\ call' = [call EXCEPT ![r] = [@ EXCEPT !.status = "BLOCKED"]]
          /\ UNCHANGED clearIn
     ELSE Return(r)

\* DELETE FROM todo_dependencies; the status of the todo stays as it is.
RemoveTodoDependency(r) ==
  /\ pc[r] = "removeDep"
  /\ deps' = deps \ {<<call[r].todo, call[r].dep>>}
  /\ UNCHANGED <<projects, todos, used, project, nextAction, status, completed>>
  /\ Return(r)

-----------------------------------------------------------------------------
(* deleteProject, as its transaction looks from here when it commits: the  *)
(* todos it detached are left without a project, and those it did not      *)
(* detach (all of them without keepChildren, with it those that arrived    *)
(* after the detaching statement) are removed by the cascade.  Module      *)
(* Hierarchy has the statements of the transaction.                        *)

DeleteProject(p) ==
  LET members == {t \in todos : project[t] = p} IN
  /\ p \in projects \cap Deletable
  /\ projects' = projects \ {p}
  /\ \E kept \in SUBSET members : RemoveTodos(members \ kept)
  /\ project' = [t \in Todo |-> IF t \in members THEN None ELSE project[t]]
  /\ UNCHANGED <<pc, call, clearIn>>

-----------------------------------------------------------------------------

\* The steps of request r that execute a statement.
Execute(r) ==
  \/ Insert(r)
  \/ GetForUpdate(r)
  \/ GetForNextAction(r)
  \/ ClearProjectNextActions(r)
  \/ Update(r)
  \/ DeleteTodo(r)
  \/ AddTodoDependency(r)
  \/ CountIncompleteDependencies(r)
  \/ RemoveTodoDependency(r)

BeginRequest(r) ==
  \/ BeginCreateTodo(r)
  \/ BeginUpdateTodo(r)
  \/ BeginMarkTodoDone(r)
  \/ BeginSetTodoNextAction(r)
  \/ BeginDeleteTodo(r)
  \/ BeginAddTodoDependency(r)
  \/ BeginRemoveTodoDependency(r)

Next ==
  \/ \E r \in Request : BeginRequest(r) \/ Execute(r) \/ Abort(r)
  \/ \E p \in Project : DeleteProject(p)

Spec == Init /\ [][Next]_vars

\* A goroutine that has a statement to execute executes it: the Go scheduler
\* and the database are fair, and autocommit statements hold no lock that
\* another one could wait for indefinitely.
FairSpec == Spec /\ \A r \in Request : WF_vars(Execute(r))

-----------------------------------------------------------------------------
(* Properties.                                                             *)

\* README.md: "Next action uniqueness per project".  Whatever requests do to
\* the flag and to project_id between each other's statements, no project
\* has two next actions.
OneNextActionPerProject ==
  \A t, u \in nextAction : project[t] = project[u] /\ project[t] # None => t = u

\* The next action of each project, as its slot.
nextActionOf ==
  [p \in Project |-> IF \E t \in nextAction : project[t] = p
                     THEN CHOOSE t \in nextAction : project[t] = p
                     ELSE None]

Slots == INSTANCE NextActionSlots WITH slot <- nextActionOf

\* The flags of the rows behave like one slot per project: no statement, of
\* whichever request, replaces the next action of a project by another todo
\* in one go, and a todo that moves takes the flag with it or loses it.
ImplementsSlots == Slots!Spec

\* A todo is never left in a project that is gone, although a request carries
\* a project id over several statements while deleteProject runs.
NoTodoInMissingProject ==
  \A t \in todos : project[t] \in projects \cup {None}

\* completed_at is only ever set on a todo that is DONE: reopening it, or
\* blocking it from addTodoDependency, forgets the completion.
CompletedOnlyIfDone == \A t \in completed : status[t] = "DONE"

\* As long as requests do not overlap, the unique index is never what stops
\* a request that sets the next action: what it cleared covers the project
\* its UPDATE writes to.
SetterFindsProjectFree ==
  \A r \in Request :
    pc[r] = "update" /\ call[r].next = "set" /\ call[r].todo \in todos
      => ~IndexConflict(call[r].todo, NewProject(r))

HasNextAction(p) == \E t \in nextAction : project[t] = p

\* A request has cleared p and is about to set the flag of its own todo.
HandingOver(p) ==
  \E r \in Request : pc[r] = "update" /\ call[r].next = "set" /\ clearIn[r] = p

\* Clearing and setting are two commits.  When every request runs to its end
\* and nobody takes the flag away on purpose (by unsetting it, or by moving
\* or deleting the todo or the project), a project that has a next action
\* never ends up without one: at any moment it has one or a request is about
\* to set one, even when concurrent setters make each other fail.
NextActionHandedOver ==
  [][\A p \in Project :
       HasNextAction(p) \/ HandingOver(p) => HasNextAction(p)' \/ HandingOver(p)']_vars

\* Under the same conditions a request that starts to clear a project leads
\* to a next action of that project.
SettingLeadsToNextAction ==
  \A r \in Request, p \in Project :
    (pc[r] = "clear" /\ clearIn[r] = p) ~> HasNextAction(p)

\* Request r adds a dependency to todo t and has still to find out whether t
\* is to be blocked, or to block it.
WillBlock(r, t) ==
  /\ call[r].op = "addTodoDependency"
  /\ call[r].todo = t
  /\ pc[r] \in {"countDeps", "update"}

\* Todo t waits for another one, and nothing shows it or is about to.
LeftUnblocked(t) ==
  /\ t \in todos
  /\ Incomplete(t) # {}
  /\ status[t] # "BLOCKED"
  /\ \A r \in Request : ~WillBlock(r, t)

\* This step gives t the status that a client has asked for.
StatusGiven(t) ==
  \E r \in Request : /\ pc[r] = "update" /\ pc'[r] # pc[r]
                     /\ call[r].op \in {"updateTodo", "markTodoDone"}
                     /\ call[r].todo = t
                     /\ status'[t] = call[r].status

\* This step makes a dependency of t incomplete that was complete: a client
\* reopens that todo, or addTodoDependency blocks it in turn.
DependencyReopened(t) ==
  \E d \in deps' : d[1] = t /\ status[d[2]] = "DONE" /\ status'[d[2]] # "DONE"

\* This step cuts off the request that would have blocked t.
BlockingCutOff(t) ==
  /\ UNCHANGED rowVars
  /\ \E r \in Abortable : WillBlock(r, t) /\ pc'[r] = "idle"

\* todo-spec.md, Dependencies: the system may mark a dependent todo blocked by
\* itself.  The INSERT of the dependency, the count and the mark are three
\* commits, and completing, reopening, moving, flagging and deleting go on
\* between them.  A todo is left with an incomplete dependency and without the
\* mark only by its own new status, by a dependency that is reopened, or by a
\* request that is cut off: the mark is never refused, a dependency that is
\* added is never overlooked by the count, and no update of other columns, by
\* whichever request, takes the mark away.
DependentStaysBlocked ==
  [][\A t \in Todo : LeftUnblocked(t)' =>
       \/ LeftUnblocked(t)
       \/ StatusGiven(t)
       \/ DependencyReopened(t)
       \/ BlockingCutOff(t)]_vars
=============================================================================
