--------------------------------- MODULE Api ---------------------------------
(***************************************************************************)
(* GraphQL requests: the generated executor, the resolvers that create,    *)
(* update and read rows of every kind, labels and notes with their         *)
(* deletion, and the statements they run.                                  *)
(*                                                                         *)
(* Every statement is a transaction of its own.  The root fields of a      *)
(* mutation run one after the other, those of a query at the same time,    *)
(* and the statements of one request interleave with those of the others.  *)
(*                                                                         *)
(* Epics, projects and stages are deleted in module Hierarchy, next        *)
(* actions set and dependencies kept in module Todos.                      *)
(***************************************************************************)
EXTENDS Views, Integers, Sequences, Functions

CONSTANTS
  User,
  Malformed,      \* a string that is no UUID
  Tables, Labelled,  \* the rows and labels at the start
  Workloads,      \* sets of operations; a behaviour takes its own from one of them
  MaxRequests     \* bound: requests of a behaviour

VARIABLES
  requests,  \* the requests received, and what each root field has done
  workload

vars == <<tables, todo_labels, requests, workload>>

Kind == {"epic", "project", "stage", "todo", "label", "note"}

\* A row gets a new identifier: that of the root field that inserts it.
NewId == (1..MaxRequests) \X (1..2)
Id == NewId \cup UNION {DOMAIN Tables[k] : k \in Kind}

\* An operation: a request of a user with its root fields in document order.
\* pending: rows whose labels are still to be read; objects: the answer.
NewField == [at |-> "new", pending |-> {}, objects |-> {}]
Settled(field) == field.at \in {"done", "null", "failed"}

Column ==
  [epic |-> {"user_id", "name", "description", "color", "position"},
   project |-> {"user_id", "epic_id", "name", "description", "status", "start_date",
                "target_date", "position"},
   stage |-> {"user_id", "project_id", "name", "description", "status", "start_date",
              "target_date", "position"},
   todo |-> {"user_id", "project_id", "stage_id", "title", "description", "priority", "status",
             "start_date", "due_date", "estimated_effort", "position", "next_action",
             "milestone", "recurrence"},
   label |-> {"user_id", "name", "color"}, note |-> {"user_id", "project_id", "body"}]

NotNullColumn ==
  [epic |-> {"name", "position"}, project |-> {"name", "status", "position"},
   stage |-> {"name", "status", "position"},
   todo |-> {"title", "priority", "status", "position", "next_action", "milestone", "recurrence"},
   label |-> {"name"}, note |-> {"project_id", "body"}]

\* Foreign keys, with the user of the row.
Reference ==
  [epic |-> {}, project |-> {<<"epic_id", "epic">>}, stage |-> {<<"project_id", "project">>},
   todo |-> {<<"project_id", "project">>, <<"stage_id", "stage">>},
   label |-> {}, note |-> {<<"project_id", "project">>}]

\* Enumerations of the schema, and the input fields that are never null.
Enumeration ==
  [epic |-> NoDefault, project |-> [status |-> ProjectStatus], stage |-> [status |-> StageStatus],
   todo |-> [status |-> TodoStatus, priority |-> TodoPriority, recurrence |-> Recurrence],
   label |-> NoDefault, note |-> NoDefault]
Required ==
  [epic |-> {"name"}, project |-> {"name"}, stage |-> {"projectId", "name"}, todo |-> {"title"},
   label |-> {"name"}, note |-> {"projectId", "body"}]

\* The input of each mutation, and the fields that are times.
Input ==
  [create |-> [epic |-> CreateEpicInput, project |-> CreateProjectInput, stage |-> CreateStageInput,
               todo |-> CreateTodoInput, label |-> CreateLabelInput, note |-> CreateProjectNoteInput],
   update |-> [epic |-> UpdateEpicInput, project |-> UpdateProjectInput, stage |-> UpdateStageInput,
               todo |-> UpdateTodoInput, label |-> UpdateLabelInput, note |-> UpdateProjectNoteInput]]
Date == {"startDate", "targetDate", "dueDate"}

\* What the executor hands to a resolver.  (Calls that set nextAction to true
\* take the statements of module Todos.)
IsCall(call) ==
  /\ call.op \in {"create", "update"} =>
       /\ call.kind \in Kind
       /\ DOMAIN call.given \subseteq Input[call.op][call.kind].fields
       /\ \A f \in DOMAIN call.given \cap Date : call.given[f] \in DOMAIN Day \cup {Null}
       /\ "nextAction" \in DOMAIN call.given => call.given["nextAction"] \in {FALSE, Null}
       /\ \A f \in DOMAIN call.given \cap DOMAIN Enumeration[call.kind] :
            call.given[f] \in Enumeration[call.kind][f] \cup {Null}
  /\ call.op = "create" =>
       \A f \in Required[call.kind] : f \in DOMAIN call.given /\ call.given[f] # Null
  /\ call.op = "delete" => call.kind \in {"todo", "label", "note"}
  /\ call.op = "get" => call.kind \in {"epic", "project", "stage", "todo"}
  /\ call.op = "list" => call.kind \in {"epic", "project", "stage", "label", "note"}
  /\ call.op = "view" => call.kind \in {"todos", "inbox", "openTodos", "overdueTodos", "nextActions", "doneTodos"}
  /\ call.op = "count" => call.kind \in {"dashboard", "project", "stage"}

ASSUME NullAssumption ==
  /\ Null \notin Int /\ Null \notin BOOLEAN /\ Null \notin Id /\ Null # {}
  /\ Null \notin ProjectStatus \cup StageStatus \cup TodoStatus \cup TodoPriority \cup Recurrence
ASSUME RequestsAssumption == MaxRequests \in Nat
ASSUME WorkloadsAssumption ==
  \A w \in Workloads : \A o \in w :
    o.user \in User /\ DOMAIN o.calls \subseteq 1..2 /\ \A i \in DOMAIN o.calls : IsCall(o.calls[i])

\* The tables at the start satisfy their constraints.
ASSUME TablesAssumption ==
  /\ DOMAIN Tables = Kind
  /\ \A k \in Kind : IsFiniteSet(DOMAIN Tables[k]) /\ \A id \in DOMAIN Tables[k] :
       LET row == Tables[k][id]
           OfUser(kind, i) == i \in DOMAIN Tables[kind] /\ Tables[kind][i].user_id = row.user_id IN
       /\ id \notin NewId
       /\ DOMAIN row = Column[k] /\ row.user_id \in User
       /\ \A c \in NotNullColumn[k] : row[c] # Null
       /\ \A c \in DOMAIN Enumeration[k] : row[c] \in Enumeration[k][c]
       /\ \A ref \in Reference[k] : row[ref[1]] # Null => OfUser(ref[2], row[ref[1]])
       /\ k = "label" => \A l \in DOMAIN Tables["label"] :
            OfUser("label", l) /\ Tables["label"][l].name = row.name => l = id
ASSUME LabelledAssumption ==
  \A p \in Labelled :
    /\ p[1] \in DOMAIN Tables["todo"] /\ p[2] \in DOMAIN Tables["label"]
    /\ Tables["todo"][p[1]].user_id = Tables["label"][p[2]].user_id

NameTaken(id, row) == \E l \in Own("label", row.user_id) \ {id} : tables["label"][l].name = row.name
SecondNextAction(id, row) ==
  /\ row.next_action /\ row.project_id # Null
  /\ \E t \in Todos(row.user_id) \ {id} : todo(t).next_action /\ todo(t).project_id = row.project_id

\* Mutant: no unique index on the names of labels.
MutantRefused(kind, id, row) ==
  \/ \E c \in NotNullColumn[kind] : row[c] = Null
  \/ \E ref \in Reference[kind] : row[ref[1]] # Null /\ ~Found(ref[2], row[ref[1]], row.user_id)
  \/ kind = "todo" /\ SecondNextAction(id, row)
Refused(kind, id, row) ==
  \/ \E c \in NotNullColumn[kind] : row[c] = Null
  \/ \E ref \in Reference[kind] : row[ref[1]] # Null /\ ~Found(ref[2], row[ref[1]], row.user_id)
  \/ kind = "label" /\ NameTaken(id, row)
  \/ kind = "todo" /\ SecondNextAction(id, row)

Inserted(kind, user, given) ==
  CASE kind = "epic" -> createEpic(CreateEpicParams(user, Unmarshal(CreateEpicInput, given)))
    [] kind = "project" -> createProject(CreateProjectParams(user, Unmarshal(CreateProjectInput, given)))
    [] kind = "stage" -> createStage(CreateStageParams(user, Unmarshal(CreateStageInput, given)))
    [] kind = "todo" -> createTodo(CreateTodoParams(user, Unmarshal(CreateTodoInput, given)))
    [] kind = "label" -> createLabel(CreateLabelParams(user, Unmarshal(CreateLabelInput, given)))
    [] kind = "note" ->
         createProjectNote(CreateProjectNoteParams(user, Unmarshal(CreateProjectNoteInput, given)))

Updated(kind, row, given) ==
  CASE kind = "epic" -> updateEpic(UpdateEpicParams(Unmarshal(UpdateEpicInput, given)), row)
    [] kind = "project" -> updateProject(UpdateProjectParams(Unmarshal(UpdateProjectInput, given)), row)
    [] kind = "stage" -> updateStage(UpdateStageParams(Unmarshal(UpdateStageInput, given)), row)
    [] kind = "todo" -> updateTodo(UpdateTodoParams(Unmarshal(UpdateTodoInput, given)), row)
    [] kind = "label" -> updateLabel(UpdateLabelParams(Unmarshal(UpdateLabelInput, given)), row)
    [] kind = "note" ->
         updateProjectNote(UpdateProjectNoteParams(Unmarshal(UpdateProjectNoteInput, given)), row)

\* labels only matters for a todo.
Object(kind, id, row, labels) ==
  CASE kind = "epic" -> Epic(toEpic(id, row))
    [] kind = "project" -> Project(toProject(id, row))
    [] kind = "stage" -> Stage(toStage(id, row))
    [] kind = "todo" -> Todo(toTodo(id, row, labels))
    [] kind = "label" -> Label(toLabel(id, row))
    [] kind = "note" -> ProjectNote(toProjectNote(id, row))

Init ==
  /\ tables = Tables
  /\ todo_labels = Labelled
  /\ requests = <<>>
  /\ workload \in Workloads

-----------------------------------------------------------------------------
(* The executor.                                                           *)

Receive(operation) ==
  /\ Len(requests) < MaxRequests
  /\ requests' = Append(requests,
       [at |-> "running", operation |-> operation,
        fields |-> [i \in DOMAIN operation.calls |-> NewField]])
  /\ UNCHANGED <<tables, todo_labels, workload>>

Call(r, i) == requests[r].operation.calls[i]
Caller(r) == requests[r].operation.user
FieldOf(r, i) == requests[r].fields[i]

\* The next statement of a root field may run.
Runs(r, i, at) ==
  /\ requests[r].at = "running"
  /\ FieldOf(r, i).at = at
  /\ requests[r].operation.type = "mutation" => \A j \in 1..(i - 1) : Settled(FieldOf(r, j))

Becomes(r, i, field) ==
  /\ requests' = [requests EXCEPT ![r].fields[i] = field]
  /\ UNCHANGED workload
Reads(r, i, field) == Becomes(r, i, field) /\ UNCHANGED <<tables, todo_labels>>

Goes(r, i, at) == [FieldOf(r, i) EXCEPT !.at = at]
Fails(r, i) == Reads(r, i, [NewField EXCEPT !.at = "failed"])
Answer(objects) == [NewField EXCEPT !.at = "done", !.objects = objects]
\* The rows of todos, whose labels a statement per todo reads.
WithLabels(ids) ==
  IF ids = {} THEN Answer({})
  ELSE [NewField EXCEPT !.at = "labels", !.pending = {<<t, todo(t)>> : t \in ids}]

\* A failed field is null; no root field of a mutation may be, and of a query
\* only those that get one object: the data of the response is null then.
Nullable(call) == call.op = "get"
Respond(r) ==
  LET q == requests[r] IN
  /\ q.at = "running"
  /\ \A i \in DOMAIN q.fields : Settled(q.fields[i])
  /\ requests' = [requests EXCEPT ![r].at =
       IF \E i \in DOMAIN q.fields : q.fields[i].at = "failed" /\ ~Nullable(q.operation.calls[i])
       THEN "null" ELSE "answered"]
  /\ UNCHANGED <<tables, todo_labels, workload>>

\* The client goes away, and its context is cancelled.
Abort(r) ==
  /\ requests[r].at = "running"
  /\ requests' = [requests EXCEPT ![r].at = "aborted"]
  /\ UNCHANGED <<tables, todo_labels, workload>>

\* parseUUID, nullUUID
WellFormed(call) ==
  /\ call.id # Malformed /\ call.label # Malformed
  /\ \A f \in DOMAIN call.given : call.given[f] # Malformed
RefuseArguments(r, i) ==
  /\ Runs(r, i, "new")
  /\ ~WellFormed(Call(r, i))
  /\ Fails(r, i)

Starts(r, i, op) == Runs(r, i, "new") /\ Call(r, i).op = op /\ WellFormed(Call(r, i))

-----------------------------------------------------------------------------
(* Resolvers that write.                                                   *)

With(rows, id, row) == [i \in DOMAIN rows \cup {id} |-> IF i = id THEN row ELSE rows[i]]

\* What a statement that wrote a row answers.
Written(r, i, kind, id, row) ==
  /\ tables' = [tables EXCEPT ![kind] = With(@, id, row)]
  /\ UNCHANGED todo_labels
  /\ Becomes(r, i, IF kind = "todo"
       THEN [NewField EXCEPT !.at = "labels", !.pending = {<<id, row>>}]
       ELSE Answer({Object(kind, id, row, {})}))

Create(r, i) ==
  LET call == Call(r, i)
      row == Inserted(call.kind, Caller(r), call.given) IN
  /\ Starts(r, i, "create")
  /\ IF Refused(call.kind, <<r, i>>, row) THEN Fails(r, i)
     ELSE Written(r, i, call.kind, <<r, i>>, row)

Update(r, i) ==
  LET call == Call(r, i) IN
  /\ Starts(r, i, "update")
  /\ IF ~Found(call.kind, call.id, Caller(r)) THEN Fails(r, i)
     ELSE LET row == Updated(call.kind, tables[call.kind][call.id], call.given) IN
          IF Refused(call.kind, call.id, row) THEN Fails(r, i)
          ELSE Written(r, i, call.kind, call.id, row)

\* deleteTodo, deleteLabel, deleteProjectNote: true, whether the row existed
\* or not.
Delete(r, i) ==
  LET call == Call(r, i)
      gone == {call.id} \cap Own(call.kind, Caller(r)) IN
  /\ Starts(r, i, "delete")
  /\ tables' = [tables EXCEPT ![call.kind] = Restrict(@, DOMAIN @ \ gone)]
  /\ todo_labels' = {p \in todo_labels : ~(call.kind = "todo" /\ p[1] \in gone)
                                           /\ ~(call.kind = "label" /\ p[2] \in gone)}
  /\ Becomes(r, i, Answer({}))

\* The statement looks for both rows in its snapshot ...
AddTodoLabel(r, i) ==
  LET call == Call(r, i) IN
  /\ Starts(r, i, "addTodoLabel")
  /\ Reads(r, i, Goes(r, i,
       IF Found("todo", call.id, Caller(r)) /\ Found("label", call.label, Caller(r))
       THEN "insert" ELSE "get"))

\* ... and the foreign keys look again when it inserts the pair.
MutantInsertTodoLabel(r, i) ==
  LET call == Call(r, i) IN
  /\ Runs(r, i, "insert")
  /\ todo_labels' = todo_labels \cup {<<call.id, call.label>>}
  /\ Becomes(r, i, Goes(r, i, "get"))
  /\ UNCHANGED tables
InsertTodoLabel(r, i) ==
  LET call == Call(r, i) IN
  /\ Runs(r, i, "insert")
  /\ IF call.id \in DOMAIN tables["todo"] /\ call.label \in DOMAIN tables["label"]
     THEN /\ todo_labels' = todo_labels \cup {<<call.id, call.label>>}
          /\ Becomes(r, i, Goes(r, i, "get"))
          /\ UNCHANGED tables
     ELSE Fails(r, i)

RemoveTodoLabel(r, i) ==
  LET call == Call(r, i) IN
  /\ Starts(r, i, "removeTodoLabel")
  /\ todo_labels' = IF Found("todo", call.id, Caller(r))
                    THEN todo_labels \ {<<call.id, call.label>>} ELSE todo_labels
  /\ Becomes(r, i, Goes(r, i, "get"))
  /\ UNCHANGED tables

\* getTodoModel: the todo may be gone by now.
GetTodoModel(r, i) ==
  LET id == Call(r, i).id IN
  /\ Runs(r, i, "get")
  /\ IF Found("todo", id, Caller(r)) THEN Reads(r, i, WithLabels({id})) ELSE Fails(r, i)

-----------------------------------------------------------------------------
(* Resolvers that read.                                                    *)

\* todoWithLabels, todosWithLabels
ReadLabels(r, i) ==
  LET field == FieldOf(r, i) IN
  /\ Runs(r, i, "labels")
  /\ \E p \in field.pending :
       LET labels == {Object("label", l, tables["label"][l], {}) : l \in ListTodoLabels(p[1], Caller(r))}
           rest == field.pending \ {p} IN
       Reads(r, i, [at |-> IF rest = {} THEN "done" ELSE "labels", pending |-> rest,
                    objects |-> field.objects \cup {Object("todo", p[1], p[2], labels)}])

\* epic, project, stage, todo: null when there is no such row.
Get(r, i) ==
  LET call == Call(r, i) IN
  /\ Starts(r, i, "get")
  /\ Reads(r, i,
       IF ~Found(call.kind, call.id, Caller(r)) THEN [NewField EXCEPT !.at = "null"]
       ELSE IF call.kind = "todo" THEN WithLabels({call.id})
       ELSE Answer({Object(call.kind, call.id, tables[call.kind][call.id], {})}))

\* epics, projects, stages, labels, projectNotes
Rows(call, user) ==
  CASE call.kind = "epic" -> ListEpics(user)
    [] call.kind = "project" -> ListProjects(user, call.id)
    [] call.kind = "stage" -> ListStages(user, call.id)
    [] call.kind = "label" -> ListLabels(user)
    [] call.kind = "note" -> ListProjectNotes(user, call.id)
List(r, i) ==
  LET call == Call(r, i) IN
  /\ Starts(r, i, "list")
  /\ Reads(r, i, Answer({Object(call.kind, id, tables[call.kind][id], {}) : id \in Rows(call, Caller(r))}))

\* todoList
View(call, user) ==
  CASE call.kind = "todos" -> ListTodos(user, Unmarshal(TodoFilter, call.given))
    [] call.kind = "inbox" -> ListInboxTodos(user)
    [] call.kind = "openTodos" -> ListOpenTodos(user)
    [] call.kind = "overdueTodos" -> ListOverdueTodos(user)
    [] call.kind = "nextActions" -> ListNextActionTodos(user)
    [] call.kind = "doneTodos" -> ListDoneTodos(user)
TodoList(r, i) ==
  /\ Starts(r, i, "view")
  /\ Reads(r, i, WithLabels(View(Call(r, i), Caller(r))))

\* dashboard, projectProgress, stageProgress
Count(r, i) ==
  LET call == Call(r, i) IN
  /\ Starts(r, i, "count")
  /\ Reads(r, i, Answer({
       CASE call.kind = "dashboard" -> Dashboard(DashboardCounts(Caller(r)))
         [] call.kind = "project" -> Progress(ProjectProgress(Caller(r), call.id))
         [] call.kind = "stage" -> Progress(StageProgress(Caller(r), call.id))}))

Resolve(r, i) ==
  \/ RefuseArguments(r, i)
  \/ Create(r, i) \/ Update(r, i) \/ Delete(r, i)
  \/ AddTodoLabel(r, i) \/ InsertTodoLabel(r, i) \/ RemoveTodoLabel(r, i) \/ GetTodoModel(r, i)
  \/ ReadLabels(r, i) \/ Get(r, i) \/ List(r, i) \/ TodoList(r, i) \/ Count(r, i)

Next ==
  \/ \E operation \in workload : Receive(operation)
  \/ \E r \in DOMAIN requests :
       Respond(r) \/ Abort(r) \/ \E i \in DOMAIN requests[r].fields : Resolve(r, i)

Spec == Init /\ [][Next]_vars

-----------------------------------------------------------------------------
(* Properties.                                                             *)

\* The columns of enumerations hold values that GraphQL can show, no column
\* that a non-null field shows is NULL, and no user has two labels of a name,
\* whatever requests meet.
TypeOK ==
  /\ \A k \in Kind : \A id \in DOMAIN tables[k] :
       /\ tables[k][id].user_id \in User
       /\ \A c \in NotNullColumn[k] : tables[k][id][c] # Null
  /\ \A p \in DOMAIN tables["project"] : tables["project"][p].status \in ProjectStatus
  /\ \A s \in DOMAIN tables["stage"] : tables["stage"][s].status \in StageStatus
  /\ \A t \in DOMAIN tables["todo"] :
       todo(t).status \in TodoStatus /\ todo(t).priority \in TodoPriority
         /\ todo(t).recurrence \in Recurrence
  /\ \A l \in DOMAIN tables["label"] : ~NameTaken(l, tables["label"][l])
  /\ \A r \in DOMAIN requests : \A i \in DOMAIN requests[r].fields :
       Null \notin FieldOf(r, i).objects

\* Every reference of a row, and every label of a todo, is to a row that
\* exists and belongs to the same user, also when the label or the todo is
\* deleted while addTodoLabel runs.
RowsOfOneUser ==
  /\ \A k \in Kind : \A id \in DOMAIN tables[k] : \A ref \in Reference[k] :
       LET row == tables[k][id] IN
       row[ref[1]] # Null => row[ref[1]] \in Own(ref[2], row.user_id)
  /\ \A p \in todo_labels : \E u \in User : p[1] \in Todos(u) /\ p[2] \in Own("label", u)

\* The views, the dashboard and the progress of a user are about the same
\* todos: the counts are those of the lists, each todo is either open or
\* done, an overdue todo is open and not upcoming, the inbox and the lists
\* of the projects share out the todos, and progress is complete exactly
\* when every todo is done.
ViewsAgree ==
  \A u \in User :
    LET counts == DashboardCounts(u)
        all == [projectId |-> Null, stageId |-> Null, labelId |-> Null, priority |-> Null, status |-> Null]
        projects == Own("project", u)
        of(p) == ListTodos(u, [all EXCEPT !.projectId = p])
        done(p) == ListTodos(u, [all EXCEPT !.projectId = p, !.status = "DONE"]) IN
    /\ ListTodos(u, all) = ListOpenTodos(u) \cup ListDoneTodos(u)
    /\ ListOpenTodos(u) \cap ListDoneTodos(u) = {}
    /\ counts.openTodos = Cardinality(ListOpenTodos(u))
    /\ counts.overdueTodos = Cardinality(ListOverdueTodos(u))
    /\ counts.nextActions = Cardinality(ListNextActionTodos(u))
    /\ counts.overdueTodos + counts.upcomingDeadlines <= counts.openTodos
    /\ \A t \in Todos(u) : (t \in ListInboxTodos(u)) # (\E p \in projects : t \in of(p))
    /\ \A p \in projects :
         LET progress == ProjectProgress(u, p) IN
         /\ progress.total = Cardinality(of(p)) /\ progress.done = Cardinality(done(p))
         /\ (progress.percent = 100) <=> (of(p) # {} /\ of(p) = done(p))

\* A create is refused only for a reference to a row that is not the user's,
\* an identifier that is none or a label's name that is taken, never for a
\* field the schema lets a client leave out or set to null.
CreateAccepted ==
  [][\A r \in DOMAIN requests : \A i \in DOMAIN requests[r].fields :
       LET call == Call(r, i) IN
       (call.op = "create" /\ FieldOf(r, i).at = "new" /\ requests'[r].fields[i].at = "failed")
         => \/ ~WellFormed(call)
            \/ call.kind = "label" /\ \E l \in Own("label", Caller(r)) :
                 tables["label"][l].name = call.given.name
            \/ \E ref \in {<<"epicId", "epic">>, <<"projectId", "project">>, <<"stageId", "stage">>} :
                 ref[1] \in DOMAIN call.given /\ call.given[ref[1]] # Null
                   /\ call.given[ref[1]] \notin Own(ref[2], Caller(r))]_vars

\* A request changes, adds, removes, labels and answers rows of its own user
\* only.
OwnRowsOnly ==
  [][\A r \in DOMAIN requests : requests'[r] # requests[r] =>
       LET u == Caller(r) IN
       /\ \A k \in Kind : \A id \in DOMAIN tables[k] \cup DOMAIN tables'[k] :
            \/ id \in DOMAIN tables[k] \cap DOMAIN tables'[k] /\ tables'[k][id] = tables[k][id]
            \/ /\ id \in DOMAIN tables[k] => tables[k][id].user_id = u
               /\ id \in DOMAIN tables'[k] => tables'[k][id].user_id = u
       /\ \A p \in (todo_labels \ todo_labels') \cup (todo_labels' \ todo_labels) :
            \/ p[1] \in Todos(u)
            \/ p[2] \in Own("label", u)
       /\ \A i \in DOMAIN requests'[r].fields :
            /\ \A p \in requests'[r].fields[i].pending : p[2].user_id = u
            /\ Call(r, i).op \in {"get", "list"} => \A o \in requests'[r].fields[i].objects :
                 FieldOf(r, i).at = "new" => \E k \in Kind : o.id \in Own(k, u)]_vars

-----------------------------------------------------------------------------
(* The objects that the rows show are those of module Records.             *)

Calls == UNION {UNION {{o.calls[i] : i \in DOMAIN o.calls} : o \in w} : w \in Workloads}
Inputs(op) ==
  [k \in Kind |-> {c.given : c \in {c \in Calls : c.op = op /\ c.kind = k}}]

Defaults ==
  [epic |-> [name |-> Null, description |-> Null, color |-> Null, position |-> 0],
   project |-> [epicId |-> Null, name |-> Null, description |-> Null, status |-> "ACTIVE",
                startDate |-> Null, targetDate |-> Null, position |-> 0],
   stage |-> [projectId |-> Null, name |-> Null, description |-> Null, status |-> "PLANNED",
              startDate |-> Null, targetDate |-> Null, position |-> 0],
   todo |-> [projectId |-> Null, stageId |-> Null, title |-> Null, description |-> Null,
             priority |-> "NORMAL", status |-> "OPEN", startDate |-> Null, dueDate |-> Null,
             estimatedEffort |-> Null, position |-> 0, nextAction |-> FALSE, milestone |-> FALSE,
             recurrence |-> "NONE"],
   label |-> [name |-> Null, color |-> Null],
   note |-> [projectId |-> Null, body |-> Null]]

Shown(k, id) == Restrict(Object(k, id, tables[k][id], {}), DOMAIN Defaults[k])

Promise ==
  INSTANCE Records WITH
    Field <- [k \in Kind |-> DOMAIN Defaults[k]],
    Default <- Defaults,
    Given <- Inputs("create"),
    Change <- Inputs("update"),
    shown <- [k \in Kind |-> [id \in DOMAIN tables[k] |-> Shown(k, id)]],
    labelled <- todo_labels

\* Whatever requests run at the same time: an object shows what its creation
\* and its later updates named, an update loses nothing of another one, and no
\* field takes the value of another on the way through input, parameters,
\* columns and answer.
ImplementsRecords == Promise!Spec
=============================================================================
