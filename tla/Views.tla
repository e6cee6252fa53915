-------------------------------- MODULE Views --------------------------------
(***************************************************************************)
(* What the SELECT statements return: single rows, lists, views and        *)
(* counts.  The result of a list is the set of the identifiers of its      *)
(* rows; ORDER BY is left out.                                             *)
(***************************************************************************)
EXTENDS Columns, Naturals, FiniteSets

CONSTANTS
  Past,  \* the days before CURRENT_DATE
  Week   \* CURRENT_DATE and the seven days after it

ASSUME DaysAssumption == Past \cap Week = {} /\ Null \notin Past \cup Week

VARIABLES
  tables,      \* per table, the committed rows by identifier
  todo_labels  \* pairs of a todo and a label

Own(kind, user) == {id \in DOMAIN tables[kind] : tables[kind][id].user_id = user}

\* Mutant: AND user_id = $2 forgotten.
MutantFound(kind, id, user) == id \in DOMAIN tables[kind]
\* WHERE id = $1 AND user_id = $2
Found(kind, id, user) == id \in Own(kind, user)

\* ($2::uuid IS NULL OR column = $2::uuid)
Matches(value, wanted) == wanted = Null \/ value = wanted

ListEpics(user) == Own("epic", user)
ListProjects(user, epic) ==
  {p \in Own("project", user) : Matches(tables["project"][p].epic_id, epic)}
ListStages(user, project) ==
  {s \in Own("stage", user) : Matches(tables["stage"][s].project_id, project)}
ListLabels(user) == Own("label", user)
ListProjectNotes(user, project) ==
  {n \in Own("note", user) : tables["note"][n].project_id = project}

ListTodoLabels(todo, user) == {l \in Own("label", user) : <<todo, l>> \in todo_labels}

Todos(user) == Own("todo", user)
todo(id) == tables["todo"][id]
Unfinished(id) == todo(id).status \in {"OPEN", "IN_PROGRESS", "BLOCKED"}

ListTodos(user, filter) ==
  {t \in Todos(user) :
     /\ Matches(todo(t).project_id, filter.projectId)
     /\ Matches(todo(t).stage_id, filter.stageId)
     /\ filter.labelId = Null \/ <<t, filter.labelId>> \in todo_labels
     /\ Matches(todo(t).priority, filter.priority)
     /\ Matches(todo(t).status, filter.status)}
TodoFilter == [fields |-> {"projectId", "stageId", "labelId", "priority", "status"},
               default |-> NoDefault]

ListInboxTodos(user) == {t \in Todos(user) : todo(t).project_id = Null}
\* Mutant: BLOCKED forgotten.
MutantListOpenTodos(user) == {t \in Todos(user) : todo(t).status \in {"OPEN", "IN_PROGRESS"}}
ListOpenTodos(user) == {t \in Todos(user) : Unfinished(t)}
ListOverdueTodos(user) == {t \in Todos(user) : todo(t).due_date \in Past /\ Unfinished(t)}
ListNextActionTodos(user) == {t \in Todos(user) : todo(t).next_action}
ListDoneTodos(user) == {t \in Todos(user) : todo(t).status = "DONE"}

Upcoming(user) == {t \in Todos(user) : todo(t).due_date \in Week /\ Unfinished(t)}

DashboardCounts(user) ==
  [openTodos |-> Cardinality({t \in Todos(user) : Unfinished(t)}),
   overdueTodos |-> Cardinality({t \in Todos(user) : todo(t).due_date \in Past /\ Unfinished(t)}),
   nextActions |-> Cardinality({t \in Todos(user) : todo(t).next_action}),
   activeProjects |-> Cardinality({p \in Own("project", user) : tables["project"][p].status = "ACTIVE"}),
   upcomingDeadlines |-> Cardinality(Upcoming(user))]
NonNullDashboard ==
  {"openTodos", "overdueTodos", "nextActions", "activeProjects", "upcomingDeadlines"}
Dashboard(object) == NonNull(object, NonNullDashboard)

\* done * 100 does not leave 32 bits below 21 million todos.
progressModel(all, done) ==
  [total |-> all, done |-> done, percent |-> IF all > 0 THEN (done * 100) \div all ELSE 0]
ProjectProgress(user, project) ==
  LET T == {t \in Todos(user) : todo(t).project_id = project} IN
  progressModel(Cardinality(T), Cardinality({t \in T : todo(t).status = "DONE"}))
StageProgress(user, stage) ==
  LET T == {t \in Todos(user) : todo(t).stage_id = stage} IN
  progressModel(Cardinality(T), Cardinality({t \in T : todo(t).status = "DONE"}))
NonNullProgress == {"total", "done", "percent"}
Progress(object) == NonNull(object, NonNullProgress)
=============================================================================
