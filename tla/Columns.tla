------------------------------ MODULE Columns ------------------------------
(***************************************************************************)
(* What a value passes on its way from a GraphQL input to a column and     *)
(* back: the input object (generated unmarshalInput functions), the        *)
(* parameters the resolver makes of it, the columns the SQL statement      *)
(* writes, the model the resolver makes of the row, the object that        *)
(* answers.                                                                *)
(*                                                                         *)
(* A nil pointer, an invalid sql.Null value, SQL's NULL and GraphQL's null *)
(* are all Null, so nullString, enumString, optionalInt and their inverses *)
(* have nothing to do here.  Left out: created_at, updated_at,             *)
(* completed_at (module Todos) and positions beyond 32 bits.  The order of *)
(* placeholders, arguments and scanned columns is that of the names.       *)
(***************************************************************************)
CONSTANTS
  Null,
  Day  \* the calendar day, in its own time zone, of each time a client sends

ASSUME DayAssumption == \A t \in DOMAIN Day : Day[t] # Null

Coalesce(a, b) == IF a = Null THEN b ELSE a
NoDefault == [f \in {} |-> Null]

\* The input object: a default stands for an omitted field, never for a null.
Unmarshal(input, given) ==
  [f \in input.fields |->
    IF f \in DOMAIN given THEN given[f]
    ELSE IF f \in DOMAIN input.default THEN input.default[f] ELSE Null]

nullTime(value) == IF value = Null THEN Null ELSE Day[value]

\* An object with a null in a field that the schema says is never null is
\* null itself.  NonNullEpic, NonNullProject, ...: those fields.
NonNull(object, fields) == IF \E f \in fields : object[f] = Null THEN Null ELSE object

ProjectStatus == {"ACTIVE", "PAUSED", "DONE", "ARCHIVED"}
StageStatus == {"PLANNED", "IN_PROGRESS", "DONE"}
TodoPriority == {"LOW", "NORMAL", "HIGH", "CRITICAL"}
TodoStatus == {"OPEN", "IN_PROGRESS", "DONE", "BLOCKED"}
Recurrence == {"NONE", "DAILY", "WEEKLY", "MONTHLY", "YEARLY"}

-----------------------------------------------------------------------------
(* Epics.                                                                  *)

CreateEpicInput == [fields |-> {"name", "description", "color", "position"}, default |-> NoDefault]
UpdateEpicInput == [fields |-> {"name", "description", "color", "position"}, default |-> NoDefault]

CreateEpicParams(user, input) ==
  [UserID |-> user, Name |-> input.name, Description |-> input.description,
   Color |-> input.color, Position |-> input.position]
UpdateEpicParams(input) ==
  [Name |-> input.name, Description |-> input.description,
   Color |-> input.color, Position |-> input.position]

createEpic(arg) ==
  [user_id |-> arg.UserID, name |-> arg.Name, description |-> arg.Description,
   color |-> arg.Color, position |-> Coalesce(arg.Position, 0)]

\* Mutant: COALESCE forgotten, an omitted color is cleared.
MutantupdateEpic(arg, row) ==
  [row EXCEPT !.name = Coalesce(arg.Name, @), !.description = Coalesce(arg.Description, @),
              !.color = arg.Color, !.position = Coalesce(arg.Position, @)]
updateEpic(arg, row) ==
  [row EXCEPT !.name = Coalesce(arg.Name, @), !.description = Coalesce(arg.Description, @),
              !.color = Coalesce(arg.Color, @), !.position = Coalesce(arg.Position, @)]

toEpic(id, epic) ==
  [id |-> id, name |-> epic.name, description |-> epic.description,
   color |-> epic.color, position |-> epic.position]
NonNullEpic == {"id", "name", "position"}
Epic(object) == NonNull(object, NonNullEpic)

-----------------------------------------------------------------------------
(* Projects.                                                               *)

CreateProjectInput ==
  [fields |-> {"epicId", "name", "description", "status", "startDate", "targetDate", "position"},
   default |-> [status |-> "ACTIVE"]]
UpdateProjectInput ==
  [fields |-> {"epicId", "name", "description", "status", "startDate", "targetDate", "position"},
   default |-> NoDefault]

CreateProjectParams(user, input) ==
  [UserID |-> user, EpicID |-> input.epicId, Name |-> input.name,
   Description |-> input.description, Status |-> input.status,
   StartDate |-> nullTime(input.startDate), TargetDate |-> nullTime(input.targetDate),
   Position |-> input.position]
UpdateProjectParams(input) ==
  [EpicID |-> input.epicId, Name |-> input.name, Description |-> input.description,
   Status |-> input.status, StartDate |-> nullTime(input.startDate),
   TargetDate |-> nullTime(input.targetDate), Position |-> input.position]

createProject(arg) ==
  [user_id |-> arg.UserID, epic_id |-> arg.EpicID, name |-> arg.Name,
   description |-> arg.Description, status |-> Coalesce(arg.Status, "ACTIVE"),
   start_date |-> arg.StartDate, target_date |-> arg.TargetDate,
   position |-> Coalesce(arg.Position, 0)]
updateProject(arg, row) ==
  [row EXCEPT !.epic_id = Coalesce(arg.EpicID, @), !.name = Coalesce(arg.Name, @),
              !.description = Coalesce(arg.Description, @), !.status = Coalesce(arg.Status, @),
              !.start_date = Coalesce(arg.StartDate, @), !.target_date = Coalesce(arg.TargetDate, @),
              !.position = Coalesce(arg.Position, @)]

toProject(id, project) ==
  [id |-> id, epicId |-> project.epic_id, name |-> project.name,
   description |-> project.description, status |-> project.status,
   startDate |-> project.start_date, targetDate |-> project.target_date,
   position |-> project.position]
NonNullProject == {"id", "name", "status", "position"}
Project(object) == NonNull(object, NonNullProject)

-----------------------------------------------------------------------------
(* Stages.                                                                 *)

CreateStageInput ==
  [fields |-> {"projectId", "name", "description", "status", "startDate", "targetDate", "position"},
   default |-> [status |-> "PLANNED"]]
UpdateStageInput ==
  [fields |-> {"name", "description", "status", "startDate", "targetDate", "position"},
   default |-> NoDefault]

CreateStageParams(user, input) ==
  [UserID |-> user, ProjectID |-> input.projectId, Name |-> input.name,
   Description |-> input.description, Status |-> input.status,
   StartDate |-> nullTime(input.startDate), TargetDate |-> nullTime(input.targetDate),
   Position |-> input.position]
UpdateStageParams(input) ==
  [Name |-> input.name, Description |-> input.description, Status |-> input.status,
   StartDate |-> nullTime(input.startDate), TargetDate |-> nullTime(input.targetDate),
   Position |-> input.position]

\* Mutant: the statement relies on the column's default, which an explicit
\* NULL does not take.
MutantcreateStage(arg) ==
  [user_id |-> arg.UserID, project_id |-> arg.ProjectID, name |-> arg.Name,
   description |-> arg.Description, status |-> arg.Status,
   start_date |-> arg.StartDate, target_date |-> arg.TargetDate,
   position |-> Coalesce(arg.Position, 0)]
createStage(arg) ==
  [user_id |-> arg.UserID, project_id |-> arg.ProjectID, name |-> arg.Name,
   description |-> arg.Description, status |-> Coalesce(arg.Status, "PLANNED"),
   start_date |-> arg.StartDate, target_date |-> arg.TargetDate,
   position |-> Coalesce(arg.Position, 0)]
updateStage(arg, row) ==
  [row EXCEPT !.name = Coalesce(arg.Name, @), !.description = Coalesce(arg.Description, @),
              !.status = Coalesce(arg.Status, @), !.start_date = Coalesce(arg.StartDate, @),
              !.target_date = Coalesce(arg.TargetDate, @), !.position = Coalesce(arg.Position, @)]

toStage(id, stage) ==
  [id |-> id, projectId |-> stage.project_id, name |-> stage.name,
   description |-> stage.description, status |-> stage.status,
   startDate |-> stage.start_date, targetDate |-> stage.target_date,
   position |-> stage.position]
NonNullStage == {"id", "name", "status", "position"}
Stage(object) == NonNull(object, NonNullStage)

-----------------------------------------------------------------------------
(* Todos.                                                                  *)

CreateTodoInput ==
  [fields |-> {"projectId", "stageId", "title", "description", "priority", "status", "startDate",
               "dueDate", "estimatedEffort", "position", "nextAction", "milestone", "recurrence"},
   default |-> [priority |-> "NORMAL", status |-> "OPEN", nextAction |-> FALSE,
                milestone |-> FALSE, recurrence |-> "NONE"]]
UpdateTodoInput ==
  [fields |-> {"projectId", "stageId", "title", "description", "priority", "status", "startDate",
               "dueDate", "estimatedEffort", "position", "nextAction", "milestone", "recurrence"},
   default |-> NoDefault]

\* createTodo inserts an unflagged todo and flags it later (module Todos).
CreateTodoParams(user, input) ==
  [UserID |-> user, ProjectID |-> input.projectId, StageID |-> input.stageId,
   Title |-> input.title, Description |-> input.description, Priority |-> input.priority,
   Status |-> input.status, StartDate |-> nullTime(input.startDate),
   DueDate |-> nullTime(input.dueDate), EstimatedEffort |-> input.estimatedEffort,
   Position |-> input.position, NextAction |-> FALSE, Milestone |-> input.milestone,
   Recurrence |-> input.recurrence]
UpdateTodoParams(input) ==
  [ProjectID |-> input.projectId, StageID |-> input.stageId, Title |-> input.title,
   Description |-> input.description, Priority |-> input.priority, Status |-> input.status,
   StartDate |-> nullTime(input.startDate), DueDate |-> nullTime(input.dueDate),
   EstimatedEffort |-> input.estimatedEffort, Position |-> input.position,
   NextAction |-> input.nextAction, Milestone |-> input.milestone,
   Recurrence |-> input.recurrence]

createTodo(arg) ==
  [user_id |-> arg.UserID, project_id |-> arg.ProjectID, stage_id |-> arg.StageID,
   title |-> arg.Title, description |-> arg.Description,
   priority |-> Coalesce(arg.Priority, "NORMAL"), status |-> Coalesce(arg.Status, "OPEN"),
   start_date |-> arg.StartDate, due_date |-> arg.DueDate,
   estimated_effort |-> arg.EstimatedEffort, position |-> Coalesce(arg.Position, 0),
   next_action |-> Coalesce(arg.NextAction, FALSE), milestone |-> Coalesce(arg.Milestone, FALSE),
   recurrence |-> Coalesce(arg.Recurrence, "NONE")]
updateTodo(arg, row) ==
  [row EXCEPT !.project_id = Coalesce(arg.ProjectID, @), !.stage_id = Coalesce(arg.StageID, @),
              !.title = Coalesce(arg.Title, @), !.description = Coalesce(arg.Description, @),
              !.priority = Coalesce(arg.Priority, @), !.status = Coalesce(arg.Status, @),
              !.start_date = Coalesce(arg.StartDate, @), !.due_date = Coalesce(arg.DueDate, @),
              !.estimated_effort = Coalesce(arg.EstimatedEffort, @),
              !.position = Coalesce(arg.Position, @), !.next_action = Coalesce(arg.NextAction, @),
              !.milestone = Coalesce(arg.Milestone, @), !.recurrence = Coalesce(arg.Recurrence, @)]

toTodo(id, todo, labels) ==
  [id |-> id, projectId |-> todo.project_id, stageId |-> todo.stage_id, title |-> todo.title,
   description |-> todo.description, priority |-> todo.priority, status |-> todo.status,
   labels |-> labels, startDate |-> todo.start_date, dueDate |-> todo.due_date,
   estimatedEffort |-> todo.estimated_effort, position |-> todo.position,
   nextAction |-> todo.next_action, milestone |-> todo.milestone, recurrence |-> todo.recurrence]
NonNullTodo ==
  {"id", "title", "priority", "status", "labels", "position", "nextAction", "milestone", "recurrence"}
Todo(object) == NonNull(object, NonNullTodo)

-----------------------------------------------------------------------------
(* Labels and notes.                                                       *)

CreateLabelInput == [fields |-> {"name", "color"}, default |-> NoDefault]
UpdateLabelInput == [fields |-> {"name", "color"}, default |-> NoDefault]

CreateLabelParams(user, input) == [UserID |-> user, Name |-> input.name, Color |-> input.color]
UpdateLabelParams(input) == [Name |-> input.name, Color |-> input.color]

createLabel(arg) == [user_id |-> arg.UserID, name |-> arg.Name, color |-> arg.Color]
updateLabel(arg, row) ==
  [row EXCEPT !.name = Coalesce(arg.Name, @), !.color = Coalesce(arg.Color, @)]

toLabel(id, label) == [id |-> id, name |-> label.name, color |-> label.color]
NonNullLabel == {"id", "name"}
Label(object) == NonNull(object, NonNullLabel)

CreateProjectNoteInput == [fields |-> {"projectId", "body"}, default |-> NoDefault]
UpdateProjectNoteInput == [fields |-> {"body"}, default |-> NoDefault]

CreateProjectNoteParams(user, input) ==
  [UserID |-> user, ProjectID |-> input.projectId, Body |-> input.body]
UpdateProjectNoteParams(input) == [Body |-> input.body]

createProjectNote(arg) ==
  [user_id |-> arg.UserID, project_id |-> arg.ProjectID, body |-> arg.Body]
updateProjectNote(arg, row) == [row EXCEPT !.body = Coalesce(arg.Body, @)]

toProjectNote(id, note) == [id |-> id, projectId |-> note.project_id, body |-> note.body]
NonNullProjectNote == {"id", "projectId", "body"}
ProjectNote(object) == NonNull(object, NonNullProjectNote)
=============================================================================
