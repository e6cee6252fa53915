------------------------------ MODULE ApiProofs ------------------------------
(***************************************************************************)
(* Proofs about module Api, for any number of users, rows and requests,    *)
(* and for every set of operations that GraphQL lets through.              *)
(***************************************************************************)
EXTENDS Api, FiniteSetTheorems, SequenceTheorems, TLAPS

-----------------------------------------------------------------------------
(* The inductive invariant.                                                *)

RowOK(k, row) ==
  /\ DOMAIN row = Column[k] /\ row.user_id \in User
  /\ \A c \in NotNullColumn[k] : row[c] # Null
  /\ \A c \in DOMAIN Enumeration[k] : row[c] \in Enumeration[k][c]

RowsOK ==
  /\ DOMAIN tables = Kind
  /\ \A k \in Kind : /\ IsFiniteSet(DOMAIN tables[k])
                     /\ \A id \in DOMAIN tables[k] : id # Null /\ RowOK(k, tables[k][id])
  /\ \A l \in DOMAIN tables["label"] : ~NameTaken(l, tables["label"][l])

\* The field has been resolved, or its resolver is under way.
Begun(r, i) ==
  r \in DOMAIN requests /\ i \in DOMAIN requests[r].fields /\ FieldOf(r, i).at # "new"

\* An identifier of which no row will be inserted any more.
Given(id) == id \in NewId => Begun(id[1], id[2])

IdsGiven == \A k \in Kind : \A id \in DOMAIN tables[k] : Given(id)

\* A row that is there, or that was there, belongs to the user.
Of(kind, id, user) == Given(id) /\ (id \in DOMAIN tables[kind] => id \in Own(kind, user))

FieldOK(user, f) ==
  /\ f = [at |-> f.at, pending |-> f.pending, objects |-> f.objects]
  /\ \A p \in f.pending : p[1] # Null /\ RowOK("todo", p[2]) /\ p[2].user_id = user

RequestOK(r) ==
  /\ requests[r] = [at |-> requests[r].at, operation |-> requests[r].operation,
                    fields |-> requests[r].fields]
  /\ \E w \in Workloads : requests[r].operation \in w
  /\ DOMAIN requests[r].fields = DOMAIN requests[r].operation.calls
  /\ \A i \in DOMAIN requests[r].fields :
       /\ FieldOK(Caller(r), FieldOf(r, i))
       /\ FieldOf(r, i).at = "insert" =>
            Of("todo", Call(r, i).id, Caller(r)) /\ Of("label", Call(r, i).label, Caller(r))

RequestsOK ==
  /\ workload \in Workloads
  /\ requests \in Seq({requests[r] : r \in DOMAIN requests})
  /\ Len(requests) <= MaxRequests
  /\ \A r \in DOMAIN requests : RequestOK(r)

ApiInv == RowsOK /\ RowsOfOneUser /\ IdsGiven /\ RequestsOK

-----------------------------------------------------------------------------
(* The columns of the rows that the statements write.                      *)

LEMMA UnmarshalValue ==
  ASSUME NEW input, NEW given, NEW f \in input.fields
  PROVE  /\ f \in DOMAIN given => Unmarshal(input, given)[f] = given[f]
         /\ f \notin DOMAIN given /\ f \in DOMAIN input.default =>
              Unmarshal(input, given)[f] = input.default[f]
         /\ f \notin DOMAIN given /\ f \notin DOMAIN input.default => Unmarshal(input, given)[f] = Null
BY DEF Unmarshal

\* A reference of a row that is about to be inserted is the one given.
FromGiven(given, f, value) == value # Null => f \in DOMAIN given /\ given[f] = value

LEMMA CoalesceFalse ==
  ASSUME NEW a
  PROVE  Coalesce(a, FALSE) # Null
<1>1. FALSE # Null
  BY NullAssumption, Zenon
<1> QED BY <1>1, Zenon DEF Coalesce

LEMMA InsertedEpic ==
  ASSUME NEW user \in User, NEW call, IsCall(call), call.op = "create", call.kind = "epic"
  PROVE  LET row == Inserted("epic", user, call.given) IN
         RowOK("epic", row) /\ row.user_id = user
<1> DEFINE given == call.given
           input == Unmarshal(CreateEpicInput, given)
           arg == CreateEpicParams(user, input)
<1>1. "name" \in DOMAIN given /\ given.name # Null
  BY DEF IsCall, Required
<1>2. input.name = given.name
  BY <1>1, UnmarshalValue DEF CreateEpicInput
<1>3. arg.UserID = user /\ arg.Name = input.name
  BY DEF CreateEpicParams
<1>4. Inserted("epic", user, given) = createEpic(arg)
  BY DEF Inserted
<1> HIDE DEF input, arg
<1>5. /\ DOMAIN createEpic(arg) = Column["epic"] /\ createEpic(arg).user_id = user
      /\ createEpic(arg).name # Null /\ createEpic(arg).position # Null
  BY <1>1, <1>2, <1>3, NullAssumption DEF createEpic, Column, Coalesce
<1> QED BY <1>4, <1>5 DEF RowOK, NotNullColumn, Enumeration, NoDefault

LEMMA InsertedProject ==
  ASSUME NEW user \in User, NEW call, IsCall(call), call.op = "create", call.kind = "project"
  PROVE  LET row == Inserted("project", user, call.given) IN
         /\ RowOK("project", row) /\ row.user_id = user
         /\ FromGiven(call.given, "epicId", row.epic_id)
<1> DEFINE given == call.given
           input == Unmarshal(CreateProjectInput, given)
           arg == CreateProjectParams(user, input)
<1>1. /\ "name" \in DOMAIN given /\ given.name # Null
      /\ "status" \in DOMAIN given => given.status \in ProjectStatus \cup {Null}
  BY DEF IsCall, Required, Enumeration, Kind
<1>2. /\ input.name = given.name
      /\ input.status \in ProjectStatus \cup {Null}
      /\ FromGiven(given, "epicId", input.epicId)
  BY <1>1, UnmarshalValue DEF CreateProjectInput, ProjectStatus, FromGiven
<1>3. /\ arg.UserID = user /\ arg.Name = input.name /\ arg.Status = input.status
      /\ arg.EpicID = input.epicId
  BY DEF CreateProjectParams
<1>4. Inserted("project", user, given) = createProject(arg)
  BY DEF Inserted
<1> HIDE DEF input, arg
<1>5. /\ DOMAIN createProject(arg) = Column["project"] /\ createProject(arg).user_id = user
      /\ createProject(arg).name # Null /\ createProject(arg).position # Null
      /\ createProject(arg).status \in ProjectStatus /\ createProject(arg).epic_id = input.epicId
  BY <1>1, <1>2, <1>3, NullAssumption DEF createProject, Column, Coalesce, ProjectStatus
<1>6. createProject(arg).status # Null
  BY <1>5, NullAssumption
<1> QED BY <1>2, <1>4, <1>5, <1>6 DEF RowOK, NotNullColumn, Enumeration

LEMMA InsertedStage ==
  ASSUME NEW user \in User, NEW call, IsCall(call), call.op = "create", call.kind = "stage"
  PROVE  LET row == Inserted("stage", user, call.given) IN
         /\ RowOK("stage", row) /\ row.user_id = user
         /\ FromGiven(call.given, "projectId", row.project_id)
<1> DEFINE given == call.given
           input == Unmarshal(CreateStageInput, given)
           arg == CreateStageParams(user, input)
<1>1. /\ "name" \in DOMAIN given /\ given.name # Null
      /\ "status" \in DOMAIN given => given.status \in StageStatus \cup {Null}
  BY DEF IsCall, Required, Enumeration, Kind
<1>2. /\ input.name = given.name
      /\ input.status \in StageStatus \cup {Null}
      /\ FromGiven(given, "projectId", input.projectId)
  BY <1>1, UnmarshalValue DEF CreateStageInput, StageStatus, FromGiven
<1>3. /\ arg.UserID = user /\ arg.Name = input.name /\ arg.Status = input.status
      /\ arg.ProjectID = input.projectId
  BY DEF CreateStageParams
<1>4. Inserted("stage", user, given) = createStage(arg)
  BY DEF Inserted
<1> HIDE DEF input, arg
<1>5. /\ DOMAIN createStage(arg) = Column["stage"] /\ createStage(arg).user_id = user
      /\ createStage(arg).name # Null /\ createStage(arg).position # Null
      /\ createStage(arg).status \in StageStatus /\ createStage(arg).project_id = input.projectId
  BY <1>1, <1>2, <1>3, NullAssumption DEF createStage, Column, Coalesce, StageStatus
<1>6. createStage(arg).status # Null
  BY <1>5, NullAssumption
<1> QED BY <1>2, <1>4, <1>5, <1>6 DEF RowOK, NotNullColumn, Enumeration

LEMMA InsertedTodo ==
  ASSUME NEW user \in User, NEW call, IsCall(call), call.op = "create", call.kind = "todo"
  PROVE  LET row == Inserted("todo", user, call.given) IN
         /\ RowOK("todo", row) /\ row.user_id = user /\ row.next_action = FALSE
         /\ FromGiven(call.given, "projectId", row.project_id)
         /\ FromGiven(call.given, "stageId", row.stage_id)
<1> DEFINE given == call.given
           input == Unmarshal(CreateTodoInput, given)
           arg == CreateTodoParams(user, input)
<1>1. /\ "title" \in DOMAIN given /\ given.title # Null
      /\ "status" \in DOMAIN given => given.status \in TodoStatus \cup {Null}
      /\ "priority" \in DOMAIN given => given.priority \in TodoPriority \cup {Null}
      /\ "recurrence" \in DOMAIN given => given.recurrence \in Recurrence \cup {Null}
  BY DEF IsCall, Required, Enumeration, Kind
<1>2. /\ input.title = given.title
      /\ input.status \in TodoStatus \cup {Null}
      /\ input.priority \in TodoPriority \cup {Null}
      /\ input.recurrence \in Recurrence \cup {Null}
      /\ FromGiven(given, "projectId", input.projectId)
      /\ FromGiven(given, "stageId", input.stageId)
  BY <1>1, UnmarshalValue DEF CreateTodoInput, TodoStatus, TodoPriority, Recurrence, FromGiven
<1>3. /\ arg.UserID = user /\ arg.Title = input.title /\ arg.Status = input.status
      /\ arg.Priority = input.priority /\ arg.Recurrence = input.recurrence
      /\ arg.ProjectID = input.projectId /\ arg.StageID = input.stageId /\ arg.NextAction = FALSE
  BY DEF CreateTodoParams
<1>4. Inserted("todo", user, given) = createTodo(arg)
  BY DEF Inserted
<1> HIDE DEF input, arg
<1>5. /\ DOMAIN createTodo(arg) = Column["todo"] /\ createTodo(arg).user_id = user
      /\ createTodo(arg).title # Null /\ createTodo(arg).project_id = input.projectId
      /\ createTodo(arg).stage_id = input.stageId
  BY <1>1, <1>2, <1>3 DEF createTodo, Column
<1>6. /\ createTodo(arg).position # Null /\ createTodo(arg).milestone # Null
  <2>1. createTodo(arg).milestone = Coalesce(arg.Milestone, FALSE)
    BY DEF createTodo
  <2>2. createTodo(arg).position # Null
    BY NullAssumption DEF createTodo, Coalesce
  <2> QED BY <2>1, <2>2, CoalesceFalse
<1>7. createTodo(arg).next_action = FALSE
  BY <1>3, NullAssumption DEF createTodo, Coalesce
<1>8. /\ createTodo(arg).status \in TodoStatus /\ createTodo(arg).priority \in TodoPriority
      /\ createTodo(arg).recurrence \in Recurrence
  BY <1>2, <1>3 DEF createTodo, Coalesce, TodoStatus, TodoPriority, Recurrence
<1>9. \A c \in NotNullColumn["todo"] : createTodo(arg)[c] # Null
  BY <1>5, <1>6, <1>7, <1>8, NullAssumption DEF NotNullColumn
<1> QED BY <1>2, <1>4, <1>5, <1>7, <1>8, <1>9 DEF RowOK, Enumeration

LEMMA InsertedLabel ==
  ASSUME NEW user \in User, NEW call, IsCall(call), call.op = "create", call.kind = "label"
  PROVE  LET row == Inserted("label", user, call.given) IN
         RowOK("label", row) /\ row.user_id = user /\ row.name = call.given.name
<1> DEFINE given == call.given
           input == Unmarshal(CreateLabelInput, given)
           arg == CreateLabelParams(user, input)
<1>1. "name" \in DOMAIN given /\ given.name # Null
  BY DEF IsCall, Required
<1>2. input.name = given.name
  BY <1>1, UnmarshalValue DEF CreateLabelInput
<1>3. arg.UserID = user /\ arg.Name = input.name
  BY DEF CreateLabelParams
<1>4. Inserted("label", user, given) = createLabel(arg)
  BY DEF Inserted
<1> HIDE DEF input, arg
<1>5. /\ DOMAIN createLabel(arg) = Column["label"] /\ createLabel(arg).user_id = user
      /\ createLabel(arg).name = given.name
  BY <1>2, <1>3 DEF createLabel, Column
<1> QED BY <1>1, <1>4, <1>5 DEF RowOK, NotNullColumn, Enumeration, NoDefault

LEMMA InsertedNote ==
  ASSUME NEW user \in User, NEW call, IsCall(call), call.op = "create", call.kind = "note"
  PROVE  LET row == Inserted("note", user, call.given) IN
         /\ RowOK("note", row) /\ row.user_id = user
         /\ FromGiven(call.given, "projectId", row.project_id)
<1> DEFINE given == call.given
           input == Unmarshal(CreateProjectNoteInput, given)
           arg == CreateProjectNoteParams(user, input)
<1>1. /\ "body" \in DOMAIN given /\ given.body # Null
      /\ "projectId" \in DOMAIN given /\ given.projectId # Null
  BY DEF IsCall, Required
<1>2. input.body = given.body /\ input.projectId = given.projectId
  BY <1>1, UnmarshalValue DEF CreateProjectNoteInput
<1>3. arg.UserID = user /\ arg.Body = input.body /\ arg.ProjectID = input.projectId
  BY DEF CreateProjectNoteParams
<1>4. Inserted("note", user, given) = createProjectNote(arg)
  BY DEF Inserted
<1> HIDE DEF input, arg
<1>5. /\ DOMAIN createProjectNote(arg) = Column["note"] /\ createProjectNote(arg).user_id = user
      /\ createProjectNote(arg).body = given.body /\ createProjectNote(arg).project_id = given.projectId
  BY <1>2, <1>3 DEF createProjectNote, Column
<1> QED BY <1>1, <1>4, <1>5 DEF RowOK, NotNullColumn, Enumeration, NoDefault, FromGiven

\* An UPDATE keeps the columns of the row and its user, and writes values of
\* the enumerations only.
UpdatedOK(k, row, new) ==
  /\ DOMAIN new = Column[k] /\ new.user_id = row.user_id
  /\ \A c \in DOMAIN Enumeration[k] : new[c] \in Enumeration[k][c]

LEMMA UpdatedEpic ==
  ASSUME NEW call, IsCall(call), call.op = "update", call.kind = "epic",
         NEW row, RowOK("epic", row)
  PROVE  UpdatedOK("epic", row, Updated("epic", row, call.given))
<1> DEFINE arg == UpdateEpicParams(Unmarshal(UpdateEpicInput, call.given))
<1>1. Updated("epic", row, call.given) = updateEpic(arg, row)
  BY DEF Updated
<1> HIDE DEF arg
<1>2. DOMAIN updateEpic(arg, row) = Column["epic"] /\ updateEpic(arg, row).user_id = row.user_id
  BY DEF updateEpic, Column, RowOK
<1> QED BY <1>1, <1>2 DEF UpdatedOK, Enumeration, NoDefault

LEMMA UpdatedProject ==
  ASSUME NEW call, IsCall(call), call.op = "update", call.kind = "project",
         NEW row, RowOK("project", row)
  PROVE  UpdatedOK("project", row, Updated("project", row, call.given))
<1> DEFINE given == call.given
           input == Unmarshal(UpdateProjectInput, given)
           arg == UpdateProjectParams(input)
<1>1. /\ "status" \in DOMAIN given => given.status \in ProjectStatus \cup {Null}
  BY DEF IsCall, Enumeration, Kind
<1>2. /\ input.status \in ProjectStatus \cup {Null}
  BY <1>1, UnmarshalValue DEF UpdateProjectInput, NoDefault
<1>3. arg.Status = input.status
  BY DEF UpdateProjectParams
<1>4. DOMAIN row = Column["project"] /\ row.status \in ProjectStatus
  BY DEF RowOK, Enumeration
<1>5. Updated("project", row, given) = updateProject(arg, row)
  BY DEF Updated
<1> HIDE DEF input, arg
<1>6. /\ DOMAIN updateProject(arg, row) = Column["project"] /\ updateProject(arg, row).user_id = row.user_id
      /\ updateProject(arg, row).status = Coalesce(arg.Status, row.status)
  BY <1>4 DEF updateProject, Column
<1>7. /\ updateProject(arg, row).status \in ProjectStatus
  BY <1>2, <1>3, <1>4, <1>6 DEF Coalesce
<1> QED BY <1>5, <1>6, <1>7 DEF UpdatedOK, Enumeration

LEMMA UpdatedStage ==
  ASSUME NEW call, IsCall(call), call.op = "update", call.kind = "stage",
         NEW row, RowOK("stage", row)
  PROVE  UpdatedOK("stage", row, Updated("stage", row, call.given))
<1> DEFINE given == call.given
           input == Unmarshal(UpdateStageInput, given)
           arg == UpdateStageParams(input)
<1>1. /\ "status" \in DOMAIN given => given.status \in StageStatus \cup {Null}
  BY DEF IsCall, Enumeration, Kind
<1>2. /\ input.status \in StageStatus \cup {Null}
  BY <1>1, UnmarshalValue DEF UpdateStageInput, NoDefault
<1>3. arg.Status = input.status
  BY DEF UpdateStageParams
<1>4. DOMAIN row = Column["stage"] /\ row.status \in StageStatus
  BY DEF RowOK, Enumeration
<1>5. Updated("stage", row, given) = updateStage(arg, row)
  BY DEF Updated
<1> HIDE DEF input, arg
<1>6. /\ DOMAIN updateStage(arg, row) = Column["stage"] /\ updateStage(arg, row).user_id = row.user_id
      /\ updateStage(arg, row).status = Coalesce(arg.Status, row.status)
  BY <1>4 DEF updateStage, Column
<1>7. /\ updateStage(arg, row).status \in StageStatus
  BY <1>2, <1>3, <1>4, <1>6 DEF Coalesce
<1> QED BY <1>5, <1>6, <1>7 DEF UpdatedOK, Enumeration

LEMMA UpdatedTodo ==
  ASSUME NEW call, IsCall(call), call.op = "update", call.kind = "todo",
         NEW row, RowOK("todo", row)
  PROVE  UpdatedOK("todo", row, Updated("todo", row, call.given))
<1> DEFINE given == call.given
           input == Unmarshal(UpdateTodoInput, given)
           arg == UpdateTodoParams(input)
<1>1. /\ "status" \in DOMAIN given => given.status \in TodoStatus \cup {Null}
      /\ "priority" \in DOMAIN given => given.priority \in TodoPriority \cup {Null}
      /\ "recurrence" \in DOMAIN given => given.recurrence \in Recurrence \cup {Null}
  BY DEF IsCall, Enumeration, Kind
<1>2. /\ input.status \in TodoStatus \cup {Null}
      /\ input.priority \in TodoPriority \cup {Null}
      /\ input.recurrence \in Recurrence \cup {Null}
  BY <1>1, UnmarshalValue DEF UpdateTodoInput, NoDefault
<1>3. arg.Status = input.status /\ arg.Priority = input.priority /\ arg.Recurrence = input.recurrence
  BY DEF UpdateTodoParams
<1>4. DOMAIN row = Column["todo"] /\ row.status \in TodoStatus /\ row.priority \in TodoPriority /\ row.recurrence \in Recurrence
  BY DEF RowOK, Enumeration
<1>5. Updated("todo", row, given) = updateTodo(arg, row)
  BY DEF Updated
<1> HIDE DEF input, arg
<1>6. /\ DOMAIN updateTodo(arg, row) = Column["todo"] /\ updateTodo(arg, row).user_id = row.user_id
      /\ updateTodo(arg, row).status = Coalesce(arg.Status, row.status)
      /\ updateTodo(arg, row).priority = Coalesce(arg.Priority, row.priority)
      /\ updateTodo(arg, row).recurrence = Coalesce(arg.Recurrence, row.recurrence)
  BY <1>4 DEF updateTodo, Column
<1>7. /\ updateTodo(arg, row).status \in TodoStatus
      /\ updateTodo(arg, row).priority \in TodoPriority
      /\ updateTodo(arg, row).recurrence \in Recurrence
  BY <1>2, <1>3, <1>4, <1>6 DEF Coalesce
<1> QED BY <1>5, <1>6, <1>7 DEF UpdatedOK, Enumeration

LEMMA UpdatedLabel ==
  ASSUME NEW call, IsCall(call), call.op = "update", call.kind = "label",
         NEW row, RowOK("label", row)
  PROVE  UpdatedOK("label", row, Updated("label", row, call.given))
<1> DEFINE arg == UpdateLabelParams(Unmarshal(UpdateLabelInput, call.given))
<1>1. Updated("label", row, call.given) = updateLabel(arg, row)
  BY DEF Updated
<1> HIDE DEF arg
<1>2. DOMAIN updateLabel(arg, row) = Column["label"] /\ updateLabel(arg, row).user_id = row.user_id
  BY DEF updateLabel, Column, RowOK
<1> QED BY <1>1, <1>2 DEF UpdatedOK, Enumeration, NoDefault

LEMMA UpdatedNote ==
  ASSUME NEW call, IsCall(call), call.op = "update", call.kind = "note",
         NEW row, RowOK("note", row)
  PROVE  UpdatedOK("note", row, Updated("note", row, call.given))
<1> DEFINE arg == UpdateProjectNoteParams(Unmarshal(UpdateProjectNoteInput, call.given))
<1>1. Updated("note", row, call.given) = updateProjectNote(arg, row)
  BY DEF Updated
<1> HIDE DEF arg
<1>2. DOMAIN updateProjectNote(arg, row) = Column["note"] /\ updateProjectNote(arg, row).user_id = row.user_id
  BY DEF updateProjectNote, Column, RowOK
<1> QED BY <1>1, <1>2 DEF UpdatedOK, Enumeration, NoDefault

\* All kinds together.
LEMMA InsertedRow ==
  ASSUME NEW user \in User, NEW call, IsCall(call), call.op = "create"
  PROVE  /\ call.kind \in Kind /\ RowOK(call.kind, Inserted(call.kind, user, call.given))
         /\ Inserted(call.kind, user, call.given).user_id = user
<1>1. call.kind \in Kind
  BY DEF IsCall
<1>2. CASE call.kind = "epic"
  BY <1>2, <1>1, InsertedEpic
<1>3. CASE call.kind = "project"
  BY <1>3, <1>1, InsertedProject
<1>4. CASE call.kind = "stage"
  BY <1>4, <1>1, InsertedStage
<1>5. CASE call.kind = "todo"
  BY <1>5, <1>1, InsertedTodo
<1>6. CASE call.kind = "label"
  BY <1>6, <1>1, InsertedLabel
<1>7. CASE call.kind = "note"
  BY <1>7, <1>1, InsertedNote
<1> QED BY <1>1, <1>2, <1>3, <1>4, <1>5, <1>6, <1>7 DEF Kind

LEMMA UpdatedRow ==
  ASSUME NEW call, IsCall(call), call.op = "update", NEW row, RowOK(call.kind, row)
  PROVE  /\ call.kind \in Kind
         /\ UpdatedOK(call.kind, row, Updated(call.kind, row, call.given))
<1>1. call.kind \in Kind
  BY DEF IsCall
<1> QED BY <1>1, UpdatedEpic, UpdatedProject, UpdatedStage, UpdatedTodo, UpdatedLabel, UpdatedNote
        DEF Kind

-----------------------------------------------------------------------------
(* The requests.                                                           *)

LEMMA RequestsAre ==
  ASSUME RequestsOK
  PROVE  DOMAIN requests = 1..Len(requests) /\ Len(requests) \in Nat
BY DEF RequestsOK

LEMMA CallFacts ==
  ASSUME RequestsOK, NEW r \in DOMAIN requests, NEW i \in DOMAIN requests[r].fields
  PROVE  Caller(r) \in User /\ IsCall(Call(r, i)) /\ <<r, i>> \in NewId
<1>1. PICK w \in Workloads : requests[r].operation \in w
  BY DEF RequestsOK, RequestOK
<1>2. DOMAIN requests[r].fields = DOMAIN requests[r].operation.calls
  BY DEF RequestsOK, RequestOK
<1>3. /\ requests[r].operation.user \in User
      /\ i \in 1..2 /\ IsCall(requests[r].operation.calls[i])
  BY <1>1, <1>2, WorkloadsAssumption
<1>4. r \in 1..MaxRequests
  BY RequestsAre, RequestsAssumption DEF RequestsOK
<1> QED BY <1>3, <1>4 DEF Caller, Call, NewId

\* A root field goes on, and nothing else of the requests changes.
LEMMA BecomesFacts ==
  ASSUME RequestsOK, NEW r \in DOMAIN requests, NEW i \in DOMAIN requests[r].fields, NEW f,
         Becomes(r, i, f)
  PROVE  /\ UNCHANGED workload /\ DOMAIN requests' = DOMAIN requests /\ Len(requests') = Len(requests)
         /\ requests' \in Seq({requests'[q] : q \in DOMAIN requests'})
         /\ \A q \in DOMAIN requests :
              /\ requests'[q] = [at |-> requests'[q].at, operation |-> requests'[q].operation,
                                 fields |-> requests'[q].fields]
              /\ requests'[q].at = requests[q].at /\ requests'[q].operation = requests[q].operation
              /\ DOMAIN requests'[q].fields = DOMAIN requests[q].fields
              /\ q # r => requests'[q] = requests[q]
         /\ \A j \in DOMAIN requests[r].fields :
              requests'[r].fields[j] = IF j = i THEN f ELSE requests[r].fields[j]
<1> DEFINE fields == [requests[r].fields EXCEPT ![i] = f]
           new == [requests[r] EXCEPT !.fields = fields]
<1>1. requests' = [requests EXCEPT ![r] = new] /\ UNCHANGED workload
  BY DEF Becomes
<1>2. /\ DOMAIN fields = DOMAIN requests[r].fields
      /\ \A j \in DOMAIN requests[r].fields : fields[j] = IF j = i THEN f ELSE requests[r].fields[j]
  OBVIOUS
<1> HIDE DEF fields
<1>3. new = [at |-> requests[r].at, operation |-> requests[r].operation, fields |-> fields]
  BY DEF RequestsOK, RequestOK
<1> HIDE DEF new
<1>4. DOMAIN requests' = DOMAIN requests /\ requests'[r] = new
      /\ \A q \in DOMAIN requests : q # r => requests'[q] = requests[q]
  BY <1>1
<1>5. requests' \in [1..Len(requests) -> {requests'[q] : q \in DOMAIN requests'}]
  BY <1>1, <1>4, RequestsAre
<1>6. requests' \in Seq({requests'[q] : q \in DOMAIN requests'}) /\ Len(requests') = Len(requests)
  BY <1>5, RequestsAre, IsASeq, LenProperties
<1>7. \A q \in DOMAIN requests : q # r =>
        requests[q] = [at |-> requests[q].at, operation |-> requests[q].operation,
                       fields |-> requests[q].fields]
  BY DEF RequestsOK, RequestOK
<1> QED BY <1>1, <1>2, <1>3, <1>4, <1>6, <1>7

LEMMA BecomesFieldOf ==
  ASSUME RequestsOK, NEW r \in DOMAIN requests, NEW i \in DOMAIN requests[r].fields, NEW f,
         Becomes(r, i, f)
  PROVE  /\ FieldOf(r, i)' = f
         /\ \A q \in DOMAIN requests : \A j \in DOMAIN requests[q].fields :
              q # r \/ j # i => FieldOf(q, j)' = FieldOf(q, j)
         /\ \A q \in DOMAIN requests : /\ Caller(q)' = Caller(q)
                                       /\ \A j : Call(q, j)' = Call(q, j)
<1>1. /\ \A q \in DOMAIN requests : requests'[q].operation = requests[q].operation
      /\ \A q \in DOMAIN requests : q # r => requests'[q] = requests[q]
      /\ \A j \in DOMAIN requests[r].fields :
              requests'[r].fields[j] = IF j = i THEN f ELSE requests[r].fields[j]
  BY BecomesFacts
<1> QED BY <1>1 DEF FieldOf, Caller, Call

\* A request arrives behind the others.
LEMMA ReceiveFacts ==
  ASSUME RequestsOK, NEW operation, Receive(operation)
  PROVE  /\ Len(requests) < MaxRequests /\ Len(requests') = Len(requests) + 1
         /\ requests' \in Seq({requests'[q] : q \in DOMAIN requests'})
         /\ DOMAIN requests' = DOMAIN requests \cup {Len(requests) + 1}
         /\ Len(requests) + 1 \notin DOMAIN requests
         /\ \A q \in DOMAIN requests : requests'[q] = requests[q]
         /\ requests'[Len(requests) + 1] =
              [at |-> "running", operation |-> operation, fields |-> [i \in DOMAIN operation.calls |-> NewField]]
<1> DEFINE new == [at |-> "running", operation |-> operation,
                   fields |-> [i \in DOMAIN operation.calls |-> NewField]]
           S == {requests[r] : r \in DOMAIN requests} \cup {new}
           n == Len(requests)
<1>1. n < MaxRequests /\ requests' = Append(requests, new)
  BY DEF Receive
<1> HIDE DEF new
<1>2. n \in Nat /\ DOMAIN requests = 1..n /\ requests \in Seq(S)
  <2>1. requests \in [1..n -> S]
    BY RequestsAre DEF RequestsOK
  <2> QED BY <2>1, RequestsAre, IsASeq
<1>3. /\ requests' \in Seq(S) /\ Len(requests') = n + 1 /\ DOMAIN requests' = 1..(n + 1)
      /\ \A q \in 1..n : requests'[q] = requests[q]
      /\ requests'[n + 1] = new
  BY <1>1, <1>2, AppendProperties, LenProperties
<1>4. requests' \in [1..(n + 1) -> {requests'[q] : q \in DOMAIN requests'}]
  BY <1>2, <1>3
<1>5. requests' \in Seq({requests'[q] : q \in DOMAIN requests'})
  BY <1>2, <1>4, IsASeq
<1> QED BY <1>1, <1>2, <1>3, <1>5 DEF new

\* A request ends, with or without an answer.
LEMMA EndFacts ==
  ASSUME RequestsOK, NEW r \in DOMAIN requests, Respond(r) \/ Abort(r)
  PROVE  /\ UNCHANGED <<tables, todo_labels, workload>>
         /\ DOMAIN requests' = DOMAIN requests /\ Len(requests') = Len(requests)
         /\ requests' \in Seq({requests'[q] : q \in DOMAIN requests'})
         /\ \A q \in DOMAIN requests :
              /\ requests'[q] = [at |-> requests'[q].at, operation |-> requests'[q].operation,
                                 fields |-> requests'[q].fields]
              /\ requests'[q].operation = requests[q].operation
              /\ requests'[q].fields = requests[q].fields
              /\ q # r => requests'[q] = requests[q]
<1>1. PICK at : requests' = [requests EXCEPT ![r].at = at]
  BY DEF Respond, Abort
<1> DEFINE new == [requests[r] EXCEPT !.at = at]
<1>2. requests' = [requests EXCEPT ![r] = new]
  BY <1>1
<1>3. new = [at |-> at, operation |-> requests[r].operation, fields |-> requests[r].fields]
  BY DEF RequestsOK, RequestOK
<1> HIDE DEF new
<1>4. DOMAIN requests' = DOMAIN requests /\ requests'[r] = new
      /\ \A q \in DOMAIN requests : q # r => requests'[q] = requests[q]
  BY <1>2
<1>5. requests' \in [1..Len(requests) -> {requests'[q] : q \in DOMAIN requests'}]
  BY <1>2, <1>4, RequestsAre
<1>6. requests' \in Seq({requests'[q] : q \in DOMAIN requests'}) /\ Len(requests') = Len(requests)
  BY <1>5, RequestsAre, IsASeq, LenProperties
<1>7. \A q \in DOMAIN requests : q # r =>
        requests[q] = [at |-> requests[q].at, operation |-> requests[q].operation,
                       fields |-> requests[q].fields]
  BY DEF RequestsOK, RequestOK
<1>8. UNCHANGED <<tables, todo_labels, workload>>
  BY DEF Respond, Abort
<1> QED BY <1>3, <1>4, <1>6, <1>7, <1>8

-----------------------------------------------------------------------------
(* What every step keeps.                                                  *)

\* Identifiers stay given, and rows that are written keep their user.
Kept ==
  /\ \A id : Given(id) => Given(id)'
  /\ \A kind \in Kind : \A id, user : Of(kind, id, user) => Of(kind, id, user)'

LEMMA BegunKept ==
  ASSUME RequestsOK,
         \/ \E operation : Receive(operation)
         \/ \E r \in DOMAIN requests : Respond(r) \/ Abort(r)
         \/ \E r \in DOMAIN requests : \E i \in DOMAIN requests[r].fields : \E f :
              Becomes(r, i, f) /\ f.at # "new"
  PROVE  \A id : Given(id) => Given(id)'
<1>1. ASSUME NEW q, NEW j, Begun(q, j)
      PROVE  Begun(q, j)'
  <2>1. CASE \E operation : Receive(operation)
    BY <1>1, <2>1, ReceiveFacts DEF Begun, FieldOf
  <2>2. CASE \E r \in DOMAIN requests : Respond(r) \/ Abort(r)
    BY <1>1, <2>2, EndFacts DEF Begun, FieldOf
  <2>3. ASSUME NEW r \in DOMAIN requests, NEW i \in DOMAIN requests[r].fields, NEW f,
               Becomes(r, i, f), f.at # "new"
        PROVE  Begun(q, j)'
    <3>1. /\ DOMAIN requests' = DOMAIN requests
          /\ \A p \in DOMAIN requests : DOMAIN requests'[p].fields = DOMAIN requests[p].fields
      BY <2>3, BecomesFacts
    <3>2. FieldOf(r, i)' = f
      BY <2>3, BecomesFieldOf
    <3>3. q # r \/ j # i => FieldOf(q, j)' = FieldOf(q, j)
      BY <1>1, <2>3, BecomesFieldOf DEF Begun
    <3> QED BY <1>1, <2>3, <3>1, <3>2, <3>3 DEF Begun
  <2> QED BY <2>1, <2>2, <2>3
<1> QED BY <1>1 DEF Given

\* A statement that writes nothing.
LEMMA QuietRows ==
  ASSUME ApiInv, UNCHANGED <<tables, todo_labels>>, \A id : Given(id) => Given(id)'
  PROVE  RowsOK' /\ RowsOfOneUser' /\ IdsGiven' /\ Kept
<1>1. RowsOK'
  BY DEF ApiInv, RowsOK, NameTaken, Own
<1>2. RowsOfOneUser'
  BY DEF ApiInv, RowsOfOneUser, Own, Todos
<1>3. IdsGiven'
  BY DEF ApiInv, IdsGiven
<1>4. Kept
  BY DEF Kept, Of, Own
<1> QED BY <1>1, <1>2, <1>3, <1>4

\* A statement inserts a row, or updates one of the same user.
LEMMA WrittenRows ==
  ASSUME ApiInv, NEW kind \in Kind, NEW id, NEW row, RowOK(kind, row), id # Null,
         ~Refused(kind, id, row),
         tables' = [tables EXCEPT ![kind] = With(@, id, row)], UNCHANGED todo_labels,
         id \in DOMAIN tables[kind] => tables[kind][id].user_id = row.user_id,
         id \notin DOMAIN tables[kind] => ~Given(id),
         Given(id)', \A j : Given(j) => Given(j)'
  PROVE  RowsOK' /\ RowsOfOneUser' /\ IdsGiven' /\ Kept
<1>1. /\ DOMAIN tables' = Kind /\ DOMAIN tables = Kind
      /\ DOMAIN tables'[kind] = DOMAIN tables[kind] \cup {id}
      /\ tables'[kind][id] = row
      /\ \A j \in DOMAIN tables[kind] : j # id => tables'[kind][j] = tables[kind][j]
      /\ \A k \in Kind : k # kind => tables'[k] = tables[k]
  BY DEF ApiInv, RowsOK, With
<1>2. \A k \in Kind : \A user : Own(k, user) \subseteq Own(k, user)'
  BY <1>1 DEF Own
<1>3. \A k \in Kind : \A j \in DOMAIN tables'[k] :
        \/ k = kind /\ j = id
        \/ j \in DOMAIN tables[k] /\ tables'[k][j] = tables[k][j]
  BY <1>1
<1>4. RowsOK'
  <2>1. \A k \in Kind : IsFiniteSet(DOMAIN tables'[k])
    BY <1>1, FS_AddElement DEF ApiInv, RowsOK
  <2>2. \A k \in Kind : \A j \in DOMAIN tables'[k] : j # Null /\ RowOK(k, tables'[k][j])
    BY <1>1, <1>3 DEF ApiInv, RowsOK
  <2>3. ASSUME NEW l \in DOMAIN tables'["label"], NEW m \in DOMAIN tables'["label"], l # m,
               tables'["label"][l].user_id = tables'["label"][m].user_id,
               tables'["label"][l].name = tables'["label"][m].name
        PROVE  FALSE
    <3>1. "label" \in Kind
      BY DEF Kind
    <3>2. \A a, b \in DOMAIN tables["label"] :
            a # b => \/ tables["label"][a].user_id # tables["label"][b].user_id
                     \/ tables["label"][a].name # tables["label"][b].name
      BY DEF ApiInv, RowsOK, NameTaken, Own
    <3>3. kind = "label" => \A b \in DOMAIN tables["label"] :
            b # id => row.user_id # tables["label"][b].user_id \/ row.name # tables["label"][b].name
      BY DEF Refused, NameTaken, Own
    <3> QED BY <1>1, <1>3, <2>3, <3>1, <3>2, <3>3
  <2> QED BY <1>1, <2>1, <2>2, <2>3 DEF RowsOK, NameTaken, Own
<1>5. RowsOfOneUser'
  <2>1. ASSUME NEW k \in Kind, NEW j \in DOMAIN tables'[k], NEW ref \in Reference[k],
               NEW new, new = tables'[k][j], new[ref[1]] # Null
        PROVE  new[ref[1]] \in Own(ref[2], new.user_id)'
    <3>1. ref[2] \in Kind
      BY DEF Reference, Kind
    <3>2. CASE k = kind /\ j = id
      BY <1>1, <1>2, <2>1, <3>1, <3>2 DEF Refused, Found
    <3>3. CASE j \in DOMAIN tables[k] /\ tables'[k][j] = tables[k][j]
      BY <1>2, <2>1, <3>1, <3>3 DEF ApiInv, RowsOfOneUser
    <3> QED BY <1>3, <3>2, <3>3
  <2>2. \A p \in todo_labels' : \E u \in User : p[1] \in Todos(u)' /\ p[2] \in Own("label", u)'
    BY <1>2 DEF ApiInv, RowsOfOneUser, Todos, Kind
  <2>3. \A k \in Kind : \A j \in DOMAIN tables'[k] : \A ref \in Reference[k] : \A new :
          new = tables'[k][j] /\ new[ref[1]] # Null => new[ref[1]] \in Own(ref[2], new.user_id)'
    BY <2>1
  <2> QED BY <2>2, <2>3 DEF RowsOfOneUser, Own
<1>6. IdsGiven'
  BY <1>3 DEF ApiInv, IdsGiven
<1>7. ASSUME NEW k \in Kind, NEW j, NEW user, Of(k, j, user)
      PROVE  Of(k, j, user)'
  BY <1>1, <1>2, <1>3, <1>7 DEF Of
<1> QED BY <1>4, <1>5, <1>6, <1>7 DEF Kept

\* Rows that nothing refers to are deleted, with their labels.
LEMMA DeletedRows ==
  ASSUME ApiInv, NEW kind \in {"todo", "label", "note"}, NEW gone,
         tables' = [tables EXCEPT ![kind] = Restrict(@, DOMAIN @ \ gone)],
         todo_labels' = {p \in todo_labels : ~(kind = "todo" /\ p[1] \in gone)
                                              /\ ~(kind = "label" /\ p[2] \in gone)},
         \A j : Given(j) => Given(j)'
  PROVE  RowsOK' /\ RowsOfOneUser' /\ IdsGiven' /\ Kept
<1>1. /\ DOMAIN tables' = Kind /\ DOMAIN tables = Kind /\ kind \in Kind
      /\ DOMAIN tables'[kind] = DOMAIN tables[kind] \ gone
      /\ \A j \in DOMAIN tables'[kind] : tables'[kind][j] = tables[kind][j]
      /\ \A k \in Kind : k # kind => tables'[k] = tables[k]
  BY DEF ApiInv, RowsOK, Restrict, Kind
<1>2. \A k \in Kind : \A user : \A j : j \in Own(k, user) /\ (k = kind => j \notin gone) => j \in Own(k, user)'
  BY <1>1 DEF Own
<1>3. \A k \in Kind : \A j \in DOMAIN tables'[k] : j \in DOMAIN tables[k] /\ tables'[k][j] = tables[k][j]
  BY <1>1
<1>4. RowsOK'
  <2>1. \A k \in Kind : DOMAIN tables'[k] \subseteq DOMAIN tables[k]
    BY <1>3
  <2>2. \A k \in Kind : IsFiniteSet(DOMAIN tables'[k])
    BY <2>1, FS_Subset DEF ApiInv, RowsOK
  <2>3. \A k \in Kind : \A j \in DOMAIN tables'[k] : j # Null /\ RowOK(k, tables'[k][j])
    BY <1>3 DEF ApiInv, RowsOK
  <2>4. ASSUME NEW l \in DOMAIN tables'["label"], NEW m \in DOMAIN tables'["label"], l # m,
               tables'["label"][l].user_id = tables'["label"][m].user_id,
               tables'["label"][l].name = tables'["label"][m].name
        PROVE  FALSE
    <3>1. "label" \in Kind
      BY DEF Kind
    <3>2. /\ l \in DOMAIN tables["label"] /\ tables'["label"][l] = tables["label"][l]
          /\ m \in DOMAIN tables["label"] /\ tables'["label"][m] = tables["label"][m]
      BY <1>3, <3>1
    <3>3. ~NameTaken(l, tables["label"][l])
      BY <3>2 DEF ApiInv, RowsOK
    <3> QED BY <2>4, <3>2, <3>3 DEF NameTaken, Own
  <2> QED BY <1>1, <2>2, <2>3, <2>4 DEF RowsOK, NameTaken, Own
<1>5. RowsOfOneUser'
  <2>1. ASSUME NEW k \in Kind, NEW j \in DOMAIN tables'[k], NEW ref \in Reference[k],
               tables'[k][j][ref[1]] # Null
        PROVE  /\ tables'[k][j][ref[1]] \in DOMAIN tables'[ref[2]]
               /\ tables'[ref[2]][tables'[k][j][ref[1]]].user_id = tables'[k][j].user_id
    <3>1. ref[2] \in Kind /\ ref[2] # kind
      BY DEF Reference, Kind
    <3>2. j \in DOMAIN tables[k] /\ tables'[k][j] = tables[k][j]
      BY <1>3
    <3>3. tables[k][j][ref[1]] \in Own(ref[2], tables[k][j].user_id)
      BY <2>1, <3>2 DEF ApiInv, RowsOfOneUser
    <3>4. tables'[ref[2]] = tables[ref[2]]
      BY <1>1, <3>1
    <3> QED BY <3>2, <3>3, <3>4 DEF Own
  <2>2. \A p \in todo_labels' : \E u \in User : p[1] \in Todos(u)' /\ p[2] \in Own("label", u)'
    BY <1>2 DEF ApiInv, RowsOfOneUser, Todos, Kind
  <2> QED BY <2>1, <2>2 DEF RowsOfOneUser, Own
<1>6. IdsGiven'
  BY <1>3 DEF ApiInv, IdsGiven
<1>7. ASSUME NEW k \in Kind, NEW j, NEW user, Of(k, j, user)
      PROVE  Of(k, j, user)'
  BY <1>3, <1>7 DEF Of, Own
<1> QED BY <1>4, <1>5, <1>6, <1>7 DEF Kept

\* A label is added to a todo of the same user, or taken away.
LEMMA LabelledRows ==
  ASSUME ApiInv, UNCHANGED tables, \A j : Given(j) => Given(j)',
         \A p \in todo_labels' \ todo_labels :
           \E u \in User : p[1] \in Todos(u) /\ p[2] \in Own("label", u)
  PROVE  RowsOK' /\ RowsOfOneUser' /\ IdsGiven' /\ Kept
<1>1. RowsOK'
  BY DEF ApiInv, RowsOK, NameTaken, Own
<1>2. RowsOfOneUser'
  BY DEF ApiInv, RowsOfOneUser, Own, Todos
<1>3. IdsGiven'
  BY DEF ApiInv, IdsGiven
<1>4. Kept
  BY DEF Kept, Of, Own
<1> QED BY <1>1, <1>2, <1>3, <1>4

\* A root field goes on with rows and identifiers of its own user.
LEMMA FieldKept ==
  ASSUME RequestsOK, NEW r \in DOMAIN requests, NEW i \in DOMAIN requests[r].fields, NEW f,
         Becomes(r, i, f), FieldOK(Caller(r), f), Kept,
         f.at = "insert" =>
           Of("todo", Call(r, i).id, Caller(r))' /\ Of("label", Call(r, i).label, Caller(r))'
  PROVE  RequestsOK'
<1>1. \A q \in DOMAIN requests : RequestOK(q)
  BY DEF RequestsOK
<1>2. \A q \in DOMAIN requests : /\ Caller(q)' = Caller(q)
                                 /\ \A j \in DOMAIN requests[q].fields : Call(q, j)' = Call(q, j)
  BY BecomesFieldOf
<1>3. ASSUME NEW q \in DOMAIN requests
      PROVE  RequestOK(q)'
  <2>1. ASSUME NEW j \in DOMAIN requests[q].fields
        PROVE  /\ FieldOK(Caller(q), FieldOf(q, j))'
               /\ FieldOf(q, j)'.at = "insert" =>
                    Of("todo", Call(q, j).id, Caller(q))' /\ Of("label", Call(q, j).label, Caller(q))'
    <3>1. CASE q = r /\ j = i
      <4>1. FieldOf(q, j)' = f
        BY <3>1, BecomesFieldOf
      <4> QED BY <1>2, <3>1, <4>1 DEF FieldOK
    <3>2. CASE q # r \/ j # i
      <4>1. FieldOf(q, j)' = FieldOf(q, j)
        BY <3>2, BecomesFieldOf
      <4>2. FieldOK(Caller(q), FieldOf(q, j))'
        BY <1>1, <1>2, <4>1 DEF RequestOK, FieldOK
      <4>3. FieldOf(q, j).at = "insert" =>
              Of("todo", Call(q, j).id, Caller(q)) /\ Of("label", Call(q, j).label, Caller(q))
        BY <1>1 DEF RequestOK
      <4>4. Call(q, j)' = Call(q, j) /\ Caller(q)' = Caller(q)
        BY <1>2
      <4>5. "todo" \in Kind /\ "label" \in Kind
        BY DEF Kind
      <4>6. PICK todoId, labelId, user : todoId = Call(q, j).id /\ labelId = Call(q, j).label /\ user = Caller(q)
        OBVIOUS
      <4>7. Of("todo", todoId, user) => Of("todo", todoId, user)'
        BY <4>5 DEF Kept
      <4>8. Of("label", labelId, user) => Of("label", labelId, user)'
        BY <4>5 DEF Kept
      <4> QED BY <4>1, <4>2, <4>3, <4>4, <4>6, <4>7, <4>8
    <3> QED BY <3>1, <3>2
  <2>2. /\ requests'[q] = [at |-> requests'[q].at, operation |-> requests'[q].operation,
                           fields |-> requests'[q].fields]
        /\ requests'[q].operation = requests[q].operation
        /\ DOMAIN requests'[q].fields = DOMAIN requests[q].fields
    BY BecomesFacts
  <2> QED BY <1>1, <2>1, <2>2 DEF RequestOK
<1> QED BY <1>3, BecomesFacts DEF RequestsOK

-----------------------------------------------------------------------------
(* The actions.                                                            *)

LEMMA AnswerFacts ==
  ASSUME NEW objects, NEW user
  PROVE  /\ FieldOK(user, Answer(objects)) /\ Answer(objects).at = "done"
         /\ Answer(objects).objects = objects /\ Answer(objects).pending = {}
<1>1. PICK f : f = Answer(objects)
  OBVIOUS
<1>2. f = [at |-> "done", pending |-> {}, objects |-> objects]
  BY <1>1 DEF Answer, NewField
<1>3. FieldOK(user, f) /\ f.at = "done" /\ f.objects = objects /\ f.pending = {}
  BY <1>2 DEF FieldOK
<1> QED BY <1>1, <1>3

LEMMA SettledFacts ==
  ASSUME NEW at, NEW user
  PROVE  LET f == [NewField EXCEPT !.at = at] IN
         FieldOK(user, f) /\ f.at = at /\ f.objects = {} /\ f.pending = {}
BY DEF NewField, FieldOK

Pending(pending) == [NewField EXCEPT !.at = "labels", !.pending = pending]

LEMMA PendingFacts ==
  ASSUME NEW pending, NEW user
  PROVE  /\ (\A p \in pending : p[1] # Null /\ RowOK("todo", p[2]) /\ p[2].user_id = user)
              => FieldOK(user, Pending(pending))
         /\ Pending(pending).at = "labels" /\ Pending(pending).objects = {}
         /\ Pending(pending).pending = pending
<1>1. PICK f : f = Pending(pending)
  OBVIOUS
<1>2. f = [at |-> "labels", pending |-> pending, objects |-> {}]
  BY <1>1 DEF Pending, NewField
<1>3. /\ f = [at |-> f.at, pending |-> f.pending, objects |-> f.objects]
      /\ f.at = "labels" /\ f.objects = {} /\ f.pending = pending
  BY <1>2
<1> QED BY <1>1, <1>3 DEF FieldOK

LEMMA GoesFacts ==
  ASSUME RequestsOK, NEW r \in DOMAIN requests, NEW i \in DOMAIN requests[r].fields, NEW at
  PROVE  /\ FieldOK(Caller(r), Goes(r, i, at)) /\ Goes(r, i, at).at = at
         /\ Goes(r, i, at).pending = FieldOf(r, i).pending
         /\ Goes(r, i, at).objects = FieldOf(r, i).objects
<1>1. FieldOK(Caller(r), FieldOf(r, i))
  BY DEF RequestsOK, RequestOK
<1>2. Goes(r, i, at) = [at |-> at, pending |-> FieldOf(r, i).pending, objects |-> FieldOf(r, i).objects]
  BY <1>1 DEF Goes, FieldOK
<1> QED BY <1>1, <1>2 DEF FieldOK

LEMMA WithLabelsFacts ==
  ASSUME ApiInv, NEW user, NEW ids, ids \subseteq Todos(user)
  PROVE  /\ FieldOK(user, WithLabels(ids)) /\ WithLabels(ids).at \in {"done", "labels"}
         /\ WithLabels(ids).objects = {}
         /\ \A p \in WithLabels(ids).pending : p[1] \in Todos(user) /\ p[2] = todo(p[1])
<1> DEFINE pending == {<<t, todo(t)>> : t \in ids}
<1>1. \A p \in pending : p[1] \in Todos(user) /\ p[2] = todo(p[1])
  OBVIOUS
<1>2. \A p \in pending : p[1] # Null /\ RowOK("todo", p[2]) /\ p[2].user_id = user
  BY <1>1 DEF ApiInv, RowsOK, Todos, Own, todo, Kind
<1>3. CASE ids = {}
  BY <1>3, AnswerFacts DEF WithLabels
<1>4. CASE ids # {}
  <2>1. WithLabels(ids) = Pending(pending)
    BY <1>4 DEF WithLabels, Pending
  <2> HIDE DEF pending
  <2>2. FieldOK(user, WithLabels(ids)) /\ WithLabels(ids).at = "labels"
        /\ WithLabels(ids).objects = {} /\ WithLabels(ids).pending = pending
    BY <1>2, <2>1, PendingFacts
  <2> QED BY <1>1, <2>2
<1> QED BY <1>3, <1>4

\* A statement that reads.
LEMMA ReadsInv ==
  ASSUME ApiInv, NEW r \in DOMAIN requests, NEW i \in DOMAIN requests[r].fields, NEW f,
         Reads(r, i, f), f.at # "new", FieldOK(Caller(r), f),
         f.at = "insert" => Of("todo", Call(r, i).id, Caller(r)) /\ Of("label", Call(r, i).label, Caller(r))
  PROVE  ApiInv'
<1>1. RequestsOK /\ Becomes(r, i, f) /\ UNCHANGED <<tables, todo_labels>>
  BY DEF ApiInv, Reads
<1>2. \A j : Given(j) => Given(j)'
  BY <1>1, BegunKept
<1>3. RowsOK' /\ RowsOfOneUser' /\ IdsGiven' /\ Kept
  BY <1>1, <1>2, QuietRows
<1>4. PICK t, l, u : t = Call(r, i).id /\ l = Call(r, i).label /\ u = Caller(r)
  OBVIOUS
<1>5. Call(r, i)' = Call(r, i) /\ Caller(r)' = Caller(r)
  BY <1>1, BecomesFieldOf
<1>6. f.at = "insert" => Of("todo", t, u)' /\ Of("label", l, u)'
  BY <1>3, <1>4 DEF Kept, Kind
<1>7. f.at = "insert" =>
        Of("todo", Call(r, i).id, Caller(r))' /\ Of("label", Call(r, i).label, Caller(r))'
  BY <1>4, <1>5, <1>6
<1>8. RequestsOK'
  BY <1>1, <1>3, <1>7, FieldKept
<1> QED BY <1>3, <1>8 DEF ApiInv

LEMMA FailsInv ==
  ASSUME ApiInv, NEW r \in DOMAIN requests, NEW i \in DOMAIN requests[r].fields, Fails(r, i)
  PROVE  ApiInv'
<1>1. PICK f : f = [NewField EXCEPT !.at = "failed"]
  OBVIOUS
<1> QED BY <1>1, SettledFacts, ReadsInv DEF Fails

\* A statement that writes a row.
LEMMA WrittenInv ==
  ASSUME ApiInv, NEW r \in DOMAIN requests, NEW i \in DOMAIN requests[r].fields,
         NEW kind \in Kind, NEW id, NEW row, RowOK(kind, row), row.user_id = Caller(r), id # Null,
         ~Refused(kind, id, row), Written(r, i, kind, id, row), FieldOf(r, i).at = "new",
         \/ id = <<r, i>>
         \/ id \in Own(kind, Caller(r))
  PROVE  ApiInv'
<1>1. PICK f : f = IF kind = "todo"
                   THEN [NewField EXCEPT !.at = "labels", !.pending = {<<id, row>>}]
                   ELSE Answer({Object(kind, id, row, {})})
  OBVIOUS
<1>2. /\ RequestsOK /\ Becomes(r, i, f) /\ UNCHANGED todo_labels
      /\ tables' = [tables EXCEPT ![kind] = With(@, id, row)]
  BY <1>1 DEF ApiInv, Written
<1>3. FieldOK(Caller(r), f) /\ f.at \in {"labels", "done"}
  <2>1. CASE kind = "todo"
    <3>1. PICK pending : pending = {<<id, row>>}
      OBVIOUS
    <3>2. \A p \in pending : p[1] # Null /\ RowOK("todo", p[2]) /\ p[2].user_id = Caller(r)
      BY <2>1, <3>1
    <3>3. f = Pending(pending)
      BY <1>1, <2>1, <3>1 DEF Pending
    <3> QED BY <3>2, <3>3, PendingFacts
  <2>2. CASE kind # "todo"
    BY <1>1, <2>2, AnswerFacts
  <2> QED BY <2>1, <2>2
<1>4. \A j : Given(j) => Given(j)'
  BY <1>2, <1>3, BegunKept
<1>5. /\ Given(id)' /\ (id \notin DOMAIN tables[kind] => ~Given(id))
      /\ id \in DOMAIN tables[kind] => tables[kind][id].user_id = row.user_id
  <2>1. CASE id = <<r, i>>
    <3>1. ~Given(id)
      BY <1>2, <2>1, CallFacts DEF Given, Begun
    <3>2. id \notin DOMAIN tables[kind]
      BY <3>1 DEF ApiInv, IdsGiven
    <3>3. FieldOf(r, i)' = f
      BY <1>2, BecomesFieldOf
    <3>4. r \in DOMAIN requests' /\ i \in DOMAIN requests'[r].fields
      BY <1>2, BecomesFacts
    <3>5. Begun(r, i)'
      BY <1>3, <3>3, <3>4 DEF Begun
    <3> QED BY <2>1, <3>1, <3>2, <3>5 DEF Given
  <2>2. CASE id \in Own(kind, Caller(r))
    BY <1>4, <2>2 DEF ApiInv, IdsGiven, Own
  <2> QED BY <2>1, <2>2
<1>6. RowsOK' /\ RowsOfOneUser' /\ IdsGiven' /\ Kept
  BY <1>2, <1>4, <1>5, WrittenRows
<1>7. RequestsOK'
  BY <1>2, <1>3, <1>6, FieldKept
<1> QED BY <1>6, <1>7 DEF ApiInv

\* What a creation or an update that is not refused writes.
Writes(r, i) ==
  \E kind, id, row :
    /\ kind \in Kind
    /\ Written(r, i, kind, id, row) /\ FieldOf(r, i).at = "new"
    /\ RowOK(kind, row) /\ row.user_id = Caller(r) /\ ~Refused(kind, id, row)
    /\ id # Null
    /\ \/ id = <<r, i>> /\ id \notin DOMAIN tables[kind]
       \/ id \in Own(kind, Caller(r))

LEMMA CreateWrites ==
  ASSUME ApiInv, NEW r \in DOMAIN requests, NEW i \in DOMAIN requests[r].fields, Create(r, i)
  PROVE  Fails(r, i) \/ Writes(r, i)
<1> DEFINE call == Call(r, i)
           row == Inserted(call.kind, Caller(r), call.given)
<1>1. /\ call.op = "create" /\ FieldOf(r, i).at = "new"
      /\ IF Refused(call.kind, <<r, i>>, row) THEN Fails(r, i)
         ELSE Written(r, i, call.kind, <<r, i>>, row)
  BY DEF Create, Starts, Runs
<1>2. Caller(r) \in User /\ IsCall(call) /\ <<r, i>> \in NewId
  BY CallFacts DEF ApiInv
<1>3. call.kind \in Kind /\ RowOK(call.kind, row) /\ row.user_id = Caller(r)
  BY <1>1, <1>2, InsertedRow
<1>4. <<r, i>> # Null
  <2>1. NewId \subseteq Id
    BY DEF Id
  <2>2. Null \notin Id
    BY NullAssumption
  <2> QED BY <1>2, <2>1, <2>2
<1>5. <<r, i>> \notin DOMAIN tables[call.kind]
  <2>1. ~Given(<<r, i>>)
    BY <1>1, <1>2 DEF Given, Begun
  <2> QED BY <1>3, <2>1 DEF ApiInv, IdsGiven
<1> HIDE DEF row, call
<1> QED BY <1>1, <1>3, <1>4, <1>5 DEF Writes

LEMMA UpdateWrites ==
  ASSUME ApiInv, NEW r \in DOMAIN requests, NEW i \in DOMAIN requests[r].fields, Update(r, i)
  PROVE  Fails(r, i) \/ Writes(r, i)
<1> DEFINE call == Call(r, i)
           old == tables[call.kind][call.id]
           row == Updated(call.kind, old, call.given)
<1>1. /\ call.op = "update" /\ FieldOf(r, i).at = "new"
      /\ IF ~Found(call.kind, call.id, Caller(r)) \/ Refused(call.kind, call.id, row) THEN Fails(r, i)
         ELSE Written(r, i, call.kind, call.id, row)
  BY DEF Update, Starts, Runs
<1>2. Caller(r) \in User /\ IsCall(call) /\ call.kind \in Kind
  BY <1>1, CallFacts DEF ApiInv, IsCall
<1>3. CASE ~Found(call.kind, call.id, Caller(r)) \/ Refused(call.kind, call.id, row)
  BY <1>1, <1>3
<1>4. CASE Found(call.kind, call.id, Caller(r)) /\ ~Refused(call.kind, call.id, row)
  <2>1. /\ call.id \in DOMAIN tables[call.kind] /\ old.user_id = Caller(r)
        /\ call.id \in Own(call.kind, Caller(r))
    BY <1>4 DEF Found, Own
  <2>2. RowOK(call.kind, old) /\ call.id # Null
    BY <1>2, <2>1 DEF ApiInv, RowsOK
  <2>3. UpdatedOK(call.kind, old, row)
    BY <1>1, <1>2, <2>2, UpdatedRow
  <2> HIDE DEF row, old, call
  <2>4. \A c \in NotNullColumn[call.kind] : row[c] # Null
    BY <1>4 DEF Refused
  <2>5. RowOK(call.kind, row) /\ row.user_id = Caller(r)
    BY <1>2, <2>1, <2>3, <2>4 DEF RowOK, UpdatedOK
  <2> QED BY <1>1, <1>2, <1>4, <2>1, <2>2, <2>5 DEF Writes
<1> QED BY <1>3, <1>4

LEMMA WriteInv ==
  ASSUME ApiInv, NEW r \in DOMAIN requests, NEW i \in DOMAIN requests[r].fields,
         Create(r, i) \/ Update(r, i)
  PROVE  ApiInv'
BY CreateWrites, UpdateWrites, FailsInv, WrittenInv DEF Writes

LEMMA DeleteInv ==
  ASSUME ApiInv, NEW r \in DOMAIN requests, NEW i \in DOMAIN requests[r].fields, Delete(r, i)
  PROVE  ApiInv'
<1>1. PICK f : f = Answer({})
  OBVIOUS
<1>2. RequestsOK /\ Becomes(r, i, f) /\ f.at = "done" /\ FieldOK(Caller(r), f)
  BY <1>1, AnswerFacts DEF Delete, ApiInv
<1>3. \A j : Given(j) => Given(j)'
  BY <1>2, BegunKept
<1>4. PICK kind, gone :
        /\ kind = Call(r, i).kind
        /\ tables' = [tables EXCEPT ![kind] = Restrict(@, DOMAIN @ \ gone)]
        /\ todo_labels' = {p \in todo_labels : ~(kind = "todo" /\ p[1] \in gone)
                                                /\ ~(kind = "label" /\ p[2] \in gone)}
  BY DEF Delete
<1>5. kind \in {"todo", "label", "note"}
  BY <1>2, <1>4, CallFacts DEF Delete, Starts, IsCall
<1>6. RowsOK' /\ RowsOfOneUser' /\ IdsGiven' /\ Kept
  BY <1>3, <1>4, <1>5, DeletedRows
<1>7. RequestsOK'
  BY <1>2, <1>6, FieldKept
<1> QED BY <1>6, <1>7 DEF ApiInv

\* Adding and removing a label.
LEMMA TodoLabelInv ==
  ASSUME ApiInv, NEW r \in DOMAIN requests, NEW i \in DOMAIN requests[r].fields,
         AddTodoLabel(r, i) \/ InsertTodoLabel(r, i) \/ RemoveTodoLabel(r, i) \/ GetTodoModel(r, i)
  PROVE  ApiInv'
<1>1. RequestsOK /\ Caller(r) \in User
  BY CallFacts DEF ApiInv
<1>2. CASE AddTodoLabel(r, i)
  <2>1. CASE Found("todo", Call(r, i).id, Caller(r)) /\ Found("label", Call(r, i).label, Caller(r))
    <3>1. Reads(r, i, Goes(r, i, "insert"))
      BY <1>2, <2>1 DEF AddTodoLabel
    <3>2. Of("todo", Call(r, i).id, Caller(r)) /\ Of("label", Call(r, i).label, Caller(r))
      BY <2>1 DEF Of, Found, Own, ApiInv, IdsGiven, Kind
    <3>3. PICK f : f = Goes(r, i, "insert")
      OBVIOUS
    <3> QED BY <1>1, <3>1, <3>2, <3>3, GoesFacts, ReadsInv
  <2>2. CASE ~(Found("todo", Call(r, i).id, Caller(r)) /\ Found("label", Call(r, i).label, Caller(r)))
    <3>1. PICK f : f = Goes(r, i, "get")
      OBVIOUS
    <3>2. Reads(r, i, f)
      BY <1>2, <2>2, <3>1 DEF AddTodoLabel
    <3> QED BY <1>1, <3>1, <3>2, GoesFacts, ReadsInv
  <2> QED BY <2>1, <2>2
<1>3. ASSUME NEW f, f = Goes(r, i, "get"), Becomes(r, i, f), UNCHANGED tables,
             \A p \in todo_labels' \ todo_labels :
               p[1] \in Todos(Caller(r)) /\ p[2] \in Own("label", Caller(r))
      PROVE  ApiInv'
  <2>1. f.at = "get" /\ FieldOK(Caller(r), f)
    BY <1>1, <1>3, GoesFacts
  <2>2. \A j : Given(j) => Given(j)'
    BY <1>1, <1>3, <2>1, BegunKept
  <2>3. RowsOK' /\ RowsOfOneUser' /\ IdsGiven' /\ Kept
    BY <1>1, <1>3, <2>2, LabelledRows
  <2>4. RequestsOK'
    BY <1>1, <1>3, <2>1, <2>3, FieldKept
  <2> QED BY <2>3, <2>4 DEF ApiInv
<1>4. CASE InsertTodoLabel(r, i)
  <2>1. CASE Fails(r, i)
    BY <2>1, FailsInv
  <2>2. CASE ~Fails(r, i)
    <3>1. /\ FieldOf(r, i).at = "insert"
          /\ Call(r, i).id \in DOMAIN tables["todo"] /\ Call(r, i).label \in DOMAIN tables["label"]
          /\ todo_labels' = todo_labels \cup {<<Call(r, i).id, Call(r, i).label>>}
          /\ Becomes(r, i, Goes(r, i, "get")) /\ UNCHANGED tables
      BY <1>4, <2>2 DEF InsertTodoLabel, Runs
    <3>2. Call(r, i).id \in Todos(Caller(r)) /\ Call(r, i).label \in Own("label", Caller(r))
      BY <1>1, <3>1 DEF RequestsOK, RequestOK, Of, Todos
    <3> QED BY <1>3, <3>1, <3>2
  <2> QED BY <2>1, <2>2
<1>5. CASE RemoveTodoLabel(r, i)
  <2>1. /\ Becomes(r, i, Goes(r, i, "get")) /\ UNCHANGED tables
        /\ todo_labels' \subseteq todo_labels
    BY <1>5 DEF RemoveTodoLabel
  <2> QED BY <1>3, <2>1
<1>6. CASE GetTodoModel(r, i)
  <2>1. CASE Fails(r, i)
    BY <2>1, FailsInv
  <2>2. CASE ~Fails(r, i)
    <3>1. PICK ids : ids = {Call(r, i).id}
      OBVIOUS
    <3>2. Reads(r, i, WithLabels(ids)) /\ ids \subseteq Todos(Caller(r))
      BY <1>6, <2>2, <3>1 DEF GetTodoModel, Found, Todos
    <3>3. PICK f : f = WithLabels(ids)
      OBVIOUS
    <3>4. FieldOK(Caller(r), f) /\ f.at \in {"done", "labels"}
      BY <3>2, <3>3, WithLabelsFacts
    <3> QED BY <3>2, <3>3, <3>4, ReadsInv
  <2> QED BY <2>1, <2>2
<1> QED BY <1>2, <1>4, <1>5, <1>6

\* The resolvers that read.
LEMMA ReadLabelsForm ==
  ASSUME RequestsOK, NEW r \in DOMAIN requests, NEW i \in DOMAIN requests[r].fields, ReadLabels(r, i)
  PROVE  \E p, f :
           /\ p \in FieldOf(r, i).pending
           /\ Reads(r, i, f) /\ f.at \in {"done", "labels"} /\ FieldOK(Caller(r), f)
           /\ f.pending \subseteq FieldOf(r, i).pending
           /\ f.objects = FieldOf(r, i).objects \cup
                {Object("todo", p[1], p[2],
                   {Object("label", l, tables["label"][l], {}) : l \in ListTodoLabels(p[1], Caller(r))})}
<1>1. FieldOK(Caller(r), FieldOf(r, i))
  BY DEF RequestsOK, RequestOK
<1>2. PICK p \in FieldOf(r, i).pending :
        Reads(r, i,
          [at |-> IF FieldOf(r, i).pending \ {p} = {} THEN "done" ELSE "labels",
           pending |-> FieldOf(r, i).pending \ {p},
           objects |-> FieldOf(r, i).objects \cup
             {Object("todo", p[1], p[2],
                {Object("label", l, tables["label"][l], {}) : l \in ListTodoLabels(p[1], Caller(r))})}])
  BY DEF ReadLabels
<1>3. PICK at, objects, f :
        /\ at = IF FieldOf(r, i).pending \ {p} = {} THEN "done" ELSE "labels"
        /\ objects = FieldOf(r, i).objects \cup
             {Object("todo", p[1], p[2],
                {Object("label", l, tables["label"][l], {}) : l \in ListTodoLabels(p[1], Caller(r))})}
        /\ f = [at |-> at, pending |-> FieldOf(r, i).pending \ {p}, objects |-> objects]
  OBVIOUS
<1>4. Reads(r, i, f)
  BY <1>2, <1>3
<1>5. /\ f.at = at /\ f.pending = FieldOf(r, i).pending \ {p} /\ f.objects = objects
      /\ f = [at |-> f.at, pending |-> f.pending, objects |-> f.objects]
  BY <1>3
<1>6. FieldOK(Caller(r), f) /\ at \in {"done", "labels"}
  BY <1>1, <1>3, <1>5 DEF FieldOK
<1> QED BY <1>3, <1>4, <1>5, <1>6

LEMMA ViewOwn ==
  ASSUME NEW call, IsCall(call), call.op = "view", NEW user
  PROVE  View(call, user) \subseteq Todos(user)
<1>1. call.kind \in {"todos", "inbox", "openTodos", "overdueTodos", "nextActions", "doneTodos"}
  BY DEF IsCall
<1>2. CASE call.kind = "todos"
  BY <1>2 DEF View, ListTodos
<1>3. CASE call.kind = "inbox"
  BY <1>3 DEF View, ListInboxTodos
<1>4. CASE call.kind = "openTodos"
  BY <1>4 DEF View, ListOpenTodos
<1>5. CASE call.kind = "overdueTodos"
  BY <1>5 DEF View, ListOverdueTodos
<1>6. CASE call.kind = "nextActions"
  BY <1>6 DEF View, ListNextActionTodos
<1>7. CASE call.kind = "doneTodos"
  BY <1>7 DEF View, ListDoneTodos
<1> QED BY <1>1, <1>2, <1>3, <1>4, <1>5, <1>6, <1>7

LEMMA ReadInv ==
  ASSUME ApiInv, NEW r \in DOMAIN requests, NEW i \in DOMAIN requests[r].fields,
         \/ RefuseArguments(r, i) \/ ReadLabels(r, i) \/ Get(r, i) \/ List(r, i)
         \/ TodoList(r, i) \/ Count(r, i)
  PROVE  ApiInv'
<1>1. ASSUME NEW ids, ids \subseteq Todos(Caller(r)), Reads(r, i, WithLabels(ids))
      PROVE  ApiInv'
  <2>1. PICK f : f = WithLabels(ids)
    OBVIOUS
  <2>2. FieldOK(Caller(r), f) /\ f.at \in {"done", "labels"}
    BY <1>1, <2>1, WithLabelsFacts
  <2> QED BY <1>1, <2>1, <2>2, ReadsInv
<1>2. ASSUME NEW objects, Reads(r, i, Answer(objects))
      PROVE  ApiInv'
  <2>1. PICK f : f = Answer(objects)
    OBVIOUS
  <2>2. FieldOK(Caller(r), f) /\ f.at = "done"
    BY <2>1, AnswerFacts
  <2> QED BY <1>2, <2>1, <2>2, ReadsInv
<1>3. CASE RefuseArguments(r, i)
  BY <1>3, FailsInv DEF RefuseArguments
<1>4. CASE ReadLabels(r, i)
  <2>1. PICK f : Reads(r, i, f) /\ f.at \in {"done", "labels"} /\ FieldOK(Caller(r), f)
    BY <1>4, ReadLabelsForm DEF ApiInv
  <2> QED BY <2>1, ReadsInv
<1>5. CASE Get(r, i)
  <2> DEFINE call == Call(r, i)
  <2>1. CASE ~Found(call.kind, call.id, Caller(r))
    <3>1. PICK f : f = [NewField EXCEPT !.at = "null"]
      OBVIOUS
    <3>2. Reads(r, i, f)
      BY <1>5, <2>1, <3>1 DEF Get
    <3> QED BY <3>1, <3>2, SettledFacts, ReadsInv
  <2>2. CASE Found(call.kind, call.id, Caller(r)) /\ call.kind = "todo"
    <3>1. PICK ids : ids = {call.id}
      OBVIOUS
    <3>2. Reads(r, i, WithLabels(ids)) /\ ids \subseteq Todos(Caller(r))
      BY <1>5, <2>2, <3>1 DEF Get, Found, Todos
    <3> QED BY <1>1, <3>2
  <2>3. CASE Found(call.kind, call.id, Caller(r)) /\ call.kind # "todo"
    <3>1. PICK objects : objects = {Object(call.kind, call.id, tables[call.kind][call.id], {})}
      OBVIOUS
    <3>2. Reads(r, i, Answer(objects))
      BY <1>5, <2>3, <3>1 DEF Get
    <3> QED BY <1>2, <3>2
  <2> QED BY <2>1, <2>2, <2>3
<1>6. CASE List(r, i)
  <2>1. PICK objects : Reads(r, i, Answer(objects))
    BY <1>6 DEF List
  <2> QED BY <1>2, <2>1
<1>7. CASE TodoList(r, i)
  <2>1. PICK ids : ids = View(Call(r, i), Caller(r)) /\ Reads(r, i, WithLabels(ids))
    BY <1>7 DEF TodoList
  <2>2. ids \subseteq Todos(Caller(r))
    BY <1>7, <2>1, ViewOwn, CallFacts DEF ApiInv, TodoList, Starts
  <2> QED BY <1>1, <2>1, <2>2
<1>8. CASE Count(r, i)
  <2>1. PICK objects : Reads(r, i, Answer(objects))
    BY <1>8 DEF Count
  <2> QED BY <1>2, <2>1
<1> QED BY <1>3, <1>4, <1>5, <1>6, <1>7, <1>8

LEMMA ReceiveInv ==
  ASSUME ApiInv, NEW operation \in workload, Receive(operation)
  PROVE  ApiInv'
<1>1. RequestsOK /\ UNCHANGED <<tables, todo_labels, workload>>
  BY DEF Receive, ApiInv
<1>2. \A j : Given(j) => Given(j)'
  BY <1>1, BegunKept
<1>3. RowsOK' /\ RowsOfOneUser' /\ IdsGiven' /\ Kept
  BY <1>1, <1>2, QuietRows
<1>n. PICK n : n = Len(requests) + 1
  OBVIOUS
<1>4. /\ Len(requests) < MaxRequests /\ Len(requests') = n
      /\ requests' \in Seq({requests'[q] : q \in DOMAIN requests'})
      /\ DOMAIN requests' = DOMAIN requests \cup {n}
      /\ \A q \in DOMAIN requests : requests'[q] = requests[q]
      /\ requests'[n] = [at |-> "running", operation |-> operation,
                         fields |-> [i \in DOMAIN operation.calls |-> NewField]]
  BY <1>1, <1>n, ReceiveFacts
<1>5. RequestOK(n)'
  <2>1. PICK fields : fields = [i \in DOMAIN operation.calls |-> NewField]
    OBVIOUS
  <2>2. PICK new : new = [at |-> "running", operation |-> operation, fields |-> fields]
    OBVIOUS
  <2>3. /\ requests'[n] = new /\ new.operation = operation /\ new.fields = fields
        /\ new = [at |-> new.at, operation |-> new.operation, fields |-> new.fields]
    BY <1>4, <2>1, <2>2
  <2>4. \A i \in DOMAIN fields : fields[i] = NewField
    BY <2>1
  <2>5. \A user : FieldOK(user, NewField)' /\ NewField.at = "new"
    BY DEF FieldOK, NewField
  <2>6. \A i \in DOMAIN fields : FieldOf(n, i)' = NewField
    BY <2>3, <2>4 DEF FieldOf
  <2>7. workload \in Workloads
    BY <1>1 DEF RequestsOK
  <2>8. DOMAIN fields = DOMAIN operation.calls
    BY <2>1
  <2>9. \A i \in DOMAIN fields : FieldOK(Caller(n), FieldOf(n, i))' /\ FieldOf(n, i)'.at # "insert"
    BY <2>5, <2>6 DEF FieldOK
  <2> QED BY <2>3, <2>7, <2>8, <2>9 DEF RequestOK
<1>6. ASSUME NEW q \in DOMAIN requests
      PROVE  RequestOK(q)'
  <2>1. RequestOK(q)
    BY <1>1 DEF RequestsOK
  <2>2. requests'[q] = requests[q]
    BY <1>4
  <2>3. /\ Caller(q)' = Caller(q)
        /\ \A i : Call(q, i)' = Call(q, i) /\ FieldOf(q, i)' = FieldOf(q, i)
    BY <2>2 DEF Caller, Call, FieldOf
  <2>4. \A i \in DOMAIN requests[q].fields :
          FieldOf(q, i).at = "insert" =>
            /\ Of("todo", Call(q, i).id, Caller(q)) /\ Of("label", Call(q, i).label, Caller(q))
    BY <2>1 DEF RequestOK
  <2>5. \A id, user : /\ Of("todo", id, user) => Of("todo", id, user)'
                      /\ Of("label", id, user) => Of("label", id, user)'
    BY <1>3 DEF Kept, Kind
  <2>6. ASSUME NEW i \in DOMAIN requests[q].fields, FieldOf(q, i).at = "insert"
        PROVE  Of("todo", Call(q, i).id, Caller(q))' /\ Of("label", Call(q, i).label, Caller(q))'
    <3>1. PICK t, l, u : t = Call(q, i).id /\ l = Call(q, i).label /\ u = Caller(q)
      OBVIOUS
    <3>2. Of("todo", t, u)' /\ Of("label", l, u)'
      BY <2>4, <2>5, <2>6, <3>1
    <3> QED BY <2>3, <3>1, <3>2
  <2>7. \A i \in DOMAIN requests[q].fields : FieldOK(Caller(q), FieldOf(q, i))'
    BY <2>1, <2>3 DEF RequestOK, FieldOK
  <2> QED BY <2>1, <2>2, <2>3, <2>6, <2>7 DEF RequestOK
<1>7. Len(requests') <= MaxRequests
  BY <1>1, <1>n, <1>4, RequestsAre, RequestsAssumption
<1>8. RequestsOK'
  BY <1>1, <1>4, <1>5, <1>6, <1>7 DEF RequestsOK
<1> QED BY <1>3, <1>8 DEF ApiInv

LEMMA EndInv ==
  ASSUME ApiInv, NEW r \in DOMAIN requests, Respond(r) \/ Abort(r)
  PROVE  ApiInv'
<1>1. RequestsOK
  BY DEF ApiInv
<1>2. /\ UNCHANGED <<tables, todo_labels, workload>>
      /\ DOMAIN requests' = DOMAIN requests /\ Len(requests') = Len(requests)
      /\ requests' \in Seq({requests'[q] : q \in DOMAIN requests'})
      /\ \A q \in DOMAIN requests :
           /\ requests'[q] = [at |-> requests'[q].at, operation |-> requests'[q].operation,
                              fields |-> requests'[q].fields]
           /\ requests'[q].operation = requests[q].operation
           /\ requests'[q].fields = requests[q].fields
  BY <1>1, EndFacts
<1>3. \A j : Given(j) => Given(j)'
  BY <1>1, BegunKept
<1>4. RowsOK' /\ RowsOfOneUser' /\ IdsGiven' /\ Kept
  BY <1>2, <1>3, QuietRows
<1>5. ASSUME NEW q \in DOMAIN requests
      PROVE  RequestOK(q)'
  <2>1. RequestOK(q)
    BY <1>1 DEF RequestsOK
  <2>2. /\ Caller(q)' = Caller(q)
        /\ \A i : Call(q, i)' = Call(q, i) /\ FieldOf(q, i)' = FieldOf(q, i)
    BY <1>2 DEF Caller, Call, FieldOf
  <2>3. ASSUME NEW i \in DOMAIN requests[q].fields, FieldOf(q, i).at = "insert"
        PROVE  Of("todo", Call(q, i).id, Caller(q))' /\ Of("label", Call(q, i).label, Caller(q))'
    <3>1. PICK t, l, u : t = Call(q, i).id /\ l = Call(q, i).label /\ u = Caller(q)
      OBVIOUS
    <3>2. Of("todo", t, u) /\ Of("label", l, u)
      BY <2>1, <2>3, <3>1 DEF RequestOK
    <3>3. Of("todo", t, u)' /\ Of("label", l, u)'
      BY <1>4, <3>2 DEF Kept, Kind
    <3> QED BY <2>2, <3>1, <3>3
  <2>4. \A i \in DOMAIN requests[q].fields : FieldOK(Caller(q), FieldOf(q, i))'
    BY <2>1, <2>2 DEF RequestOK, FieldOK
  <2> QED BY <1>2, <2>1, <2>2, <2>3, <2>4 DEF RequestOK
<1>6. RequestsOK'
  BY <1>1, <1>2, <1>5 DEF RequestsOK
<1> QED BY <1>4, <1>6 DEF ApiInv

LEMMA InitApi == Init => ApiInv
<1> SUFFICES ASSUME Init PROVE ApiInv
  OBVIOUS
<1>1. tables = Tables /\ todo_labels = Labelled /\ requests = <<>> /\ workload \in Workloads
  BY DEF Init
<1>2. RowsOK
  <2>1. \A k \in Kind : \A id \in DOMAIN tables[k] : id # Null
    <3>1. \A k \in Kind : DOMAIN Tables[k] \subseteq Id
      BY DEF Id
    <3>2. Null \notin Id
      BY NullAssumption
    <3> QED BY <1>1, <3>1, <3>2
  <2>2. \A k \in Kind : IsFiniteSet(DOMAIN tables[k]) /\ \A id \in DOMAIN tables[k] : RowOK(k, tables[k][id])
    BY <1>1, TablesAssumption DEF RowOK
  <2>3. \A l \in DOMAIN tables["label"] : ~NameTaken(l, tables["label"][l])
    BY <1>1, TablesAssumption DEF NameTaken, Own, Kind
  <2> QED BY <1>1, <2>1, <2>2, <2>3, TablesAssumption DEF RowsOK
<1>3. RowsOfOneUser
  <2>1. \A p \in Labelled : Tables["todo"][p[1]].user_id \in User
    BY TablesAssumption, LabelledAssumption DEF Kind
  <2> QED BY <1>1, <2>1, TablesAssumption, LabelledAssumption DEF RowsOfOneUser, Own, Todos
<1>4. IdsGiven
  BY <1>1, TablesAssumption DEF IdsGiven, Given
<1>5. RequestsOK
  <2>1. DOMAIN requests = {} /\ Len(requests) = 0 /\ requests \in Seq({requests[r] : r \in DOMAIN requests})
    BY <1>1
  <2> QED BY <1>1, <2>1, RequestsAssumption DEF RequestsOK
<1> QED BY <1>2, <1>3, <1>4, <1>5 DEF ApiInv

LEMMA NextApi == ApiInv /\ [Next]_vars => ApiInv'
<1> SUFFICES ASSUME ApiInv, [Next]_vars PROVE ApiInv'
  OBVIOUS
<1>1. ASSUME NEW r \in DOMAIN requests, NEW i \in DOMAIN requests[r].fields, Resolve(r, i)
      PROVE  ApiInv'
  BY <1>1, WriteInv, DeleteInv, TodoLabelInv, ReadInv DEF Resolve
<1>2. CASE UNCHANGED vars
  <2>1. UNCHANGED <<tables, todo_labels, requests, workload>>
    BY <1>2 DEF vars
  <2>2. \A j : Given(j) => Given(j)'
    BY <2>1 DEF Given, Begun, FieldOf
  <2>3. RowsOK' /\ RowsOfOneUser' /\ IdsGiven'
    BY <2>1, <2>2, QuietRows
  <2>4. ASSUME NEW q \in DOMAIN requests, RequestOK(q)
        PROVE  RequestOK(q)'
    <3>1. /\ Caller(q)' = Caller(q)
          /\ \A i : Call(q, i)' = Call(q, i) /\ FieldOf(q, i)' = FieldOf(q, i)
      BY <2>1 DEF Caller, Call, FieldOf
    <3>2. ASSUME NEW i \in DOMAIN requests[q].fields, FieldOf(q, i).at = "insert"
          PROVE  Of("todo", Call(q, i).id, Caller(q))' /\ Of("label", Call(q, i).label, Caller(q))'
      <4>1. PICK t, l, u : t = Call(q, i).id /\ l = Call(q, i).label /\ u = Caller(q)
        OBVIOUS
      <4>2. Of("todo", t, u) /\ Of("label", l, u)
        BY <2>4, <3>2, <4>1 DEF RequestOK
      <4>3. Of("todo", t, u)' /\ Of("label", l, u)'
        BY <2>1, <2>2, <4>2 DEF Of, Own
      <4>4. Call(q, i)' = Call(q, i) /\ Caller(q)' = Caller(q)
        BY <3>1
      <4>5. t = Call(q, i)'.id /\ l = Call(q, i)'.label /\ u = Caller(q)'
        BY <4>1, <4>4
      <4> QED BY <4>3, <4>5
    <3>3. \A i \in DOMAIN requests[q].fields : FieldOK(Caller(q), FieldOf(q, i))'
      BY <2>4, <3>1 DEF RequestOK, FieldOK
    <3> QED BY <2>1, <2>4, <3>1, <3>2, <3>3 DEF RequestOK
  <2>5. RequestsOK'
    BY <2>1, <2>4 DEF ApiInv, RequestsOK
  <2> QED BY <2>3, <2>5 DEF ApiInv
<1> QED BY <1>1, <1>2, ReceiveInv, EndInv DEF Next

\* The inductive invariant holds in every reachable state.
THEOREM AlwaysApi == Spec => []ApiInv
BY InitApi, NextApi, PTL DEF Spec

\* References and labels never lead to a row of another user, or to none,
\* whatever is created, moved, labelled and deleted at the same time.
THEOREM NoRowOfOthers == Spec => []RowsOfOneUser
<1>1. ApiInv => RowsOfOneUser
  BY DEF ApiInv
<1> QED BY <1>1, AlwaysApi, PTL

-----------------------------------------------------------------------------
(* The step behind a change of a request.                                  *)

\* A step of a resolver moves its root field, and no other one.
LEMMA ResolveBecomes ==
  ASSUME NEW r, NEW i, Resolve(r, i)
  PROVE  \E f : Becomes(r, i, f)
<1>1. \A f : Reads(r, i, f) => Becomes(r, i, f)
  BY DEF Reads
<1>2. Fails(r, i) => \E f : Becomes(r, i, f)
  BY <1>1 DEF Fails
<1>3. \A kind, id, row : Written(r, i, kind, id, row) => \E f : Becomes(r, i, f)
  BY DEF Written
<1>4. CASE RefuseArguments(r, i)
  BY <1>2, <1>4 DEF RefuseArguments
<1>5. CASE Create(r, i)
  BY <1>2, <1>3, <1>5 DEF Create
<1>6. CASE Update(r, i)
  BY <1>2, <1>3, <1>6 DEF Update
<1>7. CASE Delete(r, i)
  BY <1>7 DEF Delete
<1>8. CASE AddTodoLabel(r, i)
  BY <1>1, <1>8 DEF AddTodoLabel
<1>9. CASE InsertTodoLabel(r, i)
  BY <1>2, <1>9 DEF InsertTodoLabel
<1>10. CASE RemoveTodoLabel(r, i)
  BY <1>10 DEF RemoveTodoLabel
<1>11. CASE GetTodoModel(r, i)
  BY <1>1, <1>2, <1>11 DEF GetTodoModel
<1>12. CASE ReadLabels(r, i)
  BY <1>1, <1>12 DEF ReadLabels
<1>13. CASE Get(r, i)
  BY <1>1, <1>13 DEF Get
<1>14. CASE List(r, i)
  BY <1>1, <1>14 DEF List
<1>15. CASE TodoList(r, i)
  BY <1>1, <1>15 DEF TodoList
<1>16. CASE Count(r, i)
  BY <1>1, <1>16 DEF Count
<1> QED BY <1>4, <1>5, <1>6, <1>7, <1>8, <1>9, <1>10, <1>11, <1>12, <1>13, <1>14, <1>15, <1>16 DEF Resolve

\* Only its own steps change a request.
LEMMA StepOfRequest ==
  ASSUME RequestsOK, [Next]_vars, NEW r \in DOMAIN requests, requests'[r] # requests[r]
  PROVE  Respond(r) \/ Abort(r) \/ \E i \in DOMAIN requests[r].fields : Resolve(r, i)
<1>1. ~UNCHANGED vars
  BY DEF vars
<1>2. \A operation : ~Receive(operation)
  BY ReceiveFacts
<1>3. PICK q \in DOMAIN requests :
        Respond(q) \/ Abort(q) \/ \E i \in DOMAIN requests[q].fields : Resolve(q, i)
  BY <1>1, <1>2 DEF Next
<1>4. CASE Respond(q) \/ Abort(q)
  BY <1>3, <1>4, EndFacts
<1>5. ASSUME NEW i \in DOMAIN requests[q].fields, Resolve(q, i)
      PROVE  q = r
  <2>1. PICK f : Becomes(q, i, f)
    BY <1>5, ResolveBecomes
  <2> QED BY <1>5, <2>1, BecomesFacts
<1> QED BY <1>3, <1>4, <1>5

\* Only its own steps change a root field.
LEMMA StepOfField ==
  ASSUME RequestsOK, [Next]_vars, NEW r \in DOMAIN requests, NEW i \in DOMAIN requests[r].fields,
         requests'[r].fields[i] # requests[r].fields[i]
  PROVE  Resolve(r, i)
<1>1. requests'[r] # requests[r]
  OBVIOUS
<1>2. ~Respond(r) /\ ~Abort(r)
  BY EndFacts
<1>3. PICK j \in DOMAIN requests[r].fields : Resolve(r, j)
  BY <1>1, <1>2, StepOfRequest
<1>4. PICK f : Becomes(r, j, f)
  BY <1>3, ResolveBecomes
<1>5. i = j
  BY <1>4, BecomesFacts
<1> QED BY <1>3, <1>5

-----------------------------------------------------------------------------
(* Creations.                                                              *)

\* Why the statement of a creation is refused.
LEMMA RefusedCreation ==
  ASSUME NEW user \in User, NEW call, IsCall(call), call.op = "create", NEW id,
         Refused(call.kind, id, Inserted(call.kind, user, call.given))
  PROVE  \/ call.kind = "label" /\ \E l \in Own("label", user) : tables["label"][l].name = call.given.name
         \/ \E ref \in {<<"epicId", "epic">>, <<"projectId", "project">>, <<"stageId", "stage">>} :
              ref[1] \in DOMAIN call.given /\ call.given[ref[1]] # Null
                /\ call.given[ref[1]] \notin Own(ref[2], user)
<1> DEFINE refs == {<<"epicId", "epic">>, <<"projectId", "project">>, <<"stageId", "stage">>}
<1>1. PICK row : row = Inserted(call.kind, user, call.given)
  OBVIOUS
<1>2. call.kind \in Kind /\ RowOK(call.kind, row) /\ row.user_id = user /\ Refused(call.kind, id, row)
  BY <1>1, InsertedRow
<1>3. \A c \in NotNullColumn[call.kind] : row[c] # Null
  BY <1>2 DEF RowOK
<1>4. ASSUME NEW f, NEW kind, NEW value, <<f, kind>> \in refs,
             FromGiven(call.given, f, value), value # Null, ~Found(kind, value, row.user_id)
      PROVE  \E ref \in refs : ref[1] \in DOMAIN call.given /\ call.given[ref[1]] # Null
                                 /\ call.given[ref[1]] \notin Own(ref[2], user)
  <2>1. f \in DOMAIN call.given /\ call.given[f] # Null /\ call.given[f] \notin Own(kind, user)
    BY <1>2, <1>4 DEF FromGiven, Found
  <2>2. PICK ref \in refs : ref = <<f, kind>>
    BY <1>4
  <2> QED BY <2>1, <2>2
<1>5. CASE call.kind = "epic"
  BY <1>2, <1>3, <1>5 DEF Refused, Reference
<1>6. CASE call.kind = "project"
  <2>1. FromGiven(call.given, "epicId", row.epic_id)
    BY <1>1, <1>6, InsertedProject
  <2>2. row.epic_id # Null /\ ~Found("epic", row.epic_id, row.user_id)
    BY <1>2, <1>3, <1>6 DEF Refused, Reference
  <2> QED BY <1>4, <2>1, <2>2
<1>7. CASE call.kind = "stage"
  <2>1. FromGiven(call.given, "projectId", row.project_id)
    BY <1>1, <1>7, InsertedStage
  <2>2. row.project_id # Null /\ ~Found("project", row.project_id, row.user_id)
    BY <1>2, <1>3, <1>7 DEF Refused, Reference
  <2> QED BY <1>4, <2>1, <2>2
<1>8. CASE call.kind = "todo"
  <2>1. /\ FromGiven(call.given, "projectId", row.project_id) /\ row.next_action = FALSE
        /\ FromGiven(call.given, "stageId", row.stage_id)
    BY <1>1, <1>8, InsertedTodo
  <2>2. ~SecondNextAction(id, row)
    BY <2>1 DEF SecondNextAction
  <2>3. \/ row.project_id # Null /\ ~Found("project", row.project_id, row.user_id)
        \/ row.stage_id # Null /\ ~Found("stage", row.stage_id, row.user_id)
    BY <1>2, <1>3, <1>8, <2>2 DEF Refused, Reference
  <2> QED BY <1>4, <2>1, <2>3
<1>9. CASE call.kind = "label"
  <2>1. row.name = call.given.name
    BY <1>1, <1>9, InsertedLabel
  <2>2. NameTaken(id, row)
    BY <1>2, <1>3, <1>9 DEF Refused, Reference
  <2> QED BY <1>2, <1>9, <2>1, <2>2 DEF NameTaken
<1>10. CASE call.kind = "note"
  <2>1. FromGiven(call.given, "projectId", row.project_id)
    BY <1>1, <1>10, InsertedNote
  <2>2. row.project_id # Null /\ ~Found("project", row.project_id, row.user_id)
    BY <1>2, <1>3, <1>10 DEF Refused, Reference
  <2> QED BY <1>4, <2>1, <2>2
<1> QED BY <1>2, <1>5, <1>6, <1>7, <1>8, <1>9, <1>10 DEF Kind

\* A field whose statement wrote a row has not failed.
LEMMA WrittenAt ==
  ASSUME RequestsOK, NEW r \in DOMAIN requests, NEW i \in DOMAIN requests[r].fields,
         NEW kind, NEW id, NEW row, Written(r, i, kind, id, row)
  PROVE  requests'[r].fields[i].at \in {"labels", "done"}
<1>1. PICK f : /\ Becomes(r, i, f)
               /\ f = IF kind = "todo"
                      THEN [NewField EXCEPT !.at = "labels", !.pending = {<<id, row>>}]
                      ELSE Answer({Object(kind, id, row, {})})
  BY DEF Written
<1>2. f.at \in {"labels", "done"}
  BY <1>1 DEF Answer, NewField
<1>3. Becomes(r, i, f)
  BY <1>1
<1>4. \A j \in DOMAIN requests[r].fields :
        requests'[r].fields[j] = IF j = i THEN f ELSE requests[r].fields[j]
  BY <1>3, BecomesFacts
<1> QED BY <1>2, <1>4

\* What a create may fail for: a field the schema lets a client leave out or
\* set to null is never among it.
THEOREM CreatesAccepted == Spec => CreateAccepted
<1>1. ASSUME ApiInv, [Next]_vars, NEW r \in DOMAIN requests, NEW i \in DOMAIN requests[r].fields,
             Call(r, i).op = "create", FieldOf(r, i).at = "new", requests'[r].fields[i].at = "failed",
             WellFormed(Call(r, i))
      PROVE  \/ Call(r, i).kind = "label" /\ \E l \in Own("label", Caller(r)) :
                  tables["label"][l].name = Call(r, i).given.name
             \/ \E ref \in {<<"epicId", "epic">>, <<"projectId", "project">>, <<"stageId", "stage">>} :
                  ref[1] \in DOMAIN Call(r, i).given /\ Call(r, i).given[ref[1]] # Null
                    /\ Call(r, i).given[ref[1]] \notin Own(ref[2], Caller(r))
  <2>1. PICK call, user : call = Call(r, i) /\ user = Caller(r)
    OBVIOUS
  <2>2. RequestsOK /\ requests'[r].fields[i] # requests[r].fields[i]
    BY <1>1 DEF ApiInv, FieldOf
  <2>3. Resolve(r, i)
    BY <1>1, <2>2, StepOfField
  <2>4. Create(r, i)
    BY <1>1, <2>3 DEF Resolve, RefuseArguments, Update, Delete, AddTodoLabel, InsertTodoLabel,
                      RemoveTodoLabel, GetTodoModel, ReadLabels, Get, List, TodoList, Count, Starts, Runs
  <2>5. user \in User /\ IsCall(call)
    BY <2>1, <2>2, CallFacts
  <2>6. PICK row : row = Inserted(call.kind, user, call.given)
    OBVIOUS
  <2>7. IF Refused(call.kind, <<r, i>>, row) THEN Fails(r, i)
        ELSE Written(r, i, call.kind, <<r, i>>, row)
    BY <2>1, <2>4, <2>6 DEF Create
  <2>8. ~Written(r, i, call.kind, <<r, i>>, row)
    BY <1>1, <2>2, WrittenAt
  <2>9. Refused(call.kind, <<r, i>>, Inserted(call.kind, user, call.given))
    BY <2>6, <2>7, <2>8
  <2>10. call.op = "create"
    BY <1>1, <2>1
  <2> QED BY <2>1, <2>5, <2>9, <2>10, RefusedCreation
<1>2. ApiInv /\ [Next]_vars =>
        \A r \in DOMAIN requests : \A i \in DOMAIN requests[r].fields :
          (Call(r, i).op = "create" /\ FieldOf(r, i).at = "new" /\ requests'[r].fields[i].at = "failed")
            => \/ ~WellFormed(Call(r, i))
               \/ Call(r, i).kind = "label" /\ \E l \in Own("label", Caller(r)) :
                    tables["label"][l].name = Call(r, i).given.name
               \/ \E ref \in {<<"epicId", "epic">>, <<"projectId", "project">>, <<"stageId", "stage">>} :
                    ref[1] \in DOMAIN Call(r, i).given /\ Call(r, i).given[ref[1]] # Null
                      /\ Call(r, i).given[ref[1]] \notin Own(ref[2], Caller(r))
  BY <1>1
<1> QED BY <1>2, AlwaysApi, PTL DEF Spec, CreateAccepted


-----------------------------------------------------------------------------
(* What the answers are made of.                                           *)

\* The rows have a value in every column that a non-null field shows: the
\* object of a row is there, and has its identifier.
LEMMA ObjectOfRow ==
  ASSUME NEW k \in Kind \ {"todo"}, NEW id, NEW row, RowOK(k, row), id # Null
  PROVE  "id" \in DOMAIN Object(k, id, row, {}) /\ Object(k, id, row, {}).id = id
<1>1. \A c \in NotNullColumn[k] : row[c] # Null
  BY DEF RowOK
<1>2. CASE k = "epic"
  <2>1. PICK o : o = toEpic(id, row)
    OBVIOUS
  <2>2. "id" \in DOMAIN o /\ o.id = id /\ \A f \in NonNullEpic : o[f] # Null
    BY <1>1, <1>2, <2>1 DEF NotNullColumn, toEpic, NonNullEpic
  <2>3. Object(k, id, row, {}) = o
    BY <1>2, <2>1, <2>2 DEF Object, Epic, NonNull
  <2> QED BY <2>2, <2>3
<1>3. CASE k = "project"
  <2>1. PICK o : o = toProject(id, row)
    OBVIOUS
  <2>2. "id" \in DOMAIN o /\ o.id = id /\ \A f \in NonNullProject : o[f] # Null
    BY <1>1, <1>3, <2>1 DEF NotNullColumn, toProject, NonNullProject
  <2>3. Object(k, id, row, {}) = o
    BY <1>3, <2>1, <2>2 DEF Object, Project, NonNull
  <2> QED BY <2>2, <2>3
<1>4. CASE k = "stage"
  <2>1. PICK o : o = toStage(id, row)
    OBVIOUS
  <2>2. "id" \in DOMAIN o /\ o.id = id /\ \A f \in NonNullStage : o[f] # Null
    BY <1>1, <1>4, <2>1 DEF NotNullColumn, toStage, NonNullStage
  <2>3. Object(k, id, row, {}) = o
    BY <1>4, <2>1, <2>2 DEF Object, Stage, NonNull
  <2> QED BY <2>2, <2>3
<1>5. CASE k = "label"
  <2>1. PICK o : o = toLabel(id, row)
    OBVIOUS
  <2>2. "id" \in DOMAIN o /\ o.id = id /\ \A f \in NonNullLabel : o[f] # Null
    BY <1>1, <1>5, <2>1 DEF NotNullColumn, toLabel, NonNullLabel
  <2>3. Object(k, id, row, {}) = o
    BY <1>5, <2>1, <2>2 DEF Object, Label, NonNull
  <2> QED BY <2>2, <2>3
<1>6. CASE k = "note"
  <2>1. PICK o : o = toProjectNote(id, row)
    OBVIOUS
  <2>2. "id" \in DOMAIN o /\ o.id = id /\ \A f \in NonNullProjectNote : o[f] # Null
    BY <1>1, <1>6, <2>1 DEF NotNullColumn, toProjectNote, NonNullProjectNote
  <2>3. Object(k, id, row, {}) = o
    BY <1>6, <2>1, <2>2 DEF Object, ProjectNote, NonNull
  <2> QED BY <2>2, <2>3
<1> QED BY <1>2, <1>3, <1>4, <1>5, <1>6 DEF Kind

LEMMA ObjectOfTodo ==
  ASSUME NEW id, NEW row, NEW labels, RowOK("todo", row), id # Null, labels # Null
  PROVE  "id" \in DOMAIN Object("todo", id, row, labels) /\ Object("todo", id, row, labels).id = id
<1>1. \A c \in NotNullColumn["todo"] : row[c] # Null
  BY DEF RowOK
<1>2. PICK o : o = toTodo(id, row, labels)
  OBVIOUS
<1>3. "id" \in DOMAIN o /\ o.id = id /\ \A f \in NonNullTodo : o[f] # Null
  BY <1>1, <1>2 DEF NotNullColumn, toTodo, NonNullTodo
<1>4. Object("todo", id, row, labels) = o
  BY <1>2, <1>3 DEF Object, Todo, NonNull
<1> QED BY <1>3, <1>4

IsObject(k, o) ==
  \E id, row : id # Null /\ RowOK(k, row) /\ o = Object(k, id, row, {})
IsTodo(o) ==
  \E id, row, labels :
    /\ id # Null /\ RowOK("todo", row) /\ o = Object("todo", id, row, labels)
    /\ \A l \in labels : IsObject("label", l)
IsCount(o) ==
  \/ \E a, b, c, d, e \in Nat :
       o = Dashboard([openTodos |-> a, overdueTodos |-> b, nextActions |-> c,
                      activeProjects |-> d, upcomingDeadlines |-> e])
  \/ \E all, done \in Nat : o = Progress(progressModel(all, done))
IsAnswer(o) == (\E k \in Kind \ {"todo"} : IsObject(k, o)) \/ IsTodo(o) \/ IsCount(o)

AnswersOK ==
  \A r \in DOMAIN requests : \A i \in DOMAIN requests[r].fields :
    /\ FieldOf(r, i).at = "new" => FieldOf(r, i).objects = {}
    /\ \A o \in FieldOf(r, i).objects : IsAnswer(o)

\* Every user has finitely many rows, so that they can be counted.
LEMMA RowsCounted ==
  ASSUME RowsOK, NEW k \in Kind, NEW S, S \subseteq DOMAIN tables[k]
  PROVE  IsFiniteSet(S) /\ Cardinality(S) \in Nat
BY FS_Subset, FS_CardinalityType DEF RowsOK

LEMMA CountAnswers ==
  ASSUME RowsOK, NEW user, NEW id
  PROVE  /\ IsCount(Dashboard(DashboardCounts(user)))
         /\ IsCount(Progress(ProjectProgress(user, id)))
         /\ IsCount(Progress(StageProgress(user, id)))
<1>1. "todo" \in Kind /\ "project" \in Kind
  BY DEF Kind
<1>2. \A S : S \subseteq Todos(user) => Cardinality(S) \in Nat
  BY <1>1, RowsCounted DEF Todos, Own
<1>3. \A S : S \subseteq Own("project", user) => Cardinality(S) \in Nat
  BY <1>1, RowsCounted DEF Own
<1>4. IsCount(Dashboard(DashboardCounts(user)))
  <2>1. PICK a, b, c, d, e :
          /\ a = Cardinality({t \in Todos(user) : Unfinished(t)})
          /\ b = Cardinality({t \in Todos(user) : todo(t).due_date \in Past /\ Unfinished(t)})
          /\ c = Cardinality({t \in Todos(user) : todo(t).next_action})
          /\ d = Cardinality({p \in Own("project", user) : tables["project"][p].status = "ACTIVE"})
          /\ e = Cardinality(Upcoming(user))
    OBVIOUS
  <2>2. Upcoming(user) \subseteq Todos(user)
    BY DEF Upcoming
  <2>3. a \in Nat /\ b \in Nat /\ c \in Nat /\ d \in Nat /\ e \in Nat
    BY <1>2, <1>3, <2>1, <2>2
  <2>4. DashboardCounts(user) =
          [openTodos |-> a, overdueTodos |-> b, nextActions |-> c,
           activeProjects |-> d, upcomingDeadlines |-> e]
    BY <2>1 DEF DashboardCounts
  <2> QED BY <2>3, <2>4 DEF IsCount
<1>5. ASSUME NEW T, T \subseteq Todos(user)
      PROVE  IsCount(Progress(progressModel(Cardinality(T), Cardinality({t \in T : todo(t).status = "DONE"}))))
  <2>1. PICK all, done : all = Cardinality(T) /\ done = Cardinality({t \in T : todo(t).status = "DONE"})
    OBVIOUS
  <2>2. {t \in T : todo(t).status = "DONE"} \subseteq Todos(user)
    BY <1>5
  <2>3. all \in Nat /\ done \in Nat
    BY <1>2, <1>5, <2>1, <2>2
  <2> QED BY <2>1, <2>3 DEF IsCount
<1>6. IsCount(Progress(ProjectProgress(user, id)))
  BY <1>5 DEF ProjectProgress
<1>7. IsCount(Progress(StageProgress(user, id)))
  BY <1>5 DEF StageProgress
<1> QED BY <1>4, <1>6, <1>7

\* Lists are of the caller's own rows.
LEMMA RowsOwn ==
  ASSUME NEW call, IsCall(call), call.op = "list", NEW user
  PROVE  call.kind \in Kind \ {"todo"} /\ Rows(call, user) \subseteq Own(call.kind, user)
<1>1. call.kind \in {"epic", "project", "stage", "label", "note"}
  BY DEF IsCall
<1>2. CASE call.kind = "epic"
  BY <1>2 DEF Rows, ListEpics, Kind
<1>3. CASE call.kind = "project"
  BY <1>3 DEF Rows, ListProjects, Kind
<1>4. CASE call.kind = "stage"
  BY <1>4 DEF Rows, ListStages, Kind
<1>5. CASE call.kind = "label"
  BY <1>5 DEF Rows, ListLabels, Kind
<1>6. CASE call.kind = "note"
  BY <1>6 DEF Rows, ListProjectNotes, Kind
<1> QED BY <1>1, <1>2, <1>3, <1>4, <1>5, <1>6

\* The objects of rows as they are now.
LEMMA OwnObjects ==
  ASSUME ApiInv, NEW k \in Kind \ {"todo"}, NEW user, NEW id \in Own(k, user)
  PROVE  /\ IsObject(k, Object(k, id, tables[k][id], {}))
         /\ Object(k, id, tables[k][id], {}).id = id
<1>1. id # Null /\ RowOK(k, tables[k][id])
  BY DEF Own, ApiInv, RowsOK
<1> QED BY <1>1, ObjectOfRow DEF IsObject

\* What Get and List answer at once.
LEMMA GetObjects ==
  ASSUME ApiInv, NEW r \in DOMAIN requests, NEW i \in DOMAIN requests[r].fields,
         Get(r, i) \/ List(r, i)
  PROVE  \E f : /\ Becomes(r, i, f) /\ f.at # "new"
                /\ \A o \in f.objects : \E k \in Kind \ {"todo"} :
                     IsObject(k, o) /\ o.id \in Own(k, Caller(r))
<1>1. PICK call, user : call = Call(r, i) /\ user = Caller(r)
  OBVIOUS
<1>2. IsCall(call)
  BY <1>1, CallFacts DEF ApiInv
<1>3. CASE Get(r, i)
  <2>1. PICK f : /\ Becomes(r, i, f)
                 /\ f = IF ~Found(call.kind, call.id, user) THEN [NewField EXCEPT !.at = "null"]
                        ELSE IF call.kind = "todo" THEN WithLabels({call.id})
                        ELSE Answer({Object(call.kind, call.id, tables[call.kind][call.id], {})})
    BY <1>1, <1>3 DEF Get, Reads
  <2>2. CASE ~Found(call.kind, call.id, user)
    <3>1. f.at # "new" /\ f.objects = {}
      BY <2>1, <2>2, SettledFacts
    <3> QED BY <2>1, <3>1
  <2>3. CASE Found(call.kind, call.id, user) /\ call.kind = "todo"
    <3>1. {call.id} \subseteq Todos(user)
      BY <2>3 DEF Found, Todos
    <3>2. f = WithLabels({call.id})
      BY <2>1, <2>3
    <3>3. f.at # "new" /\ f.objects = {}
      BY <3>1, <3>2, WithLabelsFacts
    <3> QED BY <2>1, <3>3
  <2>4. CASE Found(call.kind, call.id, user) /\ call.kind # "todo"
    <3>1. PICK o : o = Object(call.kind, call.id, tables[call.kind][call.id], {})
      OBVIOUS
    <3>2. f.at # "new" /\ f.objects = {o}
      BY <2>1, <2>4, <3>1, AnswerFacts
    <3>3. call.kind \in Kind \ {"todo"} /\ call.id \in Own(call.kind, user)
      BY <1>1, <1>2, <1>3, <2>4 DEF Get, Starts, IsCall, Found, Kind
    <3>4. IsObject(call.kind, o) /\ o.id \in Own(call.kind, user)
      BY <3>1, <3>3, OwnObjects
    <3> QED BY <1>1, <2>1, <3>2, <3>3, <3>4
  <2> QED BY <2>2, <2>3, <2>4
<1>4. CASE List(r, i)
  <2>1. PICK objects, f :
          /\ Becomes(r, i, f) /\ f = Answer(objects)
          /\ objects = {Object(call.kind, id, tables[call.kind][id], {}) : id \in Rows(call, user)}
    BY <1>1, <1>4 DEF List, Reads
  <2>2. f.at # "new" /\ f.objects = objects
    BY <2>1, AnswerFacts
  <2>3. call.kind \in Kind \ {"todo"} /\ Rows(call, user) \subseteq Own(call.kind, user)
    BY <1>1, <1>2, <1>4, RowsOwn DEF List, Starts
  <2>4. \A o \in objects : IsObject(call.kind, o) /\ o.id \in Own(call.kind, user)
    BY <2>1, <2>3, OwnObjects
  <2> QED BY <1>1, <2>1, <2>2, <2>3, <2>4
<1> QED BY <1>3, <1>4

\* A resolver's step answers objects and counts, if anything.
LEMMA ResolveAnswers ==
  ASSUME ApiInv, AnswersOK, NEW r \in DOMAIN requests, NEW i \in DOMAIN requests[r].fields,
         Resolve(r, i)
  PROVE  \E f : /\ Becomes(r, i, f) /\ f.at # "new"
                /\ \A o \in f.objects : IsAnswer(o)
<1>1. \A f : Reads(r, i, f) => Becomes(r, i, f)
  BY DEF Reads
<1> DEFINE Answers == \E f : /\ Becomes(r, i, f) /\ f.at # "new"
                             /\ \A o \in f.objects : IsAnswer(o)
<1>2. ASSUME Fails(r, i)
      PROVE  Answers
  <2>1. PICK f : f = [NewField EXCEPT !.at = "failed"]
    OBVIOUS
  <2>2. f.at # "new" /\ f.objects = {}
    BY <2>1, SettledFacts
  <2> QED BY <1>1, <1>2, <2>1, <2>2 DEF Fails
<1>3. ASSUME NEW objects, Becomes(r, i, Answer(objects)), \A o \in objects : IsAnswer(o)
      PROVE  Answers
  <2>1. Answer(objects).at # "new" /\ Answer(objects).objects = objects
    BY AnswerFacts
  <2> QED BY <1>3, <2>1
<1>4. ASSUME NEW at, Becomes(r, i, Goes(r, i, at)), at # "new"
      PROVE  Answers
  <2>1. Goes(r, i, at).at # "new" /\ Goes(r, i, at).objects = FieldOf(r, i).objects
    BY <1>4, GoesFacts DEF ApiInv
  <2> QED BY <1>4, <2>1 DEF AnswersOK
<1>5. ASSUME NEW ids, ids \subseteq Todos(Caller(r)), Reads(r, i, WithLabels(ids))
      PROVE  Answers
  <2>1. WithLabels(ids).at # "new" /\ WithLabels(ids).objects = {}
    BY <1>5, WithLabelsFacts
  <2> QED BY <1>1, <1>5, <2>1
<1>6. CASE Create(r, i) \/ Update(r, i)
  <2>1. CASE Writes(r, i)
    <3>1. PICK kind, id, row :
            kind \in Kind /\ Written(r, i, kind, id, row) /\ RowOK(kind, row) /\ id # Null
      BY <2>1 DEF Writes
    <3>2. CASE kind = "todo"
      <4>1. PICK pending : pending = {<<id, row>>}
        OBVIOUS
      <4>2. Becomes(r, i, Pending(pending))
        BY <3>1, <3>2, <4>1 DEF Written, Pending
      <4>3. Pending(pending).at # "new" /\ Pending(pending).objects = {}
        BY PendingFacts
      <4> QED BY <4>2, <4>3
    <3>3. CASE kind # "todo"
      <4>1. PICK objects : objects = {Object(kind, id, row, {})}
        OBVIOUS
      <4>2. Becomes(r, i, Answer(objects))
        BY <3>1, <3>3, <4>1 DEF Written
      <4>3. \A o \in objects : IsAnswer(o)
        BY <3>1, <3>3, <4>1 DEF IsAnswer, IsObject
      <4> QED BY <1>3, <4>2, <4>3
    <3> QED BY <3>2, <3>3
  <2> QED BY <1>2, <1>6, <2>1, CreateWrites, UpdateWrites
<1>7. CASE RefuseArguments(r, i)
  BY <1>2, <1>7 DEF RefuseArguments
<1>8. CASE Delete(r, i)
  <2>1. PICK objects : objects = {} /\ Becomes(r, i, Answer(objects))
    BY <1>8 DEF Delete
  <2> QED BY <1>3, <2>1
<1>9. CASE AddTodoLabel(r, i)
  <2>1. PICK at \in {"insert", "get"} : Reads(r, i, Goes(r, i, at))
    BY <1>9 DEF AddTodoLabel
  <2> QED BY <1>1, <1>4, <2>1
<1>10. CASE InsertTodoLabel(r, i)
  <2>1. Fails(r, i) \/ Becomes(r, i, Goes(r, i, "get"))
    BY <1>10 DEF InsertTodoLabel
  <2> QED BY <1>2, <1>4, <2>1
<1>11. CASE RemoveTodoLabel(r, i)
  <2>1. Becomes(r, i, Goes(r, i, "get"))
    BY <1>11 DEF RemoveTodoLabel
  <2> QED BY <1>4, <2>1
<1>12. CASE GetTodoModel(r, i)
  <2>1. CASE Fails(r, i)
    BY <1>2, <2>1
  <2>2. CASE ~Fails(r, i)
    <3>1. PICK ids : ids = {Call(r, i).id}
      OBVIOUS
    <3>2. Reads(r, i, WithLabels(ids)) /\ ids \subseteq Todos(Caller(r))
      BY <1>12, <2>2, <3>1 DEF GetTodoModel, Found, Todos
    <3> QED BY <1>5, <3>2
  <2> QED BY <2>1, <2>2
<1>13. CASE ReadLabels(r, i)
  <2>1. PICK p, f :
           /\ p \in FieldOf(r, i).pending
           /\ Reads(r, i, f) /\ f.at \in {"done", "labels"}
           /\ f.objects = FieldOf(r, i).objects \cup
                {Object("todo", p[1], p[2],
                   {Object("label", l, tables["label"][l], {}) : l \in ListTodoLabels(p[1], Caller(r))})}
    BY <1>13, ReadLabelsForm DEF ApiInv
  <2>2. PICK labels : labels =
           {Object("label", l, tables["label"][l], {}) : l \in ListTodoLabels(p[1], Caller(r))}
    OBVIOUS
  <2>3. \A l \in ListTodoLabels(p[1], Caller(r)) : IsObject("label", Object("label", l, tables["label"][l], {}))
    BY OwnObjects DEF ListTodoLabels, Kind
  <2>4. \A o \in labels : IsObject("label", o)
    BY <2>2, <2>3
  <2>5. p[1] # Null /\ RowOK("todo", p[2])
    BY <2>1 DEF ApiInv, RequestsOK, RequestOK, FieldOK
  <2>6. IsTodo(Object("todo", p[1], p[2], labels))
    BY <2>4, <2>5 DEF IsTodo
  <2>7. \A o \in f.objects : IsAnswer(o)
    BY <2>1, <2>2, <2>6 DEF AnswersOK, IsAnswer
  <2> QED BY <1>1, <2>1, <2>7
<1>14. CASE Get(r, i) \/ List(r, i)
  BY <1>14, GetObjects DEF IsAnswer
<1>15. CASE TodoList(r, i)
  <2>1. PICK ids : ids = View(Call(r, i), Caller(r)) /\ Reads(r, i, WithLabels(ids))
    BY <1>15 DEF TodoList
  <2>2. ids \subseteq Todos(Caller(r))
    BY <1>15, <2>1, ViewOwn, CallFacts DEF ApiInv, TodoList, Starts
  <2> QED BY <1>5, <2>1, <2>2
<1>16. CASE Count(r, i)
  <2>1. PICK call, user : call = Call(r, i) /\ user = Caller(r)
    OBVIOUS
  <2>2. PICK objects :
          /\ Becomes(r, i, Answer(objects))
          /\ objects = {CASE call.kind = "dashboard" -> Dashboard(DashboardCounts(user))
                          [] call.kind = "project" -> Progress(ProjectProgress(user, call.id))
                          [] call.kind = "stage" -> Progress(StageProgress(user, call.id))}
    BY <1>16, <2>1 DEF Count, Reads
  <2>3. call.kind \in {"dashboard", "project", "stage"}
    BY <1>16, <2>1, CallFacts DEF ApiInv, Count, Starts, IsCall
  <2>4. /\ IsCount(Dashboard(DashboardCounts(user)))
        /\ IsCount(Progress(ProjectProgress(user, call.id)))
        /\ IsCount(Progress(StageProgress(user, call.id)))
    BY CountAnswers DEF ApiInv
  <2>5. \A o \in objects : IsAnswer(o)
    <3>1. CASE call.kind = "dashboard"
      BY <2>2, <2>4, <3>1 DEF IsAnswer
    <3>2. CASE call.kind = "project"
      BY <2>2, <2>4, <3>2 DEF IsAnswer
    <3>3. CASE call.kind = "stage"
      BY <2>2, <2>4, <3>3 DEF IsAnswer
    <3> QED BY <2>3, <3>1, <3>2, <3>3
  <2> QED BY <1>3, <2>2, <2>5
<1> QED BY <1>6, <1>7, <1>8, <1>9, <1>10, <1>11, <1>12, <1>13, <1>14, <1>15, <1>16 DEF Resolve

\* What a step leaves of the requests that were there, and what a new one has.
LEMMA StepFields ==
  ASSUME RequestsOK, [Next]_vars, NEW r \in DOMAIN requests
  PROVE  /\ r \in DOMAIN requests' /\ requests'[r].operation = requests[r].operation
         /\ DOMAIN requests'[r].fields = DOMAIN requests[r].fields
<1>1. CASE UNCHANGED vars
  BY <1>1 DEF vars
<1>2. ASSUME NEW operation, Receive(operation)
      PROVE  r \in DOMAIN requests' /\ requests'[r] = requests[r]
  BY <1>2, ReceiveFacts
<1>3. ASSUME NEW q \in DOMAIN requests, Respond(q) \/ Abort(q)
      PROVE  r \in DOMAIN requests' /\ requests'[r].operation = requests[r].operation
               /\ requests'[r].fields = requests[r].fields
  BY <1>3, EndFacts
<1>4. ASSUME NEW q \in DOMAIN requests, NEW i \in DOMAIN requests[q].fields, Resolve(q, i)
      PROVE  r \in DOMAIN requests' /\ requests'[r].operation = requests[r].operation
               /\ DOMAIN requests'[r].fields = DOMAIN requests[r].fields
  <2>1. PICK f : Becomes(q, i, f)
    BY <1>4, ResolveBecomes
  <2> QED BY <1>4, <2>1, BecomesFacts
<1> QED BY <1>1, <1>2, <1>3, <1>4 DEF Next

LEMMA NewRequest ==
  ASSUME RequestsOK, [Next]_vars, NEW r \in DOMAIN requests', r \notin DOMAIN requests,
         NEW i \in DOMAIN requests'[r].fields
  PROVE  requests'[r].fields[i] = NewField
<1>1. ~UNCHANGED vars
  BY DEF vars
<1>2. ASSUME NEW q \in DOMAIN requests, Respond(q) \/ Abort(q)
      PROVE  FALSE
  BY <1>2, EndFacts
<1>3. ASSUME NEW q \in DOMAIN requests, NEW j \in DOMAIN requests[q].fields, Resolve(q, j)
      PROVE  FALSE
  <2>1. PICK f : Becomes(q, j, f)
    BY <1>3, ResolveBecomes
  <2> QED BY <1>3, <2>1, BecomesFacts
<1>4. PICK operation : Receive(operation)
  BY <1>1, <1>2, <1>3 DEF Next
<1>5. PICK fields : fields = [j \in DOMAIN operation.calls |-> NewField]
  OBVIOUS
<1>6. requests'[r] = [at |-> "running", operation |-> operation, fields |-> fields]
  BY <1>4, <1>5, ReceiveFacts
<1>7. requests'[r].fields = fields
  BY <1>6
<1> QED BY <1>5, <1>7

LEMMA MovedAnswers ==
  ASSUME ApiInv, AnswersOK, [Next]_vars, NEW r \in DOMAIN requests,
         NEW i \in DOMAIN requests[r].fields, requests'[r].fields[i] # requests[r].fields[i]
  PROVE  /\ requests'[r].fields[i].at # "new"
         /\ \A o \in requests'[r].fields[i].objects : IsAnswer(o)
<1>1. Resolve(r, i)
  BY StepOfField DEF ApiInv
<1>2. PICK f : Becomes(r, i, f) /\ f.at # "new" /\ \A o \in f.objects : IsAnswer(o)
  BY <1>1, ResolveAnswers
<1>3. Becomes(r, i, f) /\ RequestsOK
  BY <1>2 DEF ApiInv
<1>4. FieldOf(r, i)' = f
  BY <1>3, BecomesFieldOf
<1> QED BY <1>2, <1>4 DEF FieldOf

LEMMA NextAnswers ==
  ASSUME ApiInv, AnswersOK, [Next]_vars
  PROVE  AnswersOK'
<1>1. RequestsOK
  BY DEF ApiInv
<1>2. ASSUME NEW r \in DOMAIN requests', NEW i \in DOMAIN requests'[r].fields
      PROVE  /\ requests'[r].fields[i].at = "new" => requests'[r].fields[i].objects = {}
             /\ \A o \in requests'[r].fields[i].objects : IsAnswer(o)
  <2>1. CASE r \notin DOMAIN requests
    <3>1. requests'[r].fields[i] = NewField
      BY <1>1, <1>2, <2>1, NewRequest
    <3> QED BY <3>1 DEF NewField
  <2>2. CASE r \in DOMAIN requests /\ requests'[r].fields[i] = requests[r].fields[i]
    <3>1. i \in DOMAIN requests[r].fields
      BY <1>1, <1>2, <2>2, StepFields
    <3> QED BY <2>2, <3>1 DEF AnswersOK, FieldOf
  <2>3. CASE r \in DOMAIN requests /\ requests'[r].fields[i] # requests[r].fields[i]
    <3>1. i \in DOMAIN requests[r].fields
      BY <1>1, <1>2, <2>3, StepFields
    <3> QED BY <2>3, <3>1, MovedAnswers
  <2> QED BY <2>1, <2>2, <2>3
<1> QED BY <1>2 DEF AnswersOK, FieldOf

LEMMA AlwaysAnswers == Spec => []AnswersOK
<1>1. Init => AnswersOK
  BY DEF Init, AnswersOK
<1> QED BY <1>1, NextAnswers, AlwaysApi, PTL DEF Spec

\* Null, of which every run makes a model value, is neither an object, which
\* has fields, nor a list of objects.
NullIsNoObject == \A f \in {"id", "total", "openTodos"} : f \notin DOMAIN Null
NullIsNoList == \A list : (\A o \in list : "id" \in DOMAIN o) => list # Null

LEMMA AnswerThere ==
  ASSUME NullIsNoObject, NullIsNoList, NEW o, IsAnswer(o)
  PROVE  o # Null
<1>1. ASSUME NEW k \in Kind \ {"todo"}, NEW x, IsObject(k, x)
      PROVE  "id" \in DOMAIN x
  BY <1>1, ObjectOfRow DEF IsObject
<1>2. CASE IsTodo(o)
  <2>1. PICK id, row, labels :
          /\ id # Null /\ RowOK("todo", row) /\ o = Object("todo", id, row, labels)
          /\ \A l \in labels : IsObject("label", l)
    BY <1>2 DEF IsTodo
  <2>2. \A l \in labels : "id" \in DOMAIN l
    BY <1>1, <2>1 DEF Kind
  <2>3. labels # Null
    BY <2>2 DEF NullIsNoList
  <2>4. "id" \in DOMAIN o
    BY <2>1, <2>3, ObjectOfTodo
  <2> QED BY <2>4 DEF NullIsNoObject
<1>3. CASE \E k \in Kind \ {"todo"} : IsObject(k, o)
  BY <1>1, <1>3 DEF NullIsNoObject
<1>4. CASE IsCount(o)
  <2>1. \A n \in Int : n # Null
    BY NullAssumption
  <2>2. ASSUME NEW a \in Nat, NEW b \in Nat, NEW c \in Nat, NEW d \in Nat, NEW e \in Nat,
               o = Dashboard([openTodos |-> a, overdueTodos |-> b, nextActions |-> c,
                              activeProjects |-> d, upcomingDeadlines |-> e])
        PROVE  "openTodos" \in DOMAIN o
    <3>1. PICK x : x = [openTodos |-> a, overdueTodos |-> b, nextActions |-> c,
                        activeProjects |-> d, upcomingDeadlines |-> e]
      OBVIOUS
    <3>2. a # Null /\ b # Null /\ c # Null /\ d # Null /\ e # Null
      BY <2>1
    <3>3. \A f \in NonNullDashboard : x[f] # Null
      BY <3>1, <3>2 DEF NonNullDashboard
    <3>4. o = x
      BY <2>2, <3>1, <3>3 DEF Dashboard, NonNull
    <3> QED BY <3>1, <3>4
  <2>3. ASSUME NEW all \in Nat, NEW done \in Nat, o = Progress(progressModel(all, done))
        PROVE  "total" \in DOMAIN o
    <3>1. PICK percent : percent = IF all > 0 THEN (done * 100) \div all ELSE 0
      OBVIOUS
    <3>2. percent \in Int
      BY <3>1
    <3>3. all # Null /\ done # Null /\ percent # Null
      BY <2>1, <3>2
    <3>4. PICK x : x = [total |-> all, done |-> done, percent |-> percent]
      OBVIOUS
    <3>5. \A f \in NonNullProgress : x[f] # Null
      BY <3>3, <3>4 DEF NonNullProgress
    <3>6. progressModel(all, done) = x
      BY <3>1, <3>4 DEF progressModel
    <3>7. o = x
      BY <2>3, <3>5, <3>6 DEF Progress, NonNull
    <3> QED BY <3>4, <3>7
  <2> QED BY <1>4, <2>2, <2>3 DEF IsCount, NullIsNoObject
<1> QED BY <1>2, <1>3, <1>4 DEF IsAnswer

\* Rows satisfy their constraints, and no answer of a list or of a mutation
\* is null because of a row without a value that GraphQL must show.
THEOREM AlwaysTyped ==
  ASSUME NullIsNoObject, NullIsNoList
  PROVE  Spec => []TypeOK
<1>1. ApiInv /\ AnswersOK => TypeOK
  <2> SUFFICES ASSUME ApiInv, AnswersOK PROVE TypeOK
    OBVIOUS
  <2>1. \A k \in Kind : \A id \in DOMAIN tables[k] : RowOK(k, tables[k][id])
    BY DEF ApiInv, RowsOK
  <2>2. \A k \in Kind : \A id \in DOMAIN tables[k] :
          tables[k][id].user_id \in User /\ \A c \in NotNullColumn[k] : tables[k][id][c] # Null
    BY <2>1 DEF RowOK
  <2>3. \A p \in DOMAIN tables["project"] : tables["project"][p].status \in ProjectStatus
    BY <2>1 DEF RowOK, Enumeration, Kind
  <2>4. \A s \in DOMAIN tables["stage"] : tables["stage"][s].status \in StageStatus
    BY <2>1 DEF RowOK, Enumeration, Kind
  <2>5. \A t \in DOMAIN tables["todo"] :
          todo(t).status \in TodoStatus /\ todo(t).priority \in TodoPriority
            /\ todo(t).recurrence \in Recurrence
    BY <2>1 DEF RowOK, Enumeration, Kind, todo
  <2>6. \A l \in DOMAIN tables["label"] : ~NameTaken(l, tables["label"][l])
    BY DEF ApiInv, RowsOK
  <2>7. \A r \in DOMAIN requests : \A i \in DOMAIN requests[r].fields :
          Null \notin FieldOf(r, i).objects
    BY AnswerThere DEF AnswersOK
  <2> QED BY <2>2, <2>3, <2>4, <2>5, <2>6, <2>7 DEF TypeOK
<1> QED BY <1>1, AlwaysApi, AlwaysAnswers, PTL

-----------------------------------------------------------------------------
(* Rows of other users.                                                    *)

\* Steps of a resolver that leave the rows alone, and the pairs too.
LEMMA QuietSteps ==
  ASSUME NEW r, NEW i, Resolve(r, i)
  PROVE  \/ UNCHANGED <<tables, todo_labels>>
         \/ Create(r, i) \/ Update(r, i) \/ Delete(r, i)
         \/ InsertTodoLabel(r, i) \/ RemoveTodoLabel(r, i)
<1>1. \A f : Reads(r, i, f) => UNCHANGED <<tables, todo_labels>>
  BY DEF Reads
<1>2. Fails(r, i) => UNCHANGED <<tables, todo_labels>>
  BY <1>1 DEF Fails
<1>3. CASE RefuseArguments(r, i)
  BY <1>2, <1>3 DEF RefuseArguments
<1>4. CASE AddTodoLabel(r, i)
  BY <1>1, <1>4 DEF AddTodoLabel
<1>5. CASE GetTodoModel(r, i)
  BY <1>1, <1>2, <1>5 DEF GetTodoModel
<1>6. CASE ReadLabels(r, i)
  BY <1>1, <1>6 DEF ReadLabels
<1>7. CASE Get(r, i)
  BY <1>1, <1>7 DEF Get
<1>8. CASE List(r, i)
  BY <1>1, <1>8 DEF List
<1>9. CASE TodoList(r, i)
  BY <1>1, <1>9 DEF TodoList
<1>10. CASE Count(r, i)
  BY <1>1, <1>10 DEF Count
<1> QED BY <1>3, <1>4, <1>5, <1>6, <1>7, <1>8, <1>9, <1>10 DEF Resolve

\* What a deletion takes away.
LEMMA DeleteForm ==
  ASSUME ApiInv, NEW r \in DOMAIN requests, NEW i \in DOMAIN requests[r].fields, Delete(r, i)
  PROVE  \E kind, gone :
           /\ kind \in Kind /\ gone \subseteq Own(kind, Caller(r))
           /\ DOMAIN tables'[kind] = DOMAIN tables[kind] \ gone
           /\ \A j \in DOMAIN tables'[kind] : tables'[kind][j] = tables[kind][j]
           /\ \A k \in Kind : k # kind => tables'[k] = tables[k]
           /\ todo_labels' = {p \in todo_labels : ~(kind = "todo" /\ p[1] \in gone)
                                                    /\ ~(kind = "label" /\ p[2] \in gone)}
<1>1. PICK kind, gone :
        /\ kind = Call(r, i).kind /\ gone = {Call(r, i).id} \cap Own(Call(r, i).kind, Caller(r))
        /\ tables' = [tables EXCEPT ![kind] = Restrict(@, DOMAIN @ \ gone)]
        /\ todo_labels' = {p \in todo_labels : ~(kind = "todo" /\ p[1] \in gone)
                                                 /\ ~(kind = "label" /\ p[2] \in gone)}
  BY DEF Delete
<1>2. kind \in Kind
  BY <1>1, CallFacts DEF ApiInv, Delete, Starts, IsCall, Kind
<1>3. gone \subseteq Own(kind, Caller(r))
  BY <1>1
<1>4. /\ DOMAIN tables'[kind] = DOMAIN tables[kind] \ gone
      /\ \A j \in DOMAIN tables'[kind] : tables'[kind][j] = tables[kind][j]
      /\ \A k \in Kind : k # kind => tables'[k] = tables[k]
  BY <1>1, <1>2 DEF ApiInv, RowsOK, Restrict
<1>5. todo_labels' = {p \in todo_labels : ~(kind = "todo" /\ p[1] \in gone)
                                             /\ ~(kind = "label" /\ p[2] \in gone)}
  BY <1>1
<1> WITNESS kind, gone
<1> QED BY <1>2, <1>3, <1>4, <1>5

\* A resolver changes, adds and removes rows of its caller.
LEMMA OwnTables ==
  ASSUME ApiInv, NEW r \in DOMAIN requests, NEW i \in DOMAIN requests[r].fields, Resolve(r, i),
         NEW k \in Kind, NEW id \in DOMAIN tables[k] \cup DOMAIN tables'[k]
  PROVE  \/ id \in DOMAIN tables[k] \cap DOMAIN tables'[k] /\ tables'[k][id] = tables[k][id]
         \/ /\ id \in DOMAIN tables[k] => tables[k][id].user_id = Caller(r)
            /\ id \in DOMAIN tables'[k] => tables'[k][id].user_id = Caller(r)
<1>1. CASE UNCHANGED tables
  BY <1>1
<1>2. CASE Writes(r, i)
  <2>1. PICK kind, j, row :
          /\ kind \in Kind /\ Written(r, i, kind, j, row) /\ row.user_id = Caller(r)
          /\ \/ j = <<r, i>> /\ j \notin DOMAIN tables[kind]
             \/ j \in Own(kind, Caller(r))
    BY <1>2 DEF Writes
  <2>2. tables' = [tables EXCEPT ![kind] = With(@, j, row)] /\ kind \in DOMAIN tables
    BY <2>1 DEF Written, ApiInv, RowsOK
  <2>3. /\ k # kind => tables'[k] = tables[k]
        /\ tables'[kind] = With(tables[kind], j, row)
    BY <2>2
  <2>4. /\ DOMAIN tables'[kind] = DOMAIN tables[kind] \cup {j}
        /\ tables'[kind][j] = row
        /\ \A l \in DOMAIN tables[kind] : l # j => tables'[kind][l] = tables[kind][l]
    BY <2>3 DEF With
  <2>5. j \in DOMAIN tables[kind] => tables[kind][j].user_id = Caller(r)
    BY <2>1 DEF Own
  <2> QED BY <2>1, <2>3, <2>4, <2>5
<1>3. CASE Delete(r, i)
  <2>1. PICK kind, gone :
          /\ kind \in Kind /\ gone \subseteq Own(kind, Caller(r))
          /\ DOMAIN tables'[kind] = DOMAIN tables[kind] \ gone
          /\ \A j \in DOMAIN tables'[kind] : tables'[kind][j] = tables[kind][j]
          /\ \A l \in Kind : l # kind => tables'[l] = tables[l]
    BY <1>3, DeleteForm
  <2> QED BY <2>1 DEF Own
<1>4. CASE InsertTodoLabel(r, i) \/ RemoveTodoLabel(r, i) \/ Fails(r, i)
  BY <1>1, <1>4 DEF InsertTodoLabel, RemoveTodoLabel, Fails, Reads
<1> QED BY <1>1, <1>2, <1>3, <1>4, QuietSteps, CreateWrites, UpdateWrites

\* A resolver labels todos of its caller.
LEMMA OwnLabels ==
  ASSUME ApiInv, NEW r \in DOMAIN requests, NEW i \in DOMAIN requests[r].fields, Resolve(r, i),
         NEW p \in (todo_labels \ todo_labels') \cup (todo_labels' \ todo_labels)
  PROVE  p[1] \in Todos(Caller(r)) \/ p[2] \in Own("label", Caller(r))
<1>1. ~UNCHANGED todo_labels
  OBVIOUS
<1>2. ~Create(r, i) /\ ~Update(r, i)
  BY <1>1, CreateWrites, UpdateWrites DEF Writes, Written, Fails, Reads
<1>3. CASE Delete(r, i)
  <2>1. PICK kind, gone :
          /\ kind \in Kind /\ gone \subseteq Own(kind, Caller(r))
          /\ todo_labels' = {q \in todo_labels : ~(kind = "todo" /\ q[1] \in gone)
                                                   /\ ~(kind = "label" /\ q[2] \in gone)}
    BY <1>3, DeleteForm
  <2>2. (kind = "todo" /\ p[1] \in gone) \/ (kind = "label" /\ p[2] \in gone)
    BY <2>1
  <2> QED BY <2>1, <2>2 DEF Todos
<1>4. CASE InsertTodoLabel(r, i)
  <2>1. PICK t, l, user : t = Call(r, i).id /\ l = Call(r, i).label /\ user = Caller(r)
    OBVIOUS
  <2>2. /\ FieldOf(r, i).at = "insert" /\ todo_labels' = todo_labels \cup {<<t, l>>}
        /\ t \in DOMAIN tables["todo"]
    BY <1>1, <1>4, <2>1 DEF InsertTodoLabel, Runs, Fails, Reads
  <2>3. Of("todo", t, user)
    BY <2>1, <2>2 DEF ApiInv, RequestsOK, RequestOK
  <2>4. p = <<t, l>>
    BY <2>2
  <2> QED BY <2>1, <2>2, <2>3, <2>4 DEF Of, Todos
<1>5. CASE RemoveTodoLabel(r, i)
  <2>1. PICK t, l, user : t = Call(r, i).id /\ l = Call(r, i).label /\ user = Caller(r)
    OBVIOUS
  <2>2. todo_labels' = IF Found("todo", t, user) THEN todo_labels \ {<<t, l>>} ELSE todo_labels
    BY <1>5, <2>1 DEF RemoveTodoLabel
  <2>3. Found("todo", t, user) /\ p = <<t, l>>
    BY <2>2
  <2> QED BY <2>1, <2>3 DEF Found, Todos
<1> QED BY <1>1, <1>2, <1>3, <1>4, <1>5, QuietSteps

\* A resolver that gets or lists answers rows of its caller.
LEMMA OwnAnswers ==
  ASSUME ApiInv, AnswersOK, [Next]_vars, NEW r \in DOMAIN requests,
         NEW i \in DOMAIN requests[r].fields, Call(r, i).op \in {"get", "list"},
         FieldOf(r, i).at = "new", NEW o \in requests'[r].fields[i].objects
  PROVE  \E k \in Kind : o.id \in Own(k, Caller(r))
<1>1. requests'[r].fields[i] # requests[r].fields[i]
  BY DEF AnswersOK, FieldOf
<1>2. Resolve(r, i)
  BY <1>1, StepOfField DEF ApiInv
<1>3. RefuseArguments(r, i) \/ Get(r, i) \/ List(r, i)
  BY <1>2 DEF Resolve, Create, Update, Delete, AddTodoLabel, InsertTodoLabel, RemoveTodoLabel,
              GetTodoModel, ReadLabels, TodoList, Count, Starts, Runs
<1>4. ~RefuseArguments(r, i)
  <2> SUFFICES ASSUME RefuseArguments(r, i) PROVE FALSE
    OBVIOUS
  <2>1. PICK f : f = [NewField EXCEPT !.at = "failed"]
    OBVIOUS
  <2>2. Becomes(r, i, f) /\ RequestsOK
    BY <2>1 DEF RefuseArguments, Fails, Reads, ApiInv
  <2>3. FieldOf(r, i)' = f
    BY <2>2, BecomesFieldOf
  <2>4. f.objects = {}
    BY <2>1, SettledFacts
  <2> QED BY <2>3, <2>4 DEF FieldOf
<1>5. PICK f : /\ Becomes(r, i, f)
               /\ \A x \in f.objects : \E k \in Kind \ {"todo"} :
                    IsObject(k, x) /\ x.id \in Own(k, Caller(r))
  BY <1>3, <1>4, GetObjects
<1>6. Becomes(r, i, f) /\ RequestsOK
  BY <1>5 DEF ApiInv
<1>7. FieldOf(r, i)' = f
  BY <1>6, BecomesFieldOf
<1>8. o \in f.objects
  BY <1>7 DEF FieldOf
<1> QED BY <1>5, <1>8

\* No request ever changes, adds, removes, labels or answers a row of
\* somebody else.
THEOREM NoStepOnOthers == Spec => OwnRowsOnly
<1>1. ASSUME ApiInv, ApiInv', AnswersOK, [Next]_vars,
             NEW r \in DOMAIN requests, requests'[r] # requests[r]
      PROVE  /\ \A k \in Kind : \A id \in DOMAIN tables[k] \cup DOMAIN tables'[k] :
                  \/ id \in DOMAIN tables[k] \cap DOMAIN tables'[k] /\ tables'[k][id] = tables[k][id]
                  \/ /\ id \in DOMAIN tables[k] => tables[k][id].user_id = Caller(r)
                     /\ id \in DOMAIN tables'[k] => tables'[k][id].user_id = Caller(r)
             /\ \A p \in (todo_labels \ todo_labels') \cup (todo_labels' \ todo_labels) :
                  \/ p[1] \in Todos(Caller(r))
                  \/ p[2] \in Own("label", Caller(r))
             /\ \A i \in DOMAIN requests'[r].fields :
                  /\ \A p \in requests'[r].fields[i].pending : p[2].user_id = Caller(r)
                  /\ Call(r, i).op \in {"get", "list"} => \A o \in requests'[r].fields[i].objects :
                       FieldOf(r, i).at = "new" => \E k \in Kind : o.id \in Own(k, Caller(r))
  <2>1. RequestsOK /\ RequestsOK'
    BY <1>1 DEF ApiInv
  <2>2. UNCHANGED <<tables, todo_labels>> \/ \E i \in DOMAIN requests[r].fields : Resolve(r, i)
    BY <1>1, <2>1, StepOfRequest, EndFacts
  <2>3. \A k \in Kind : \A id \in DOMAIN tables[k] \cup DOMAIN tables'[k] :
          \/ id \in DOMAIN tables[k] \cap DOMAIN tables'[k] /\ tables'[k][id] = tables[k][id]
          \/ /\ id \in DOMAIN tables[k] => tables[k][id].user_id = Caller(r)
             /\ id \in DOMAIN tables'[k] => tables'[k][id].user_id = Caller(r)
    BY <1>1, <2>2, OwnTables
  <2>4. \A p \in (todo_labels \ todo_labels') \cup (todo_labels' \ todo_labels) :
          p[1] \in Todos(Caller(r)) \/ p[2] \in Own("label", Caller(r))
    BY <1>1, <2>2, OwnLabels
  <2>5. ASSUME NEW i \in DOMAIN requests'[r].fields
        PROVE  /\ \A p \in requests'[r].fields[i].pending : p[2].user_id = Caller(r)
               /\ Call(r, i).op \in {"get", "list"} => \A o \in requests'[r].fields[i].objects :
                    FieldOf(r, i).at = "new" => \E k \in Kind : o.id \in Own(k, Caller(r))
    <3>1. /\ r \in DOMAIN requests' /\ requests'[r].operation = requests[r].operation
          /\ i \in DOMAIN requests[r].fields
      BY <1>1, <2>1, <2>5, StepFields
    <3>2. PICK user : user = Caller(r)
      OBVIOUS
    <3>3. Caller(r)' = user
      BY <3>1, <3>2 DEF Caller
    <3>4. FieldOK(user, FieldOf(r, i))'
      BY <2>1, <2>5, <3>1, <3>3 DEF RequestsOK, RequestOK
    <3>5. \A p \in requests'[r].fields[i].pending : p[2].user_id = Caller(r)
      BY <3>2, <3>4 DEF FieldOK, FieldOf
    <3> QED BY <1>1, <3>1, <3>5, OwnAnswers
  <2> QED BY <2>3, <2>4, <2>5
<1>2. ApiInv /\ ApiInv' /\ AnswersOK /\ [Next]_vars =>
        \A r \in DOMAIN requests : requests'[r] # requests[r] =>
          LET u == Caller(r) IN
          /\ \A k \in Kind : \A id \in DOMAIN tables[k] \cup DOMAIN tables'[k] :
               \/ id \in DOMAIN tables[k] \cap DOMAIN tables'[k] /\ tables'[k][id] = tables[k][id]
               \/ /\ id \in DOMAIN tables[k] => tables[k][id].user_id = u
                  /\ id \in DOMAIN tables'[k] => tables'[k][id].user_id = u
          /\ \A p \in (todo_labels \ todo_labels') \cup (todo_labels' \ todo_labels) :
               \/ p[1] \in Todos(u)
               \/ p[2] \in Own("label", u)
          /\ \A i \in DOMAIN requests'[r].fields :
               /\ \A p \in requests'[r].fields[i].pending : p[2].user_id = u
               /\ Call(r, i).op \in {"get", "list"} => \A o \in requests'[r].fields[i].objects :
                    FieldOf(r, i).at = "new" => \E k \in Kind : o.id \in Own(k, u)
  BY <1>1
<1> QED BY <1>2, AlwaysApi, AlwaysAnswers, PTL DEF Spec, OwnRowsOnly

-----------------------------------------------------------------------------
(* Views.                                                                  *)

\* A progress of 100 percent, as the division rounds it.
LEMMA FullPercent ==
  ASSUME NEW all \in Nat, NEW done \in Nat, done <= all
  PROVE  (progressModel(all, done).percent = 100) <=> (all > 0 /\ done = all)
<1>1. progressModel(all, done).percent = IF all > 0 THEN (done * 100) \div all ELSE 0
  BY DEF progressModel
<1>2. CASE all > 0 /\ done = all
  <2>1. (done * 100) \div all = 100
    BY <1>2
  <2> QED BY <1>1, <1>2, <2>1
<1>3. CASE all > 0 /\ done < all
  <2>1. (done * 100) \div all # 100
    BY <1>3
  <2> QED BY <1>1, <1>3, <2>1
<1>4. CASE all = 0
  BY <1>1, <1>4
<1> QED BY <1>2, <1>3, <1>4

\* The filter of todos that asks for nothing but a project and a status.
FilterOf(project, status) ==
  [projectId |-> project, stageId |-> Null, labelId |-> Null, priority |-> Null, status |-> status]

LEMMA FilterForms ==
  ASSUME NEW p
  PROVE  LET all == [projectId |-> Null, stageId |-> Null, labelId |-> Null, priority |-> Null, status |-> Null] IN
         /\ all = FilterOf(Null, Null)
         /\ [all EXCEPT !.projectId = p] = FilterOf(p, Null)
         /\ [all EXCEPT !.projectId = p, !.status = "DONE"] = FilterOf(p, "DONE")
<1> DEFINE all == [projectId |-> Null, stageId |-> Null, labelId |-> Null, priority |-> Null, status |-> Null]
<1>1. PICK of : of = [all EXCEPT !.projectId = p]
  OBVIOUS
<1>2. of = FilterOf(p, Null)
  BY <1>1 DEF FilterOf
<1>3. [of EXCEPT !.status = "DONE"] = FilterOf(p, "DONE")
  BY <1>2 DEF FilterOf
<1>4. all = FilterOf(Null, Null)
  BY DEF FilterOf
<1> HIDE DEF all
<1>5. /\ all = FilterOf(Null, Null)
      /\ [all EXCEPT !.projectId = p] = FilterOf(p, Null)
      /\ [all EXCEPT !.projectId = p, !.status = "DONE"] = FilterOf(p, "DONE")
  BY <1>1, <1>2, <1>3, <1>4
<1> QED BY <1>5 DEF all

LEMMA ListedTodos ==
  ASSUME NEW u, NEW project, NEW status
  PROVE  ListTodos(u, FilterOf(project, status)) =
           {t \in Todos(u) : Matches(todo(t).project_id, project) /\ Matches(todo(t).status, status)}
<1>1. PICK filter : filter = FilterOf(project, status)
  OBVIOUS
<1>2. /\ filter.projectId = project /\ filter.status = status
      /\ filter.stageId = Null /\ filter.labelId = Null /\ filter.priority = Null
  BY <1>1 DEF FilterOf
<1>3. \A v : Matches(v, Null)
  BY DEF Matches
<1>4. ListTodos(u, filter) =
        {t \in Todos(u) : Matches(todo(t).project_id, project) /\ Matches(todo(t).status, status)}
  BY <1>2, <1>3 DEF ListTodos
<1> QED BY <1>1, <1>4

\* What the rows of a user's todos say.
LEMMA TodoRow ==
  ASSUME ApiInv, NEW u, NEW t \in Todos(u)
  PROVE  /\ t \in DOMAIN tables["todo"] /\ todo(t).status \in TodoStatus /\ t # Null
         /\ todo(t).project_id # Null => todo(t).project_id \in Own("project", u)
<1>1. t \in DOMAIN tables["todo"] /\ tables["todo"][t].user_id = u
  BY DEF Todos, Own
<1>2. RowOK("todo", tables["todo"][t]) /\ t # Null
  BY <1>1 DEF ApiInv, RowsOK, Kind
<1>3. <<"project_id", "project">> \in Reference["todo"] /\ "todo" \in Kind
  BY DEF Reference, Kind
<1>4. tables["todo"][t].project_id # Null => tables["todo"][t].project_id \in Own("project", u)
  BY <1>1, <1>3 DEF ApiInv, RowsOfOneUser
<1> QED BY <1>1, <1>2, <1>4 DEF RowOK, Enumeration, todo

\* Counts and lists.
LEMMA CountsAgree ==
  ASSUME ApiInv, NEW u
  PROVE  /\ DashboardCounts(u).openTodos = Cardinality(ListOpenTodos(u))
         /\ DashboardCounts(u).overdueTodos = Cardinality(ListOverdueTodos(u))
         /\ DashboardCounts(u).nextActions = Cardinality(ListNextActionTodos(u))
         /\ DashboardCounts(u).overdueTodos + DashboardCounts(u).upcomingDeadlines
              <= DashboardCounts(u).openTodos
<1>1. /\ DashboardCounts(u).openTodos = Cardinality(ListOpenTodos(u))
      /\ DashboardCounts(u).overdueTodos = Cardinality(ListOverdueTodos(u))
      /\ DashboardCounts(u).nextActions = Cardinality(ListNextActionTodos(u))
      /\ DashboardCounts(u).upcomingDeadlines = Cardinality(Upcoming(u))
  BY DEF DashboardCounts, ListOpenTodos, ListOverdueTodos, ListNextActionTodos
<1>2. PICK open, overdue, upcoming :
        open = ListOpenTodos(u) /\ overdue = ListOverdueTodos(u) /\ upcoming = Upcoming(u)
  OBVIOUS
<1>3. open \subseteq DOMAIN tables["todo"] /\ overdue \subseteq open /\ upcoming \subseteq open
  BY <1>2 DEF ListOpenTodos, ListOverdueTodos, Upcoming, Todos, Own
<1>4. overdue \cap upcoming = {}
  BY <1>2, DaysAssumption DEF ListOverdueTodos, Upcoming
<1>5. /\ IsFiniteSet(open) /\ Cardinality(open) \in Nat
      /\ IsFiniteSet(overdue) /\ Cardinality(overdue) \in Nat
      /\ IsFiniteSet(upcoming) /\ Cardinality(upcoming) \in Nat
  <2>1. "todo" \in Kind /\ overdue \subseteq DOMAIN tables["todo"] /\ upcoming \subseteq DOMAIN tables["todo"]
    BY <1>3 DEF Kind
  <2> QED BY <1>3, <2>1, RowsCounted DEF ApiInv
<1>6. Cardinality(overdue \cup upcoming) = Cardinality(overdue) + Cardinality(upcoming)
  <2>1. Cardinality(overdue \cup upcoming) =
          Cardinality(overdue) + Cardinality(upcoming) - Cardinality(overdue \cap upcoming)
    BY <1>5, FS_Union
  <2>2. Cardinality(overdue \cap upcoming) = 0
    BY <1>4, FS_EmptySet
  <2> QED BY <1>5, <2>1, <2>2
<1>7. Cardinality(overdue \cup upcoming) <= Cardinality(open)
  <2>1. overdue \cup upcoming \in SUBSET open
    BY <1>3
  <2> QED BY <1>5, <2>1, FS_Subset
<1> QED BY <1>1, <1>2, <1>6, <1>7

LEMMA ProgressAgrees ==
  ASSUME ApiInv, NEW u, NEW p \in Own("project", u)
  PROVE  LET of == ListTodos(u, FilterOf(p, Null))
             done == ListTodos(u, FilterOf(p, "DONE"))
             progress == ProjectProgress(u, p) IN
         /\ progress.total = Cardinality(of) /\ progress.done = Cardinality(done)
         /\ (progress.percent = 100) <=> (of # {} /\ of = done)
<1>1. p # Null /\ "DONE" # Null
  <2>1. p # Null
    BY DEF Own, ApiInv, RowsOK, Kind
  <2>2. "DONE" # Null
    BY NullAssumption DEF TodoStatus
  <2> QED BY <2>1, <2>2
<1>2. PICK of, done, all, n :
        /\ of = {t \in Todos(u) : todo(t).project_id = p}
        /\ done = {t \in of : todo(t).status = "DONE"}
        /\ all = Cardinality(of) /\ n = Cardinality(done)
  OBVIOUS
<1>3. of = ListTodos(u, FilterOf(p, Null)) /\ done = ListTodos(u, FilterOf(p, "DONE"))
  BY <1>1, <1>2, ListedTodos DEF Matches
<1>4. ProjectProgress(u, p) = progressModel(all, n)
  BY <1>2 DEF ProjectProgress
<1>5. IsFiniteSet(of) /\ all \in Nat /\ n \in Nat
  <2>1. of \subseteq DOMAIN tables["todo"] /\ done \subseteq DOMAIN tables["todo"] /\ "todo" \in Kind
    BY <1>2 DEF Todos, Own, Kind
  <2> QED BY <1>2, <2>1, RowsCounted DEF ApiInv
<1>6. n <= all /\ (all = n => of = done)
  <2>1. done \in SUBSET of
    BY <1>2
  <2> QED BY <1>2, <1>5, <2>1, FS_Subset
<1>7. all = 0 <=> of = {}
  BY <1>2, <1>5, FS_EmptySet
<1>8. (progressModel(all, n).percent = 100) <=> (all > 0 /\ n = all)
  BY <1>5, <1>6, FullPercent
<1>9. (all > 0 /\ n = all) <=> (of # {} /\ of = done)
  BY <1>2, <1>5, <1>6, <1>7
<1>10. progressModel(all, n).total = all /\ progressModel(all, n).done = n
  BY DEF progressModel
<1> QED BY <1>2, <1>3, <1>4, <1>8, <1>9, <1>10

\* The views, the counts and the progress always tell the same story.
THEOREM AlwaysAgree == Spec => []ViewsAgree
<1>1. ASSUME ApiInv, NEW u \in User
      PROVE  LET counts == DashboardCounts(u)
                 projects == Own("project", u) IN
             /\ ListTodos(u, FilterOf(Null, Null)) = ListOpenTodos(u) \cup ListDoneTodos(u)
             /\ ListOpenTodos(u) \cap ListDoneTodos(u) = {}
             /\ counts.openTodos = Cardinality(ListOpenTodos(u))
             /\ counts.overdueTodos = Cardinality(ListOverdueTodos(u))
             /\ counts.nextActions = Cardinality(ListNextActionTodos(u))
             /\ counts.overdueTodos + counts.upcomingDeadlines <= counts.openTodos
             /\ \A t \in Todos(u) :
                  (t \in ListInboxTodos(u)) # (\E p \in projects : t \in ListTodos(u, FilterOf(p, Null)))
             /\ \A p \in projects :
                  LET progress == ProjectProgress(u, p)
                      of == ListTodos(u, FilterOf(p, Null))
                      done == ListTodos(u, FilterOf(p, "DONE")) IN
                  /\ progress.total = Cardinality(of) /\ progress.done = Cardinality(done)
                  /\ (progress.percent = 100) <=> (of # {} /\ of = done)
  <2>1. ListTodos(u, FilterOf(Null, Null)) = ListOpenTodos(u) \cup ListDoneTodos(u)
    <3>1. ListTodos(u, FilterOf(Null, Null)) = Todos(u)
      BY ListedTodos DEF Matches
    <3>2. \A t \in Todos(u) : todo(t).status \in TodoStatus
      BY <1>1, TodoRow
    <3> QED BY <3>1, <3>2 DEF ListOpenTodos, ListDoneTodos, Unfinished, TodoStatus
  <2>2. ListOpenTodos(u) \cap ListDoneTodos(u) = {}
    BY DEF ListOpenTodos, ListDoneTodos, Unfinished
  <2>3. ASSUME NEW t \in Todos(u)
        PROVE  (t \in ListInboxTodos(u)) # (\E p \in Own("project", u) : t \in ListTodos(u, FilterOf(p, Null)))
    <3>1. \A p \in Own("project", u) : p # Null
      BY <1>1 DEF Own, ApiInv, RowsOK, Kind
    <3>2. \A p \in Own("project", u) : t \in ListTodos(u, FilterOf(p, Null)) <=> todo(t).project_id = p
      BY <2>3, <3>1, ListedTodos DEF Matches
    <3>3. t \in ListInboxTodos(u) <=> todo(t).project_id = Null
      BY <2>3 DEF ListInboxTodos
    <3>4. todo(t).project_id # Null => todo(t).project_id \in Own("project", u)
      BY <1>1, <2>3, TodoRow
    <3>5. t \in ListInboxTodos(u) <=> ~\E p \in Own("project", u) : t \in ListTodos(u, FilterOf(p, Null))
      BY <3>1, <3>2, <3>3, <3>4
    <3> QED BY <3>5
  <2> QED BY <1>1, <2>1, <2>2, <2>3, CountsAgree, ProgressAgrees
<1> DEFINE All == [projectId |-> Null, stageId |-> Null, labelId |-> Null, priority |-> Null, status |-> Null]
           InProject(u, p) == ListTodos(u, [All EXCEPT !.projectId = p])
           DoneIn(u, p) == ListTodos(u, [All EXCEPT !.projectId = p, !.status = "DONE"])
<1>2. /\ \A u : ListTodos(u, All) = ListTodos(u, FilterOf(Null, Null))
      /\ \A u, p : InProject(u, p) = ListTodos(u, FilterOf(p, Null))
      /\ \A u, p : DoneIn(u, p) = ListTodos(u, FilterOf(p, "DONE"))
  BY FilterForms
<1>3. ASSUME ApiInv, NEW u \in User
      PROVE  LET counts == DashboardCounts(u)
                 projects == Own("project", u) IN
             /\ ListTodos(u, All) = ListOpenTodos(u) \cup ListDoneTodos(u)
             /\ ListOpenTodos(u) \cap ListDoneTodos(u) = {}
             /\ counts.openTodos = Cardinality(ListOpenTodos(u))
             /\ counts.overdueTodos = Cardinality(ListOverdueTodos(u))
             /\ counts.nextActions = Cardinality(ListNextActionTodos(u))
             /\ counts.overdueTodos + counts.upcomingDeadlines <= counts.openTodos
             /\ \A t \in Todos(u) : (t \in ListInboxTodos(u)) # (\E p \in projects : t \in InProject(u, p))
             /\ \A p \in projects :
                  LET progress == ProjectProgress(u, p) IN
                  /\ progress.total = Cardinality(InProject(u, p)) /\ progress.done = Cardinality(DoneIn(u, p))
                  /\ (progress.percent = 100) <=> (InProject(u, p) # {} /\ InProject(u, p) = DoneIn(u, p))
  <2> HIDE DEF All, InProject, DoneIn
  <2> QED BY <1>1, <1>2, <1>3
<1>4. ApiInv => ViewsAgree
  BY <1>3 DEF ViewsAgree
<1> QED BY <1>4, AlwaysApi, PTL

-----------------------------------------------------------------------------
(* The objects that the rows show, field by field.                         *)

\* The column that each field shows.
ColumnOf ==
  [epic |-> [name |-> "name", description |-> "description", color |-> "color",
             position |-> "position"],
   project |-> [epicId |-> "epic_id", name |-> "name", description |-> "description",
                status |-> "status", startDate |-> "start_date", targetDate |-> "target_date",
                position |-> "position"],
   stage |-> [projectId |-> "project_id", name |-> "name", description |-> "description",
              status |-> "status", startDate |-> "start_date", targetDate |-> "target_date",
              position |-> "position"],
   todo |-> [projectId |-> "project_id", stageId |-> "stage_id", title |-> "title",
             description |-> "description", priority |-> "priority", status |-> "status",
             startDate |-> "start_date", dueDate |-> "due_date",
             estimatedEffort |-> "estimated_effort", position |-> "position",
             nextAction |-> "next_action", milestone |-> "milestone", recurrence |-> "recurrence"],
   label |-> [name |-> "name", color |-> "color"],
   note |-> [projectId |-> "project_id", body |-> "body"]]

\* What module Records says of field f.
Shows(given, f, else) ==
  IF f \in DOMAIN given /\ given[f] # Null
  THEN IF f \in Date THEN Day[given[f]] ELSE given[f]
  ELSE else

\* A default in the schema and the COALESCE of the statement agree.
LEMMA CoalesceInput ==
  ASSUME NEW input, NEW given, NEW f \in input.fields, f \notin Date, NEW else,
         f \in DOMAIN input.default => input.default[f] = else
  PROVE  Coalesce(Unmarshal(input, given)[f], else) = Shows(given, f, else)
BY UnmarshalValue DEF Coalesce, Shows

LEMMA CoalesceTime ==
  ASSUME NEW input, NEW given, NEW f \in input.fields \cap Date, NEW else,
         f \notin DOMAIN input.default, f \in DOMAIN given => given[f] \in DOMAIN Day \cup {Null}
  PROVE  Coalesce(nullTime(Unmarshal(input, given)[f]), else) = Shows(given, f, else)
BY UnmarshalValue, DayAssumption DEF Coalesce, Shows, nullTime

LEMMA CoalesceNull ==
  ASSUME NEW a
  PROVE  Coalesce(a, Null) = a
BY DEF Coalesce

\* Every create fills the column of a field with what is given, or with the
\* default of Records.
InsertedShows(k, user, given) ==
  \A f \in DOMAIN Defaults[k] :
    Inserted(k, user, given)[ColumnOf[k][f]] = Shows(given, f, Defaults[k][f])

LEMMA InsertedEpicShows ==
  ASSUME NEW user, NEW call, IsCall(call), call.op = "create", call.kind = "epic"
  PROVE  InsertedShows("epic", user, call.given)
<1> DEFINE given == call.given
           input == Unmarshal(CreateEpicInput, given)
           arg == CreateEpicParams(user, input)
           V(f) == Shows(given, f, Defaults["epic"][f])
<1>1. /\ input.name = V("name") /\ input.description = V("description") /\ input.color = V("color")
      /\ Coalesce(input.position, 0) = V("position")
  <2>1. \A f \in {"name", "description", "color", "position"} :
          f \in CreateEpicInput.fields /\ f \notin DOMAIN CreateEpicInput.default /\ f \notin Date
    BY DEF CreateEpicInput, NoDefault, Date
  <2>2. \A f \in {"name", "description", "color", "position"} :
          Coalesce(input[f], Defaults["epic"][f]) = V(f)
    BY <2>1, CoalesceInput
  <2>3. /\ Defaults["epic"]["name"] = Null /\ Defaults["epic"]["description"] = Null
        /\ Defaults["epic"]["color"] = Null /\ Defaults["epic"]["position"] = 0
    BY DEF Defaults
  <2> HIDE DEF V, input
  <2> QED BY <2>2, <2>3, CoalesceNull
<1>2. /\ arg.Name = input.name /\ arg.Description = input.description
      /\ arg.Color = input.color /\ arg.Position = input.position
  BY DEF CreateEpicParams
<1>3. Inserted("epic", user, given) = createEpic(arg)
  BY DEF Inserted
<1> HIDE DEF input, arg, V
<1>4. \A f \in DOMAIN Defaults["epic"] : createEpic(arg)[ColumnOf["epic"][f]] = V(f)
  BY <1>1, <1>2 DEF createEpic, Defaults, ColumnOf
<1> QED BY <1>3, <1>4 DEF InsertedShows, V

LEMMA InsertedTodoShows ==
  ASSUME NEW user, NEW call, IsCall(call), call.op = "create", call.kind = "todo"
  PROVE  InsertedShows("todo", user, call.given)
<1> DEFINE given == call.given
           input == Unmarshal(CreateTodoInput, given)
           arg == CreateTodoParams(user, input)
           D(f) == Defaults["todo"][f]
           V(f) == Shows(given, f, D(f))
           Times == {"startDate", "dueDate"}
           Plain == {"projectId", "stageId", "title", "description", "estimatedEffort"}
           Filled == {"priority", "status", "position", "milestone", "recurrence"}
<1>1. /\ \A f \in Plain \cup Filled : f \notin Date /\ f \in CreateTodoInput.fields
      /\ \A f \in Times : f \in CreateTodoInput.fields \cap Date /\ f \notin DOMAIN CreateTodoInput.default
      /\ \A f \in (Plain \cup Filled) \cap DOMAIN CreateTodoInput.default : CreateTodoInput.default[f] = D(f)
      /\ \A f \in Plain \cup Times : D(f) = Null
  <2>1. \A f \in Plain \cup Filled : f \notin Date /\ f \in CreateTodoInput.fields
    BY DEF CreateTodoInput, Date
  <2>2. \A f \in Times : f \in CreateTodoInput.fields \cap Date /\ f \notin DOMAIN CreateTodoInput.default
    BY DEF CreateTodoInput, Date
  <2>3. \A f \in DOMAIN CreateTodoInput.default : CreateTodoInput.default[f] = D(f)
    <3>1. PICK default : default = CreateTodoInput.default
      OBVIOUS
    <3>2. /\ DOMAIN default = {"priority", "status", "nextAction", "milestone", "recurrence"}
          /\ default.priority = "NORMAL" /\ default.status = "OPEN" /\ default.nextAction = FALSE
          /\ default.milestone = FALSE /\ default.recurrence = "NONE"
      BY <3>1 DEF CreateTodoInput
    <3>3. /\ D("priority") = "NORMAL" /\ D("status") = "OPEN" /\ D("nextAction") = FALSE
          /\ D("milestone") = FALSE /\ D("recurrence") = "NONE"
      BY DEF Defaults
    <3> HIDE DEF D
    <3> QED BY <3>1, <3>2, <3>3
  <2>4. \A f \in Plain \cup Times : D(f) = Null
    BY DEF Defaults
  <2> QED BY <2>1, <2>2, <2>3, <2>4
<1>2. \A f \in DOMAIN given \cap Date : given[f] \in DOMAIN Day \cup {Null}
  BY DEF IsCall
<1>3. /\ \A f \in Plain \cup Filled : Coalesce(input[f], D(f)) = V(f)
      /\ \A f \in Times : Coalesce(nullTime(input[f]), D(f)) = V(f)
  <2> HIDE DEF D
  <2> QED BY <1>1, <1>2, CoalesceInput, CoalesceTime
<1>4. V("nextAction") = FALSE
  BY DEF IsCall, Shows, Defaults, Date
<1>5. /\ \A f \in Plain : input[f] = V(f)
      /\ \A f \in Times : nullTime(input[f]) = V(f)
  <2> HIDE DEF D, V, input
  <2> QED BY <1>1, <1>3, CoalesceNull
<1>6. /\ Coalesce(input.priority, "NORMAL") = V("priority") /\ Coalesce(input.status, "OPEN") = V("status")
      /\ Coalesce(input.position, 0) = V("position") /\ Coalesce(input.milestone, FALSE) = V("milestone")
      /\ Coalesce(input.recurrence, "NONE") = V("recurrence")
  <2>1. /\ D("priority") = "NORMAL" /\ D("status") = "OPEN" /\ D("position") = 0
        /\ D("milestone") = FALSE /\ D("recurrence") = "NONE"
    BY DEF Defaults
  <2> HIDE DEF D, V, input
  <2> QED BY <1>3, <2>1
<1>7. /\ arg.ProjectID = input.projectId /\ arg.StageID = input.stageId /\ arg.Title = input.title
      /\ arg.Description = input.description /\ arg.Priority = input.priority
      /\ arg.Status = input.status /\ arg.StartDate = nullTime(input.startDate)
      /\ arg.DueDate = nullTime(input.dueDate) /\ arg.EstimatedEffort = input.estimatedEffort
      /\ arg.Position = input.position /\ arg.NextAction = FALSE
      /\ arg.Milestone = input.milestone /\ arg.Recurrence = input.recurrence
  BY DEF CreateTodoParams
<1>8. Inserted("todo", user, given) = createTodo(arg)
  BY DEF Inserted
<1> HIDE DEF input, arg, V
<1>9. Coalesce(arg.NextAction, FALSE) = FALSE
  BY <1>7 DEF Coalesce
<1>10. PICK row : row = createTodo(arg)
  OBVIOUS
<1>11. /\ row.project_id = V("projectId") /\ row.stage_id = V("stageId") /\ row.title = V("title")
       /\ row.description = V("description") /\ row.priority = V("priority") /\ row.status = V("status")
       /\ row.start_date = V("startDate") /\ row.due_date = V("dueDate") /\ row.estimated_effort = V("estimatedEffort")
       /\ row.position = V("position") /\ row.next_action = V("nextAction") /\ row.milestone = V("milestone")
       /\ row.recurrence = V("recurrence")
  BY <1>4, <1>5, <1>6, <1>7, <1>9, <1>10 DEF createTodo
<1>12. \A f \in DOMAIN Defaults["todo"] : row[ColumnOf["todo"][f]] = V(f)
  BY <1>11 DEF Defaults, ColumnOf
<1> QED BY <1>8, <1>10, <1>12 DEF InsertedShows, V

LEMMA InsertedProjectShows ==
  ASSUME NEW user, NEW call, IsCall(call), call.op = "create", call.kind = "project"
  PROVE  InsertedShows("project", user, call.given)
<1> DEFINE given == call.given
           input == Unmarshal(CreateProjectInput, given)
           arg == CreateProjectParams(user, input)
           D(f) == Defaults["project"][f]
           V(f) == Shows(given, f, D(f))
           Times == {"startDate", "targetDate"}
           Plain == {"epicId", "name", "description"}
           Filled == {"status", "position"}
<1>1. /\ \A f \in Plain \cup Filled : f \notin Date /\ f \in CreateProjectInput.fields
      /\ \A f \in Times : f \in CreateProjectInput.fields \cap Date /\ f \notin DOMAIN CreateProjectInput.default
      /\ \A f \in (Plain \cup Filled) \cap DOMAIN CreateProjectInput.default : CreateProjectInput.default[f] = D(f)
      /\ \A f \in Plain \cup Times : D(f) = Null
  BY DEF CreateProjectInput, Date, Defaults
<1>2. \A f \in DOMAIN given \cap Date : given[f] \in DOMAIN Day \cup {Null}
  BY DEF IsCall
<1>3. /\ \A f \in Plain \cup Filled : Coalesce(input[f], D(f)) = V(f)
      /\ \A f \in Times : Coalesce(nullTime(input[f]), D(f)) = V(f)
  <2> HIDE DEF D
  <2> QED BY <1>1, <1>2, CoalesceInput, CoalesceTime
<1>4. /\ \A f \in Plain : input[f] = V(f)
      /\ \A f \in Times : nullTime(input[f]) = V(f)
  <2> HIDE DEF D, V, input
  <2> QED BY <1>1, <1>3, CoalesceNull
<1>5. Coalesce(input.status, "ACTIVE") = V("status") /\ Coalesce(input.position, 0) = V("position")
  <2>1. D("status") = "ACTIVE" /\ D("position") = 0
    BY DEF Defaults
  <2> HIDE DEF D, V, input
  <2> QED BY <1>3, <2>1
<1>6. /\ arg.EpicID = input.epicId /\ arg.Name = input.name /\ arg.Description = input.description
      /\ arg.Status = input.status /\ arg.StartDate = nullTime(input.startDate)
      /\ arg.TargetDate = nullTime(input.targetDate) /\ arg.Position = input.position
  BY DEF CreateProjectParams
<1>7. Inserted("project", user, given) = createProject(arg)
  BY DEF Inserted
<1> HIDE DEF input, arg, V
<1>8. \A f \in DOMAIN Defaults["project"] : createProject(arg)[ColumnOf["project"][f]] = V(f)
  BY <1>4, <1>5, <1>6 DEF createProject, Defaults, ColumnOf
<1> QED BY <1>7, <1>8 DEF InsertedShows, V

LEMMA InsertedStageShows ==
  ASSUME NEW user, NEW call, IsCall(call), call.op = "create", call.kind = "stage"
  PROVE  InsertedShows("stage", user, call.given)
<1> DEFINE given == call.given
           input == Unmarshal(CreateStageInput, given)
           arg == CreateStageParams(user, input)
           D(f) == Defaults["stage"][f]
           V(f) == Shows(given, f, D(f))
           Times == {"startDate", "targetDate"}
           Plain == {"projectId", "name", "description"}
           Filled == {"status", "position"}
<1>1. /\ \A f \in Plain \cup Filled : f \notin Date /\ f \in CreateStageInput.fields
      /\ \A f \in Times : f \in CreateStageInput.fields \cap Date /\ f \notin DOMAIN CreateStageInput.default
      /\ \A f \in (Plain \cup Filled) \cap DOMAIN CreateStageInput.default : CreateStageInput.default[f] = D(f)
      /\ \A f \in Plain \cup Times : D(f) = Null
  BY DEF CreateStageInput, Date, Defaults
<1>2. \A f \in DOMAIN given \cap Date : given[f] \in DOMAIN Day \cup {Null}
  BY DEF IsCall
<1>3. /\ \A f \in Plain \cup Filled : Coalesce(input[f], D(f)) = V(f)
      /\ \A f \in Times : Coalesce(nullTime(input[f]), D(f)) = V(f)
  <2> HIDE DEF D
  <2> QED BY <1>1, <1>2, CoalesceInput, CoalesceTime
<1>4. /\ \A f \in Plain : input[f] = V(f)
      /\ \A f \in Times : nullTime(input[f]) = V(f)
  <2> HIDE DEF D, V, input
  <2> QED BY <1>1, <1>3, CoalesceNull
<1>5. Coalesce(input.status, "PLANNED") = V("status") /\ Coalesce(input.position, 0) = V("position")
  <2>1. D("status") = "PLANNED" /\ D("position") = 0
    BY DEF Defaults
  <2> HIDE DEF D, V, input
  <2> QED BY <1>3, <2>1
<1>6. /\ arg.ProjectID = input.projectId /\ arg.Name = input.name /\ arg.Description = input.description
      /\ arg.Status = input.status /\ arg.StartDate = nullTime(input.startDate)
      /\ arg.TargetDate = nullTime(input.targetDate) /\ arg.Position = input.position
  BY DEF CreateStageParams
<1>7. Inserted("stage", user, given) = createStage(arg)
  BY DEF Inserted
<1> HIDE DEF input, arg, V
<1>8. \A f \in DOMAIN Defaults["stage"] : createStage(arg)[ColumnOf["stage"][f]] = V(f)
  BY <1>4, <1>5, <1>6 DEF createStage, Defaults, ColumnOf
<1> QED BY <1>7, <1>8 DEF InsertedShows, V

LEMMA InsertedLabelShows ==
  ASSUME NEW user, NEW call, IsCall(call), call.op = "create", call.kind = "label"
  PROVE  InsertedShows("label", user, call.given)
<1> DEFINE given == call.given
           input == Unmarshal(CreateLabelInput, given)
           arg == CreateLabelParams(user, input)
           V(f) == Shows(given, f, Null)
<1>1. \A f \in {"name", "color"} : input[f] = V(f)
  <2>1. \A f \in {"name", "color"} :
          f \in CreateLabelInput.fields /\ f \notin DOMAIN CreateLabelInput.default /\ f \notin Date
    BY DEF CreateLabelInput, NoDefault, Date
  <2> QED BY <2>1, CoalesceInput, CoalesceNull
<1>2. arg.Name = input.name /\ arg.Color = input.color
  BY DEF CreateLabelParams
<1>3. Inserted("label", user, given) = createLabel(arg)
  BY DEF Inserted
<1> HIDE DEF input, arg
<1>4. \A f \in DOMAIN Defaults["label"] :
        Defaults["label"][f] = Null /\ createLabel(arg)[ColumnOf["label"][f]] = V(f)
  BY <1>1, <1>2 DEF createLabel, Defaults, ColumnOf
<1> QED BY <1>3, <1>4 DEF InsertedShows

LEMMA InsertedNoteShows ==
  ASSUME NEW user, NEW call, IsCall(call), call.op = "create", call.kind = "note"
  PROVE  InsertedShows("note", user, call.given)
<1> DEFINE given == call.given
           input == Unmarshal(CreateProjectNoteInput, given)
           arg == CreateProjectNoteParams(user, input)
           V(f) == Shows(given, f, Null)
<1>1. \A f \in {"projectId", "body"} : input[f] = V(f)
  <2>1. \A f \in {"projectId", "body"} :
          f \in CreateProjectNoteInput.fields /\ f \notin DOMAIN CreateProjectNoteInput.default /\ f \notin Date
    BY DEF CreateProjectNoteInput, NoDefault, Date
  <2> QED BY <2>1, CoalesceInput, CoalesceNull
<1>2. arg.ProjectID = input.projectId /\ arg.Body = input.body
  BY DEF CreateProjectNoteParams
<1>3. Inserted("note", user, given) = createProjectNote(arg)
  BY DEF Inserted
<1> HIDE DEF input, arg
<1>4. \A f \in DOMAIN Defaults["note"] :
        Defaults["note"][f] = Null /\ createProjectNote(arg)[ColumnOf["note"][f]] = V(f)
  BY <1>1, <1>2 DEF createProjectNote, Defaults, ColumnOf
<1> QED BY <1>3, <1>4 DEF InsertedShows

\* Every update writes the columns of the fields it names, and keeps the
\* others.
UpdatedShows(k, row, given) ==
  \A f \in DOMAIN Defaults[k] :
    Updated(k, row, given)[ColumnOf[k][f]] = Shows(given, f, row[ColumnOf[k][f]])

LEMMA UpdatedEpicShows ==
  ASSUME NEW call, IsCall(call), call.op = "update", call.kind = "epic", NEW row, RowOK("epic", row)
  PROVE  UpdatedShows("epic", row, call.given)
<1> DEFINE given == call.given
           input == Unmarshal(UpdateEpicInput, given)
           arg == UpdateEpicParams(input)
           V(f, c) == Shows(given, f, row[c])
           Plain == {"name", "description", "color", "position"}
<1>1. \A f \in Plain : f \in UpdateEpicInput.fields /\ f \notin DOMAIN UpdateEpicInput.default /\ f \notin Date
  BY DEF UpdateEpicInput, NoDefault, Date
<1>2. \A f \in Plain : \A c : Coalesce(input[f], row[c]) = V(f, c)
  BY <1>1, CoalesceInput
<1>3. /\ arg.Name = input.name /\ arg.Description = input.description
      /\ arg.Color = input.color /\ arg.Position = input.position
  BY DEF UpdateEpicParams
<1>4. Updated("epic", row, given) = updateEpic(arg, row)
  BY DEF Updated
<1> HIDE DEF input, arg, V
<1>5. DOMAIN row = Column["epic"]
  BY DEF RowOK
<1>6. PICK new : new = updateEpic(arg, row)
  OBVIOUS
<1>7. /\ new.name = V("name", "name") /\ new.description = V("description", "description")
      /\ new.color = V("color", "color") /\ new.position = V("position", "position")
  BY <1>2, <1>3, <1>5, <1>6 DEF updateEpic, Column
<1>8. \A f \in DOMAIN Defaults["epic"] : new[ColumnOf["epic"][f]] = V(f, ColumnOf["epic"][f])
  BY <1>7 DEF Defaults, ColumnOf
<1> QED BY <1>4, <1>6, <1>8 DEF UpdatedShows, V

LEMMA UpdatedProjectShows ==
  ASSUME NEW call, IsCall(call), call.op = "update", call.kind = "project", NEW row, RowOK("project", row)
  PROVE  UpdatedShows("project", row, call.given)
<1> DEFINE given == call.given
           input == Unmarshal(UpdateProjectInput, given)
           arg == UpdateProjectParams(input)
           V(f, c) == Shows(given, f, row[c])
           Times == {"startDate", "targetDate"}
           Plain == {"epicId", "name", "description", "status", "position"}
<1>1. /\ \A f \in Plain : f \in UpdateProjectInput.fields /\ f \notin Date
      /\ \A f \in Times : f \in UpdateProjectInput.fields \cap Date
      /\ \A f \in Plain \cup Times : f \notin DOMAIN UpdateProjectInput.default
  BY DEF UpdateProjectInput, NoDefault, Date
<1>2. \A f \in DOMAIN given \cap Date : given[f] \in DOMAIN Day \cup {Null}
  BY DEF IsCall
<1>3. /\ \A f \in Plain : \A c : Coalesce(input[f], row[c]) = V(f, c)
      /\ \A f \in Times : \A c : Coalesce(nullTime(input[f]), row[c]) = V(f, c)
  BY <1>1, <1>2, CoalesceInput, CoalesceTime
<1>4. /\ arg.EpicID = input.epicId /\ arg.Name = input.name /\ arg.Description = input.description
      /\ arg.Status = input.status /\ arg.StartDate = nullTime(input.startDate)
      /\ arg.TargetDate = nullTime(input.targetDate) /\ arg.Position = input.position
  BY DEF UpdateProjectParams
<1>5. Updated("project", row, given) = updateProject(arg, row)
  BY DEF Updated
<1> HIDE DEF input, arg, V
<1>6. DOMAIN row = Column["project"]
  BY DEF RowOK
<1>7. PICK new : new = updateProject(arg, row)
  OBVIOUS
<1>8. /\ new.epic_id = V("epicId", "epic_id") /\ new.name = V("name", "name")
      /\ new.description = V("description", "description") /\ new.status = V("status", "status")
      /\ new.start_date = V("startDate", "start_date") /\ new.target_date = V("targetDate", "target_date")
      /\ new.position = V("position", "position")
  BY <1>3, <1>4, <1>6, <1>7 DEF updateProject, Column
<1>9. \A f \in DOMAIN Defaults["project"] : new[ColumnOf["project"][f]] = V(f, ColumnOf["project"][f])
  BY <1>8 DEF Defaults, ColumnOf
<1> QED BY <1>5, <1>7, <1>9 DEF UpdatedShows, V

LEMMA UpdatedStageShows ==
  ASSUME NEW call, IsCall(call), call.op = "update", call.kind = "stage", NEW row, RowOK("stage", row)
  PROVE  UpdatedShows("stage", row, call.given)
<1> DEFINE given == call.given
           input == Unmarshal(UpdateStageInput, given)
           arg == UpdateStageParams(input)
           V(f, c) == Shows(given, f, row[c])
           Times == {"startDate", "targetDate"}
           Plain == {"name", "description", "status", "position"}
<1>1. /\ \A f \in Plain : f \in UpdateStageInput.fields /\ f \notin Date
      /\ \A f \in Times : f \in UpdateStageInput.fields \cap Date
      /\ \A f \in Plain \cup Times : f \notin DOMAIN UpdateStageInput.default
  BY DEF UpdateStageInput, NoDefault, Date
<1>2. \A f \in DOMAIN given \cap Date : given[f] \in DOMAIN Day \cup {Null}
  BY DEF IsCall
<1>3. /\ \A f \in Plain : \A c : Coalesce(input[f], row[c]) = V(f, c)
      /\ \A f \in Times : \A c : Coalesce(nullTime(input[f]), row[c]) = V(f, c)
  BY <1>1, <1>2, CoalesceInput, CoalesceTime
<1>4. /\ arg.Name = input.name /\ arg.Description = input.description
      /\ arg.Status = input.status /\ arg.StartDate = nullTime(input.startDate)
      /\ arg.TargetDate = nullTime(input.targetDate) /\ arg.Position = input.position
  BY DEF UpdateStageParams
\* No stage moves to another project.
<1>5. \A c : V("projectId", c) = row[c]
  <2>1. "projectId" \notin DOMAIN given
    BY DEF IsCall, Input, UpdateStageInput
  <2> QED BY <2>1 DEF Shows
<1>6. Updated("stage", row, given) = updateStage(arg, row)
  BY DEF Updated
<1> HIDE DEF input, arg, V
<1>7. DOMAIN row = Column["stage"]
  BY DEF RowOK
<1>8. PICK new : new = updateStage(arg, row)
  OBVIOUS
<1>9. /\ new.project_id = V("projectId", "project_id") /\ new.name = V("name", "name")
      /\ new.description = V("description", "description") /\ new.status = V("status", "status")
      /\ new.start_date = V("startDate", "start_date") /\ new.target_date = V("targetDate", "target_date")
      /\ new.position = V("position", "position")
  BY <1>3, <1>4, <1>5, <1>7, <1>8 DEF updateStage, Column
<1>10. \A f \in DOMAIN Defaults["stage"] : new[ColumnOf["stage"][f]] = V(f, ColumnOf["stage"][f])
  BY <1>9 DEF Defaults, ColumnOf
<1> QED BY <1>6, <1>8, <1>10 DEF UpdatedShows, V

LEMMA UpdatedTodoShows ==
  ASSUME NEW call, IsCall(call), call.op = "update", call.kind = "todo", NEW row, RowOK("todo", row)
  PROVE  UpdatedShows("todo", row, call.given)
<1> DEFINE given == call.given
           input == Unmarshal(UpdateTodoInput, given)
           arg == UpdateTodoParams(input)
           V(f, c) == Shows(given, f, row[c])
           Times == {"startDate", "dueDate"}
           Plain == {"projectId", "stageId", "title", "description", "priority", "status",
                     "estimatedEffort", "position", "nextAction", "milestone", "recurrence"}
<1>1. /\ \A f \in Plain : f \in UpdateTodoInput.fields /\ f \notin Date
      /\ \A f \in Times : f \in UpdateTodoInput.fields \cap Date
      /\ \A f \in Plain \cup Times : f \notin DOMAIN UpdateTodoInput.default
  BY DEF UpdateTodoInput, NoDefault, Date
<1>2. \A f \in DOMAIN given \cap Date : given[f] \in DOMAIN Day \cup {Null}
  BY DEF IsCall
<1>3. /\ \A f \in Plain : \A c : Coalesce(input[f], row[c]) = V(f, c)
      /\ \A f \in Times : \A c : Coalesce(nullTime(input[f]), row[c]) = V(f, c)
  BY <1>1, <1>2, CoalesceInput, CoalesceTime
<1>4. /\ arg.ProjectID = input.projectId /\ arg.StageID = input.stageId /\ arg.Title = input.title
      /\ arg.Description = input.description /\ arg.Priority = input.priority
      /\ arg.Status = input.status /\ arg.StartDate = nullTime(input.startDate)
      /\ arg.DueDate = nullTime(input.dueDate) /\ arg.EstimatedEffort = input.estimatedEffort
      /\ arg.Position = input.position /\ arg.NextAction = input.nextAction
      /\ arg.Milestone = input.milestone /\ arg.Recurrence = input.recurrence
  BY DEF UpdateTodoParams
<1>5. Updated("todo", row, given) = updateTodo(arg, row)
  BY DEF Updated
<1> HIDE DEF input, arg, V
<1>6. DOMAIN row = Column["todo"]
  BY DEF RowOK
<1>7. PICK new : new = updateTodo(arg, row)
  OBVIOUS
<1>8. /\ new.project_id = V("projectId", "project_id") /\ new.stage_id = V("stageId", "stage_id")
      /\ new.title = V("title", "title") /\ new.description = V("description", "description")
      /\ new.priority = V("priority", "priority") /\ new.status = V("status", "status")
      /\ new.start_date = V("startDate", "start_date") /\ new.due_date = V("dueDate", "due_date")
      /\ new.estimated_effort = V("estimatedEffort", "estimated_effort") /\ new.position = V("position", "position")
      /\ new.next_action = V("nextAction", "next_action") /\ new.milestone = V("milestone", "milestone")
      /\ new.recurrence = V("recurrence", "recurrence")
  BY <1>3, <1>4, <1>6, <1>7 DEF updateTodo, Column
<1>9. \A f \in DOMAIN Defaults["todo"] : new[ColumnOf["todo"][f]] = V(f, ColumnOf["todo"][f])
  BY <1>8 DEF Defaults, ColumnOf
<1> QED BY <1>5, <1>7, <1>9 DEF UpdatedShows, V

LEMMA UpdatedLabelShows ==
  ASSUME NEW call, IsCall(call), call.op = "update", call.kind = "label", NEW row, RowOK("label", row)
  PROVE  UpdatedShows("label", row, call.given)
<1> DEFINE given == call.given
           input == Unmarshal(UpdateLabelInput, given)
           arg == UpdateLabelParams(input)
           V(f, c) == Shows(given, f, row[c])
<1>1. \A f \in {"name", "color"} :
        f \in UpdateLabelInput.fields /\ f \notin DOMAIN UpdateLabelInput.default /\ f \notin Date
  BY DEF UpdateLabelInput, NoDefault, Date
<1>2. \A f \in {"name", "color"} : \A c : Coalesce(input[f], row[c]) = V(f, c)
  BY <1>1, CoalesceInput
<1>3. arg.Name = input.name /\ arg.Color = input.color
  BY DEF UpdateLabelParams
<1>4. Updated("label", row, given) = updateLabel(arg, row)
  BY DEF Updated
<1> HIDE DEF input, arg, V
<1>5. DOMAIN row = Column["label"]
  BY DEF RowOK
<1>6. PICK new : new = updateLabel(arg, row)
  OBVIOUS
<1>7. /\ new.name = V("name", "name") /\ new.color = V("color", "color")
  BY <1>2, <1>3, <1>5, <1>6 DEF updateLabel, Column
<1>8. \A f \in DOMAIN Defaults["label"] : new[ColumnOf["label"][f]] = V(f, ColumnOf["label"][f])
  BY <1>7 DEF Defaults, ColumnOf
<1> QED BY <1>4, <1>6, <1>8 DEF UpdatedShows, V

LEMMA UpdatedNoteShows ==
  ASSUME NEW call, IsCall(call), call.op = "update", call.kind = "note", NEW row, RowOK("note", row)
  PROVE  UpdatedShows("note", row, call.given)
<1> DEFINE given == call.given
           input == Unmarshal(UpdateProjectNoteInput, given)
           arg == UpdateProjectNoteParams(input)
           V(f, c) == Shows(given, f, row[c])
<1>1. "body" \in UpdateProjectNoteInput.fields /\ "body" \notin DOMAIN UpdateProjectNoteInput.default
        /\ "body" \notin Date
  BY DEF UpdateProjectNoteInput, NoDefault, Date
<1>2. \A c : Coalesce(input["body"], row[c]) = V("body", c)
  BY <1>1, CoalesceInput
<1>3. arg.Body = input.body
  BY DEF UpdateProjectNoteParams
\* No note moves to another project.
<1>4. \A c : V("projectId", c) = row[c]
  <2>1. "projectId" \notin DOMAIN given
    BY DEF IsCall, Input, UpdateProjectNoteInput
  <2> QED BY <2>1 DEF Shows
<1>5. Updated("note", row, given) = updateProjectNote(arg, row)
  BY DEF Updated
<1> HIDE DEF input, arg, V
<1>6. DOMAIN row = Column["note"]
  BY DEF RowOK
<1>7. PICK new : new = updateProjectNote(arg, row)
  OBVIOUS
<1>8. /\ new.project_id = V("projectId", "project_id") /\ new.body = V("body", "body")
  BY <1>2, <1>3, <1>4, <1>6, <1>7 DEF updateProjectNote, Column
<1>9. \A f \in DOMAIN Defaults["note"] : new[ColumnOf["note"][f]] = V(f, ColumnOf["note"][f])
  BY <1>8 DEF Defaults, ColumnOf
<1> QED BY <1>5, <1>7, <1>9 DEF UpdatedShows, V

\* All kinds together.
LEMMA InsertedFields ==
  ASSUME NEW user, NEW call, IsCall(call), call.op = "create"
  PROVE  InsertedShows(call.kind, user, call.given)
<1>1. call.kind \in Kind
  BY DEF IsCall
<1> QED BY <1>1, InsertedEpicShows, InsertedProjectShows, InsertedStageShows, InsertedTodoShows,
           InsertedLabelShows, InsertedNoteShows DEF Kind

LEMMA UpdatedFields ==
  ASSUME NEW call, IsCall(call), call.op = "update", NEW row, RowOK(call.kind, row)
  PROVE  UpdatedShows(call.kind, row, call.given)
<1>1. call.kind \in Kind
  BY DEF IsCall
<1> QED BY <1>1, UpdatedEpicShows, UpdatedProjectShows, UpdatedStageShows, UpdatedTodoShows,
           UpdatedLabelShows, UpdatedNoteShows DEF Kind

\* The object of a row.
ShownBy(k, id, row) == Restrict(Object(k, id, row, {}), DOMAIN Defaults[k])

LEMMA ShownFields ==
  ASSUME NEW k \in Kind, NEW id, NEW row, RowOK(k, row), id # Null
  PROVE  ShownBy(k, id, row) = [f \in DOMAIN Defaults[k] |-> row[ColumnOf[k][f]]]
<1>1. \A c \in NotNullColumn[k] : row[c] # Null
  BY DEF RowOK
<1>2. \A o : Object(k, id, row, {}) = o /\ (\A f \in DOMAIN Defaults[k] : o[f] = row[ColumnOf[k][f]])
        => ShownBy(k, id, row) = [f \in DOMAIN Defaults[k] |-> row[ColumnOf[k][f]]]
  BY DEF ShownBy, Restrict
<1>3. CASE k = "epic"
  <2>1. PICK o : o = toEpic(id, row)
    OBVIOUS
  <2>2. \A f \in NonNullEpic : o[f] # Null
    BY <1>1, <1>3, <2>1 DEF NotNullColumn, toEpic, NonNullEpic
  <2>3. Object(k, id, row, {}) = o
    BY <1>3, <2>1, <2>2 DEF Object, Epic, NonNull
  <2>4. \A f \in DOMAIN Defaults[k] : o[f] = row[ColumnOf[k][f]]
    BY <1>3, <2>1 DEF toEpic, Defaults, ColumnOf
  <2> QED BY <1>2, <2>3, <2>4
<1>4. CASE k = "project"
  <2>1. PICK o : o = toProject(id, row)
    OBVIOUS
  <2>2. \A f \in NonNullProject : o[f] # Null
    BY <1>1, <1>4, <2>1 DEF NotNullColumn, toProject, NonNullProject
  <2>3. Object(k, id, row, {}) = o
    BY <1>4, <2>1, <2>2 DEF Object, Project, NonNull
  <2>4. \A f \in DOMAIN Defaults[k] : o[f] = row[ColumnOf[k][f]]
    BY <1>4, <2>1 DEF toProject, Defaults, ColumnOf
  <2> QED BY <1>2, <2>3, <2>4
<1>5. CASE k = "stage"
  <2>1. PICK o : o = toStage(id, row)
    OBVIOUS
  <2>2. \A f \in NonNullStage : o[f] # Null
    BY <1>1, <1>5, <2>1 DEF NotNullColumn, toStage, NonNullStage
  <2>3. Object(k, id, row, {}) = o
    BY <1>5, <2>1, <2>2 DEF Object, Stage, NonNull
  <2>4. \A f \in DOMAIN Defaults[k] : o[f] = row[ColumnOf[k][f]]
    BY <1>5, <2>1 DEF toStage, Defaults, ColumnOf
  <2> QED BY <1>2, <2>3, <2>4
<1>6. CASE k = "todo"
  <2>1. PICK o : o = toTodo(id, row, {})
    OBVIOUS
  <2>2. \A f \in NonNullTodo : o[f] # Null
    BY <1>1, <1>6, <2>1, NullAssumption DEF NotNullColumn, toTodo, NonNullTodo
  <2>3. Object(k, id, row, {}) = o
    BY <1>6, <2>1, <2>2 DEF Object, Todo, NonNull
  <2>4. \A f \in DOMAIN Defaults[k] : o[f] = row[ColumnOf[k][f]]
    BY <1>6, <2>1 DEF toTodo, Defaults, ColumnOf
  <2> QED BY <1>2, <2>3, <2>4
<1>7. CASE k = "label"
  <2>1. PICK o : o = toLabel(id, row)
    OBVIOUS
  <2>2. \A f \in NonNullLabel : o[f] # Null
    BY <1>1, <1>7, <2>1 DEF NotNullColumn, toLabel, NonNullLabel
  <2>3. Object(k, id, row, {}) = o
    BY <1>7, <2>1, <2>2 DEF Object, Label, NonNull
  <2>4. \A f \in DOMAIN Defaults[k] : o[f] = row[ColumnOf[k][f]]
    BY <1>7, <2>1 DEF toLabel, Defaults, ColumnOf
  <2> QED BY <1>2, <2>3, <2>4
<1>8. CASE k = "note"
  <2>1. PICK o : o = toProjectNote(id, row)
    OBVIOUS
  <2>2. \A f \in NonNullProjectNote : o[f] # Null
    BY <1>1, <1>8, <2>1 DEF NotNullColumn, toProjectNote, NonNullProjectNote
  <2>3. Object(k, id, row, {}) = o
    BY <1>8, <2>1, <2>2 DEF Object, ProjectNote, NonNull
  <2>4. \A f \in DOMAIN Defaults[k] : o[f] = row[ColumnOf[k][f]]
    BY <1>8, <2>1 DEF toProjectNote, Defaults, ColumnOf
  <2> QED BY <1>2, <2>3, <2>4
<1> QED BY <1>3, <1>4, <1>5, <1>6, <1>7, <1>8 DEF Kind

\* What a row shows that has just been inserted, or updated.
LEMMA InsertedObject ==
  ASSUME NEW user \in User, NEW call, IsCall(call), call.op = "create", NEW id, id # Null
  PROVE  ShownBy(call.kind, id, Inserted(call.kind, user, call.given)) =
           [f \in DOMAIN Defaults[call.kind] |-> Shows(call.given, f, Defaults[call.kind][f])]
<1>1. PICK k, given, row :
        k = call.kind /\ given = call.given /\ row = Inserted(call.kind, user, call.given)
  OBVIOUS
<1>2. k \in Kind /\ RowOK(k, row)
  BY <1>1, InsertedRow
<1>3. \A f \in DOMAIN Defaults[k] : row[ColumnOf[k][f]] = Shows(given, f, Defaults[k][f])
  BY <1>1, InsertedFields DEF InsertedShows
<1>4. ShownBy(k, id, row) = [f \in DOMAIN Defaults[k] |-> row[ColumnOf[k][f]]]
  BY <1>2, ShownFields
<1> QED BY <1>1, <1>3, <1>4

LEMMA UpdatedObject ==
  ASSUME NEW call, IsCall(call), call.op = "update", NEW old, RowOK(call.kind, old), NEW id, id # Null,
         RowOK(call.kind, Updated(call.kind, old, call.given))
  PROVE  ShownBy(call.kind, id, Updated(call.kind, old, call.given)) =
           [f \in DOMAIN Defaults[call.kind] |->
             Shows(call.given, f, ShownBy(call.kind, id, old)[f])]
<1>1. PICK k, given, row :
        k = call.kind /\ given = call.given /\ row = Updated(call.kind, old, call.given)
  OBVIOUS
<1>2. k \in Kind /\ RowOK(k, row) /\ RowOK(k, old)
  BY <1>1 DEF IsCall
<1>3. \A f \in DOMAIN Defaults[k] : row[ColumnOf[k][f]] = Shows(given, f, old[ColumnOf[k][f]])
  BY <1>1, UpdatedFields DEF UpdatedShows
<1>4. /\ ShownBy(k, id, row) = [f \in DOMAIN Defaults[k] |-> row[ColumnOf[k][f]]]
      /\ ShownBy(k, id, old) = [f \in DOMAIN Defaults[k] |-> old[ColumnOf[k][f]]]
  BY <1>2, ShownFields
<1> QED BY <1>1, <1>3, <1>4

-----------------------------------------------------------------------------
(* The steps of module Records.                                            *)

\* shown of module Records, as Promise has it.
Objects == [k \in Kind |-> [id \in DOMAIN tables[k] |-> Shown(k, id)]]

LEMMA ObjectsOf ==
  /\ \A k \in Kind : Objects[k] = [id \in DOMAIN tables[k] |-> ShownBy(k, id, tables[k][id])]
  /\ \A k \in Kind : Objects'[k] = [id \in DOMAIN tables'[k] |-> ShownBy(k, id, tables'[k][id])]
BY DEF Objects, Shown, ShownBy

LEMMA ObjectFacts ==
  ASSUME NEW k \in Kind, NEW id \in DOMAIN tables[k]
  PROVE  Objects[k][id] = ShownBy(k, id, tables[k][id])
BY DEF Objects, Shown, ShownBy

LEMMA ObjectsKept ==
  ASSUME NEW k \in Kind, tables'[k] = tables[k]
  PROVE  Objects'[k] = Objects[k]
<1>1. PICK rows : rows = tables[k]
  OBVIOUS
<1>2. /\ Objects[k] = [id \in DOMAIN rows |-> ShownBy(k, id, rows[id])]
      /\ Objects'[k] = [id \in DOMAIN rows |-> ShownBy(k, id, rows[id])]
  BY <1>1, ObjectsOf
<1> QED BY <1>2

LEMMA CreateForm ==
  ASSUME NEW k \in Kind, NEW id, NEW input, id \notin DOMAIN Objects[k],
         Objects'[k] = [i \in DOMAIN Objects[k] \cup {id} |->
           IF i # id THEN Objects[k][i]
           ELSE [f \in DOMAIN Defaults[k] |-> Shows(input, f, Defaults[k][f])]],
         UNCHANGED todo_labels
  PROVE  Promise!Create(k, id, input)
<1>1. [f \in DOMAIN Defaults[k] |-> Shows(input, f, Defaults[k][f])] =
        [f \in DOMAIN Defaults[k] |->
          IF Promise!Named(input, f) THEN Promise!Value(f, input[f]) ELSE Defaults[k][f]]
  BY DEF Shows, Promise!Named, Promise!Value
<1> QED BY <1>1 DEF Promise!Create, Objects

LEMMA UpdateForm ==
  ASSUME NEW k \in Kind, NEW id \in DOMAIN Objects[k], NEW input,
         Objects'[k] = [Objects[k] EXCEPT ![id] =
           [f \in DOMAIN Defaults[k] |-> Shows(input, f, Objects[k][id][f])]],
         UNCHANGED todo_labels
  PROVE  Promise!Update(k, id, input)
<1>1. [f \in DOMAIN Defaults[k] |-> Shows(input, f, Objects[k][id][f])] =
        [f \in DOMAIN Defaults[k] |->
          IF Promise!Named(input, f) THEN Promise!Value(f, input[f]) ELSE Objects[k][id][f]]
  BY DEF Shows, Promise!Named, Promise!Value
<1> QED BY <1>1 DEF Promise!Update, Objects

LEMMA RemoveForm ==
  ASSUME NEW k \in Kind, NEW id,
         Objects'[k] = [i \in DOMAIN Objects[k] \ {id} |-> Objects[k][i]],
         todo_labels' = {p \in todo_labels : ~(k = "todo" /\ p[1] = id) /\ ~(k = "label" /\ p[2] = id)}
  PROVE  Promise!Remove(k, id)
BY DEF Promise!Remove, Objects, Restrict, Promise!Restrict

LEMMA NextForm ==
  ASSUME NEW k \in Kind, Objects'[k] # Objects[k], \A j \in Kind \ {k} : Objects'[j] = Objects[j],
         \/ \E id \in Id, input \in Inputs("create")[k] : Promise!Create(k, id, input)
         \/ \E id \in DOMAIN Objects[k] :
              (\E input \in Inputs("update")[k] : Promise!Update(k, id, input)) \/ Promise!Remove(k, id)
  PROVE  Promise!Next
<1>1. Promise!Changes(k)
  BY DEF Promise!Changes, Objects
<1> QED BY <1>1 DEF Promise!Next, Objects

\* The input of a call under way is one of those of Records.
LEMMA CallInputs ==
  ASSUME RequestsOK, NEW r \in DOMAIN requests, NEW i \in DOMAIN requests[r].fields, Call(r, i).kind \in Kind
  PROVE  Call(r, i).given \in Inputs(Call(r, i).op)[Call(r, i).kind]
<1>1. PICK w \in Workloads : requests[r].operation \in w
  BY DEF RequestsOK, RequestOK
<1>2. DOMAIN requests[r].fields = DOMAIN requests[r].operation.calls
  BY DEF RequestsOK, RequestOK
<1>3. PICK call : call = Call(r, i)
  OBVIOUS
<1>4. call \in {requests[r].operation.calls[j] : j \in DOMAIN requests[r].operation.calls}
  BY <1>2, <1>3 DEF Call
<1>5. call \in Calls
  BY <1>1, <1>4 DEF Calls
<1>6. call.given \in {c.given : c \in {c \in Calls : c.op = call.op /\ c.kind = call.kind}}
  BY <1>5
<1> QED BY <1>3, <1>6 DEF Inputs

\* The statement of a create or an update changes one object.
LEMMA WrittenObjects ==
  ASSUME RowsOK, NEW k \in Kind, NEW id, NEW row, tables' = [tables EXCEPT ![k] = With(@, id, row)]
  PROVE  /\ DOMAIN Objects[k] = DOMAIN tables[k]
         /\ Objects'[k] = [i \in DOMAIN Objects[k] \cup {id} |->
              IF i # id THEN Objects[k][i] ELSE ShownBy(k, id, row)]
         /\ \A j \in Kind \ {k} : Objects'[j] = Objects[j]
<1>1. tables'[k] = With(tables[k], id, row) /\ \A j \in Kind \ {k} : tables'[j] = tables[j]
  BY DEF RowsOK
<1>2. /\ DOMAIN tables'[k] = DOMAIN tables[k] \cup {id} /\ tables'[k][id] = row
      /\ \A i \in DOMAIN tables[k] : i # id => tables'[k][i] = tables[k][i]
  BY <1>1 DEF With
<1>3. DOMAIN Objects[k] = DOMAIN tables[k]
  BY ObjectsOf
<1>4. ASSUME NEW i \in DOMAIN tables'[k]
      PROVE  ShownBy(k, i, tables'[k][i]) = IF i # id THEN Objects[k][i] ELSE ShownBy(k, id, row)
  <2>1. CASE i = id
    BY <1>2, <2>1
  <2>2. CASE i # id
    <3>1. i \in DOMAIN tables[k] /\ tables'[k][i] = tables[k][i]
      BY <1>2, <1>4, <2>2
    <3>2. Objects[k][i] = ShownBy(k, i, tables[k][i])
      BY <3>1, ObjectFacts
    <3> QED BY <2>2, <3>1, <3>2
  <2> QED BY <2>1, <2>2
<1>5. Objects'[k] = [i \in DOMAIN tables'[k] |-> IF i # id THEN Objects[k][i] ELSE ShownBy(k, id, row)]
  BY <1>4, ObjectsOf
<1>6. \A j \in Kind \ {k} : Objects'[j] = Objects[j]
  BY <1>1, ObjectsKept
<1> QED BY <1>2, <1>3, <1>5, <1>6

LEMMA CreateRecords ==
  ASSUME ApiInv, NEW r \in DOMAIN requests, NEW i \in DOMAIN requests[r].fields, Create(r, i)
  PROVE  Promise!Next \/ UNCHANGED <<tables, todo_labels>>
<1>1. PICK call, k, row :
        call = Call(r, i) /\ k = call.kind /\ row = Inserted(k, Caller(r), call.given)
  OBVIOUS
<1>2. /\ call.op = "create" /\ FieldOf(r, i).at = "new"
      /\ IF Refused(k, <<r, i>>, row) THEN Fails(r, i) ELSE Written(r, i, k, <<r, i>>, row)
  BY <1>1 DEF Create, Starts, Runs
<1>3. Caller(r) \in User /\ IsCall(call) /\ <<r, i>> \in NewId
  BY <1>1, CallFacts DEF ApiInv
<1>4. k \in Kind
  BY <1>1, <1>2, <1>3, InsertedRow
<1>5. <<r, i>> \in Id /\ <<r, i>> # Null
  <2>1. <<r, i>> \in Id
    BY <1>3 DEF Id
  <2> QED BY <2>1, NullAssumption
<1>6. CASE Fails(r, i)
  BY <1>6 DEF Fails, Reads
<1>7. CASE Written(r, i, k, <<r, i>>, row)
  <2>1. tables' = [tables EXCEPT ![k] = With(@, <<r, i>>, row)] /\ UNCHANGED todo_labels
    BY <1>7 DEF Written
  <2>2. /\ DOMAIN Objects[k] = DOMAIN tables[k]
        /\ Objects'[k] = [j \in DOMAIN Objects[k] \cup {<<r, i>>} |->
             IF j # <<r, i>> THEN Objects[k][j] ELSE ShownBy(k, <<r, i>>, row)]
        /\ \A j \in Kind \ {k} : Objects'[j] = Objects[j]
    BY <1>4, <2>1, WrittenObjects DEF ApiInv
  <2>3. ShownBy(k, <<r, i>>, row) = [f \in DOMAIN Defaults[k] |-> Shows(call.given, f, Defaults[k][f])]
    BY <1>1, <1>2, <1>3, <1>5, InsertedObject
  <2>4. <<r, i>> \notin DOMAIN Objects[k]
    <3>1. ~Given(<<r, i>>)
      BY <1>2, <1>3 DEF Given, Begun
    <3> QED BY <1>4, <2>2, <3>1 DEF ApiInv, IdsGiven
  <2>5. Promise!Create(k, <<r, i>>, call.given)
    BY <1>4, <2>1, <2>2, <2>3, <2>4, CreateForm
  <2>6. call.given \in Inputs("create")[k]
    BY <1>1, <1>2, <1>4, CallInputs DEF ApiInv
  <2>7. Objects'[k] # Objects[k]
    BY <2>2, <2>4
  <2> QED BY <1>4, <1>5, <2>2, <2>5, <2>6, <2>7, NextForm
<1> QED BY <1>2, <1>6, <1>7

LEMMA UpdateRecords ==
  ASSUME ApiInv, NEW r \in DOMAIN requests, NEW i \in DOMAIN requests[r].fields, Update(r, i)
  PROVE  Promise!Next \/ UNCHANGED <<Objects, todo_labels>>
<1>1. PICK call, k, id, old, row :
        /\ call = Call(r, i) /\ k = call.kind /\ id = call.id
        /\ old = tables[k][id] /\ row = Updated(k, old, call.given)
  OBVIOUS
<1>2. /\ call.op = "update"
      /\ IF ~Found(k, id, Caller(r)) \/ Refused(k, id, row) THEN Fails(r, i)
         ELSE Written(r, i, k, id, row)
  BY <1>1 DEF Update, Starts
<1>3. Caller(r) \in User /\ IsCall(call) /\ k \in Kind
  BY <1>1, <1>2, CallFacts DEF ApiInv, IsCall
<1>4. CASE Fails(r, i)
  BY <1>4 DEF Fails, Reads, Objects, Shown
<1>5. CASE Found(k, id, Caller(r)) /\ ~Refused(k, id, row) /\ Written(r, i, k, id, row)
  <2>1. tables' = [tables EXCEPT ![k] = With(@, id, row)] /\ UNCHANGED todo_labels
    BY <1>5 DEF Written
  <2>2. /\ DOMAIN Objects[k] = DOMAIN tables[k]
        /\ Objects'[k] = [j \in DOMAIN Objects[k] \cup {id} |->
             IF j # id THEN Objects[k][j] ELSE ShownBy(k, id, row)]
        /\ \A j \in Kind \ {k} : Objects'[j] = Objects[j]
    BY <1>3, <2>1, WrittenObjects DEF ApiInv
  <2>3. id \in DOMAIN tables[k]
    BY <1>5 DEF Found, Own
  <2>4. RowOK(k, old) /\ id # Null
    BY <1>1, <1>3, <2>3 DEF ApiInv, RowsOK
  <2>5. RowOK(k, row)
    <3>1. UpdatedOK(k, old, row)
      BY <1>1, <1>2, <1>3, <2>4, UpdatedRow
    <3>2. \A c \in NotNullColumn[k] : row[c] # Null
      BY <1>5 DEF Refused
    <3> QED BY <2>4, <3>1, <3>2 DEF RowOK, UpdatedOK
  <2>6. Objects[k][id] = ShownBy(k, id, old)
    BY <1>1, <1>3, <2>3, ObjectFacts
  <2>7. ShownBy(k, id, row) = [f \in DOMAIN Defaults[k] |-> Shows(call.given, f, Objects[k][id][f])]
    BY <1>1, <1>2, <1>3, <2>4, <2>5, <2>6, UpdatedObject
  <2>8. Objects'[k] = [Objects[k] EXCEPT ![id] =
          [f \in DOMAIN Defaults[k] |-> Shows(call.given, f, Objects[k][id][f])]]
    <3>1. Objects[k] = [j \in DOMAIN tables[k] |-> Objects[k][j]]
      BY <1>3, ObjectsOf
    <3> QED BY <2>2, <2>3, <2>7, <3>1
  <2>9. Promise!Update(k, id, call.given)
    BY <1>3, <2>1, <2>2, <2>3, <2>8, UpdateForm
  <2>10. call.given \in Inputs("update")[k]
    BY <1>1, <1>2, <1>3, CallInputs DEF ApiInv
  <2>11. CASE Objects'[k] # Objects[k]
    BY <1>3, <2>2, <2>3, <2>9, <2>10, <2>11, NextForm
  <2>12. CASE Objects'[k] = Objects[k]
    <3>1. \A j \in Kind : Objects'[j] = Objects[j]
      BY <2>2, <2>12
    <3>2. Objects = [j \in Kind |-> Objects[j]] /\ Objects' = [j \in Kind |-> Objects'[j]]
      BY DEF Objects
    <3>3. Objects' = Objects
      BY <3>1, <3>2
    <3> QED BY <2>1, <3>3
  <2> QED BY <2>11, <2>12
<1> QED BY <1>2, <1>4, <1>5

LEMMA DeleteRecords ==
  ASSUME ApiInv, NEW r \in DOMAIN requests, NEW i \in DOMAIN requests[r].fields, Delete(r, i)
  PROVE  Promise!Next \/ UNCHANGED <<Objects, todo_labels>>
<1>0. PICK k, id, gone :
        k = Call(r, i).kind /\ id = Call(r, i).id /\ gone = {id} \cap Own(k, Caller(r))
  OBVIOUS
<1>1. /\ tables' = [tables EXCEPT ![k] = Restrict(@, DOMAIN @ \ gone)]
      /\ todo_labels' = {p \in todo_labels : ~(k = "todo" /\ p[1] \in gone)
                                               /\ ~(k = "label" /\ p[2] \in gone)}
  BY <1>0 DEF Delete
<1>2. k \in Kind
  BY <1>0, CallFacts DEF ApiInv, Delete, Starts, IsCall, Kind
<1>3. /\ tables'[k] = [j \in DOMAIN tables[k] \ gone |-> tables[k][j]]
      /\ \A j \in Kind \ {k} : tables'[j] = tables[j]
  BY <1>1, <1>2 DEF ApiInv, RowsOK, Restrict
<1>4. \A j \in Kind \ {k} : Objects'[j] = Objects[j]
  BY <1>3, ObjectsKept
<1>5. DOMAIN Objects[k] = DOMAIN tables[k] /\ Objects[k] = [j \in DOMAIN tables[k] |-> Objects[k][j]]
  BY <1>2, ObjectsOf
<1>6. Objects'[k] = [j \in DOMAIN Objects[k] \ gone |-> Objects[k][j]]
  <2>1. Objects'[k] = [j \in DOMAIN tables[k] \ gone |-> ShownBy(k, j, tables[k][j])]
    BY <1>2, <1>3, ObjectsOf
  <2>2. \A j \in DOMAIN tables[k] : Objects[k][j] = ShownBy(k, j, tables[k][j])
    BY <1>2, ObjectFacts
  <2> QED BY <1>5, <2>1, <2>2
<1>7. CASE gone = {}
  <2>1. \A j \in Kind : Objects'[j] = Objects[j]
    BY <1>4, <1>5, <1>6, <1>7
  <2>2. Objects = [j \in Kind |-> Objects[j]] /\ Objects' = [j \in Kind |-> Objects'[j]]
    BY DEF Objects
  <2>3. Objects' = Objects
    BY <2>1, <2>2
  <2> QED BY <1>1, <1>7, <2>3
<1>8. CASE gone = {id} /\ id \in DOMAIN tables[k]
  <2>1. Promise!Remove(k, id)
    <3>1. \A j : j \in gone <=> j = id
      BY <1>8
    <3>2. todo_labels' = {p \in todo_labels : ~(k = "todo" /\ p[1] = id) /\ ~(k = "label" /\ p[2] = id)}
      BY <1>1, <3>1
    <3>3. Objects'[k] = [j \in DOMAIN Objects[k] \ {id} |-> Objects[k][j]]
      BY <1>6, <1>8
    <3> QED BY <1>2, <3>2, <3>3, RemoveForm
  <2>2. Objects'[k] # Objects[k]
    BY <1>5, <1>6, <1>8
  <2> QED BY <1>2, <1>4, <1>5, <1>8, <2>1, <2>2, NextForm
<1>9. gone = {} \/ (gone = {id} /\ id \in DOMAIN tables[k])
  BY <1>0 DEF Own
<1> QED BY <1>7, <1>8, <1>9

LEMMA LabelRecords ==
  ASSUME ApiInv, NEW r \in DOMAIN requests, NEW i \in DOMAIN requests[r].fields,
         InsertTodoLabel(r, i) \/ RemoveTodoLabel(r, i)
  PROVE  Promise!Next \/ UNCHANGED <<tables, todo_labels>>
<1>1. PICK t, l : t = Call(r, i).id /\ l = Call(r, i).label
  OBVIOUS
<1>2. CASE Fails(r, i)
  BY <1>2 DEF Fails, Reads
<1>3. UNCHANGED tables => UNCHANGED Objects
  BY DEF Objects, Shown
<1>4. DOMAIN Objects["todo"] = DOMAIN tables["todo"] /\ DOMAIN Objects["label"] = DOMAIN tables["label"]
  BY ObjectsOf DEF Kind
<1>5. ASSUME UNCHANGED tables, t \in DOMAIN tables["todo"], l \in DOMAIN tables["label"],
             todo_labels' = todo_labels \cup {<<t, l>>} \/ todo_labels' = todo_labels \ {<<t, l>>}
      PROVE  Promise!Next
  <2>1. Promise!Attach(t, l) \/ Promise!Detach(t, l)
    BY <1>3, <1>5 DEF Promise!Attach, Promise!Detach, Objects
  <2>2. t \in DOMAIN Objects["todo"] /\ l \in DOMAIN Objects["label"]
    BY <1>4, <1>5
  <2> QED BY <2>1, <2>2 DEF Promise!Next, Objects
<1>6. CASE InsertTodoLabel(r, i) /\ ~Fails(r, i)
  BY <1>1, <1>5, <1>6 DEF InsertTodoLabel
<1>7. CASE RemoveTodoLabel(r, i)
  <2>1. UNCHANGED tables
    BY <1>7 DEF RemoveTodoLabel
  <2>2. todo_labels' = todo_labels \/ (t \in DOMAIN tables["todo"] /\ todo_labels' = todo_labels \ {<<t, l>>})
    BY <1>1, <1>7 DEF RemoveTodoLabel, Found, Own
  <2>3. CASE l \notin DOMAIN tables["label"]
    <3>1. <<t, l>> \notin todo_labels
      BY <2>3 DEF ApiInv, RowsOfOneUser, Own
    <3> QED BY <2>1, <2>2, <3>1
  <2> QED BY <1>5, <2>1, <2>2, <2>3
<1> QED BY <1>2, <1>6, <1>7

LEMMA NextRecords ==
  ASSUME ApiInv, [Next]_vars
  PROVE  Promise!Next \/ UNCHANGED <<Objects, todo_labels>>
<1>1. UNCHANGED tables => UNCHANGED Objects
  BY DEF Objects, Shown
<1>2. ASSUME NEW r \in DOMAIN requests, NEW i \in DOMAIN requests[r].fields, Resolve(r, i)
      PROVE  Promise!Next \/ UNCHANGED <<Objects, todo_labels>>
  BY <1>1, <1>2, QuietSteps, CreateRecords, UpdateRecords, DeleteRecords, LabelRecords
<1>3. CASE \E operation \in workload : Receive(operation)
  BY <1>1, <1>3 DEF Receive
<1>4. CASE \E r \in DOMAIN requests : Respond(r) \/ Abort(r)
  BY <1>1, <1>4 DEF Respond, Abort
<1>5. CASE UNCHANGED vars
  BY <1>1, <1>5 DEF vars
<1> QED BY <1>2, <1>3, <1>4, <1>5 DEF Next

\* Module Api implements module Records: through input, parameters, columns
\* and answer, and whatever other requests do in between, an object shows what
\* its creation and its later updates named, and nothing else.
THEOREM ApiImplementsRecords == Spec => ImplementsRecords
<1>1. Init => Promise!Init
  <2> SUFFICES ASSUME Init PROVE Promise!Init
    OBVIOUS
  <2>1. \A k \in Kind : DOMAIN Objects[k] = DOMAIN Tables[k]
    BY ObjectsOf DEF Init
  <2>2. \A k \in Kind : \A id \in DOMAIN Objects[k] : id \in Id
    BY <2>1 DEF Id
  <2>3. \A p \in todo_labels : p[1] \in DOMAIN Objects["todo"] /\ p[2] \in DOMAIN Objects["label"]
    BY <2>1, LabelledAssumption DEF Init, Kind
  <2> QED BY <2>2, <2>3 DEF Promise!Init, Objects
<1>2. ApiInv /\ [Next]_vars => [Promise!Next]_<<Objects, todo_labels>>
  BY NextRecords
<1>3. [Promise!Next]_<<Objects, todo_labels>> =>
        [Promise!Next]_<<[k \in Kind |-> [id \in DOMAIN tables[k] |-> Shown(k, id)]], todo_labels>>
  BY DEF Objects
<1> QED BY <1>1, <1>2, <1>3, AlwaysApi, PTL DEF Spec, ImplementsRecords, Promise!Spec
=============================================================================
