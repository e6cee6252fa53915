-------------------------------- MODULE MCApi --------------------------------
(* The rows, times and operations that the run of module Api starts from.  *)
(* Each field has values of its own, so that a value in the wrong field    *)
(* shows.  No input sets nextAction to true: that is module Todos.         *)
EXTENDS Api, TLC

CONSTANTS ann, bob

\* Times and their days: one day past, one of this week, one far away.
SmallDay == [t1 |-> "d-1", t2 |-> "d+1", t3 |-> "d+9"] @@ ("t1 23h" :> "d-1")

e1 == <<0, 1>>  e2 == <<0, 2>>  p1 == <<0, 3>>  p2 == <<0, 4>>  s1 == <<0, 5>>
t1 == <<0, 6>>  t2 == <<0, 7>>  l1 == <<0, 8>>  l2 == <<0, 9>>  n1 == <<0, 10>>
p3 == <<0, 11>>  t3 == <<0, 12>>  l3 == <<0, 13>>

None == [f \in {} |-> Null]
Nulls(S) == [f \in S |-> Null]
Only(given, S) == [f \in S |-> given[f]]
Without(given, S) == [f \in DOMAIN given \ S |-> given[f]]

EpicA == [name |-> "name1", description |-> "about1", color |-> "color1", position |-> 1]
EpicB == [name |-> "name2", description |-> "about2", color |-> "color2", position |-> 2]
ProjectA == [epicId |-> e1, name |-> "name1", description |-> "about1", status |-> "PAUSED",
             startDate |-> "t1 23h", targetDate |-> "t2", position |-> 1]
ProjectB == [epicId |-> e1, name |-> "name2", description |-> "about2", status |-> "ACTIVE",
             startDate |-> "t2", targetDate |-> "t3", position |-> 2]
StageA == [projectId |-> p1, name |-> "name1", description |-> "about1", status |-> "DONE",
           startDate |-> "t1 23h", targetDate |-> "t2", position |-> 1]
StageB == [name |-> "name2", description |-> "about2", status |-> "IN_PROGRESS",
           startDate |-> "t2", targetDate |-> "t3", position |-> 2]
TodoA == [projectId |-> p1, stageId |-> s1, title |-> "title1", description |-> "about1",
          priority |-> "HIGH", status |-> "IN_PROGRESS", startDate |-> "t1", dueDate |-> "t2",
          estimatedEffort |-> "effort1", position |-> 1, nextAction |-> FALSE,
          milestone |-> TRUE, recurrence |-> "WEEKLY"]
TodoB == [projectId |-> p2, stageId |-> s1, title |-> "title2", description |-> "about2",
          priority |-> "LOW", status |-> "BLOCKED", startDate |-> "t2", dueDate |-> "t1 23h",
          estimatedEffort |-> "effort2", position |-> 2, nextAction |-> FALSE,
          milestone |-> FALSE, recurrence |-> "DAILY"]

Row(kind, user, given) == Inserted(kind, user, given)
SmallTables ==
  [epic |-> (e1 :> Row("epic", ann, EpicA)) @@ (e2 :> Row("epic", bob, EpicB)),
   project |-> (p1 :> Row("project", ann, Only(ProjectA, {"name"})))
            @@ (p2 :> Row("project", ann, ProjectA))
            @@ (p3 :> Row("project", bob, Only(ProjectA, {"name"}))),
   stage |-> s1 :> Row("stage", ann, StageA),
   todo |-> (t1 :> [Row("todo", ann, Only(TodoA, {"title", "projectId"})) EXCEPT !.next_action = TRUE])
         @@ (t2 :> [Row("todo", ann, TodoB) EXCEPT !.next_action = TRUE, !.status = "OPEN"])
         @@ (t3 :> Row("todo", bob, Only(TodoA, {"title"}))),
   label |-> (l1 :> Row("label", ann, [name |-> "home", color |-> "red"]))
          @@ (l2 :> Row("label", ann, [name |-> "work"]))
          @@ (l3 :> Row("label", bob, [name |-> "home"])),
   note |-> n1 :> Row("note", ann, [projectId |-> p1, body |-> "body1"])]
SmallLabelled == {<<t1, l1>>, <<t2, l2>>}

-----------------------------------------------------------------------------
NoCall == [op |-> "none", kind |-> "none", id |-> Null, label |-> Null, given |-> None]
New(k, given) == [NoCall EXCEPT !.op = "create", !.kind = k, !.given = given]
Set(k, id, given) == [NoCall EXCEPT !.op = "update", !.kind = k, !.id = id, !.given = given]
Drop(k, id) == [NoCall EXCEPT !.op = "delete", !.kind = k, !.id = id]
On(op, t, l) == [NoCall EXCEPT !.op = op, !.id = t, !.label = l]
One(k, id) == [NoCall EXCEPT !.op = "get", !.kind = k, !.id = id]
Of(op, k, id) == [NoCall EXCEPT !.op = op, !.kind = k, !.id = id]
Filtered(filter) == [NoCall EXCEPT !.op = "view", !.kind = "todos", !.given = filter]

Mutation(u, calls) == [type |-> "mutation", user |-> u, calls |-> calls]
Query(u, calls) == [type |-> "query", user |-> u, calls |-> calls]
Ann(call) == Mutation(ann, <<call>>)
Bob(call) == Mutation(bob, <<call>>)

EpicWork ==
  {Ann(New("epic", EpicA)), Ann(New("epic", Only(EpicB, {"name"}))),
   Mutation(ann, <<New("epic", [Nulls(DOMAIN EpicA) EXCEPT !.name = "name2"]), Set("epic", e1, EpicB)>>),
   Ann(Set("epic", e1, Only(EpicB, {"name", "position"}))),
   Ann(Set("epic", e1, Without(EpicA, {"name", "position"}))),
   Ann(Set("epic", e1, Nulls(DOMAIN EpicA))), Bob(Set("epic", e1, EpicB)),
   Query(ann, <<Of("list", "epic", Null), One("epic", e1)>>), Query(bob, <<One("epic", e1)>>)}

ProjectWork ==
  {Ann(New("project", ProjectA)), Ann(New("project", Only(ProjectB, {"name"}))),
   Ann(New("project", [Nulls(DOMAIN ProjectA) EXCEPT !.name = "name2"])),
   Mutation(ann, <<New("project", [ProjectB EXCEPT !.epicId = e2]), Set("project", p1, ProjectB)>>),
   Ann(Set("project", p1, Only(ProjectB, {"epicId", "status", "targetDate"}))),
   Ann(Set("project", p1, Without(ProjectA, {"epicId", "status", "targetDate"}))),
   Ann(Set("project", p1, [Nulls(DOMAIN ProjectA) EXCEPT !.epicId = Malformed])),
   Ann(Set("project", p1, Nulls(DOMAIN ProjectA))),
   Query(ann, <<Of("list", "project", e1), One("project", p1)>>),
   Query(bob, <<Of("list", "project", Null), One("project", p1)>>)}

StageWork ==
  {Ann(New("stage", StageA)), Ann(New("stage", Only(StageA, {"name", "projectId"}))),
   Mutation(ann, <<New("stage", [Nulls(DOMAIN StageA) EXCEPT !.name = "name2", !.projectId = p2]),
                   Set("stage", s1, StageB)>>),
   Ann(New("stage", [StageA EXCEPT !.projectId = p3])),
   Ann(Set("stage", s1, Only(StageB, {"description", "startDate"}))),
   Ann(Set("stage", s1, Without(StageA, {"projectId", "description", "startDate"}))),
   Bob(Set("stage", s1, StageB)),
   Query(ann, <<Of("list", "stage", p1), One("stage", s1)>>), Query(bob, <<Of("list", "stage", p1)>>)}

TodoWork ==
  {Ann(New("todo", TodoA)), Ann(New("todo", Only(TodoB, {"title"}))),
   Ann(New("todo", [Nulls(DOMAIN TodoA) EXCEPT !.title = "title2"])),
   Mutation(ann, <<Set("todo", t1, Only(TodoB, {"title", "dueDate", "milestone", "nextAction"})),
                   Set("todo", t1, [Nulls(DOMAIN TodoA) EXCEPT !.projectId = p3])>>),
   Ann(Set("todo", t1, Without(TodoA, {"title", "dueDate", "milestone", "nextAction"}))),
   Ann(Set("todo", t1, [projectId |-> p2])), Bob(Set("todo", t1, TodoA)),
   Query(ann, <<One("todo", t1)>>), Query(bob, <<One("todo", t1)>>)}

LabelWork ==
  {Mutation(ann, <<New("label", [name |-> "new", color |-> "blue"]), Set("label", l2, [name |-> "home"])>>),
   Ann(Set("label", l2, [color |-> "blue", name |-> Null])),
   Ann(New("label", [name |-> "new"])), Ann(Drop("label", l2)), Ann(Drop("todo", t1)),
   Ann(On("addTodoLabel", t1, l2)), Ann(On("removeTodoLabel", t1, l1)),
   Bob(On("addTodoLabel", t1, l3)), Bob(Drop("label", l2)),
   Query(ann, <<Of("list", "label", Null), Filtered([labelId |-> l2])>>)}

NoteWork ==
  {Ann(New("note", [projectId |-> p1, body |-> "body2"])), Ann(New("note", [projectId |-> p3, body |-> "body2"])),
   Mutation(ann, <<Set("note", n1, [body |-> Null]), Set("note", n1, [body |-> "body2"])>>),
   Ann(Drop("note", n1)), Ann(Drop("note", Malformed)), Bob(Drop("note", n1)),
   Query(ann, <<Of("list", "note", p1)>>), Query(bob, <<Of("list", "note", p1)>>)}

ViewWork ==
  {Ann(Set("todo", t1, [status |-> "DONE"])), Ann(Set("todo", t2, [dueDate |-> "t2"])),
   Mutation(ann, <<New("todo", [title |-> "title2", projectId |-> p1, dueDate |-> "t1"]),
                   Set("todo", t1, [status |-> "BLOCKED", dueDate |-> "t1"])>>),
   Ann(Drop("todo", t2)),
   Query(ann, <<Of("count", "dashboard", Null), Of("count", "project", p1)>>),
   Query(ann, <<Of("view", "openTodos", Null), Of("count", "stage", s1)>>),
   Query(ann, <<Of("view", "overdueTodos", Null), Of("view", "nextActions", Null)>>),
   Query(ann, <<Of("view", "inbox", Null), Of("view", "doneTodos", Null)>>),
   Query(ann, <<Filtered([projectId |-> p1, status |-> "OPEN"])>>), Query(bob, <<Filtered(None)>>)}

SmallWorkloads == {EpicWork, ProjectWork, StageWork, TodoWork, LabelWork, NoteWork, ViewWork}
=============================================================================
