----------------------------- MODULE TodosProofs -----------------------------
(***************************************************************************)
(* Proofs about module Todos, for every number of todos, projects and      *)
(* concurrent requests and for every set of mutations.                     *)
(***************************************************************************)
EXTENDS Todos, TLAPS

\* Every statement but the insert has a todo to work on.
TodoGiven ==
  \A r \in Request :
    /\ pc[r] \notin {"idle", "insert"} => call[r].todo \in Todo
    /\ pc[r] \in {"addDep", "removeDep"} => call[r].dep \in Todo

\* The type invariant, strengthened so that it is inductive.
TypeInv == TypeOK /\ TodoGiven

LEMMA InitTypeInv == Init => TypeInv
<1> SUFFICES ASSUME Init PROVE TypeInv
  OBVIOUS
<1>1. NoCall \in Call
  BY DEF NoCall, Call, Op, Status, Keep
<1>2. TypeOK
  BY <1>1 DEF Init, TypeOK, Status, Statement
<1>3. TodoGiven
  BY DEF Init, TodoGiven
<1> QED BY <1>2, <1>3 DEF TypeInv

\* The mutations that the resolvers start with are well formed.
LEMMA BeginTyped ==
  ASSUME TypeInv, NEW r \in Request, BeginRequest(r)
  PROVE  TypeInv'
<1>1. SUFFICES ASSUME NEW c \in Call, NEW s \in Statement, Begin(r, c, s),
                      s # "insert" => c.todo \in Todo,
                      s \in {"addDep", "removeDep"} => c.dep \in Todo
               PROVE  TypeInv'
  <2>1. \A c \in Calls : c \in Call
    BY CallsAssumption
  <2>2. CASE BeginCreateTodo(r)
    BY <1>1, <2>1, <2>2 DEF BeginCreateTodo, Statement
  <2>3. CASE BeginUpdateTodo(r)
    <3>1. PICK c \in Calls : /\ c.op = "updateTodo"
                             /\ Begin(r, c, IF c.next = "set" THEN "getForUpdate" ELSE "update")
      BY <2>3 DEF BeginUpdateTodo
    <3>2. c.todo \in Todo
      BY <3>1, CallsAssumption
    <3> QED BY <1>1, <2>1, <3>1, <3>2 DEF Statement
  <2>4. CASE BeginMarkTodoDone(r)
    <3>1. PICK c \in Calls : /\ c.op = "markTodoDone"
                             /\ Begin(r, [c EXCEPT !.status = "DONE"], "update")
      BY <2>4 DEF BeginMarkTodoDone
    <3>2. c.todo \in Todo
      BY <3>1, CallsAssumption
    <3> DEFINE d == [c EXCEPT !.status = "DONE"]
    <3>3. d \in Call /\ d.todo \in Todo
      BY <2>1, <3>2 DEF Call, Status
    <3>4. Begin(r, d, "update")
      BY <3>1
    <3> HIDE DEF d
    <3> QED BY <1>1, <3>3, <3>4 DEF Statement
  <2>5. CASE BeginSetTodoNextAction(r)
    BY <1>1, <2>1, <2>5, CallsAssumption DEF BeginSetTodoNextAction, Statement
  <2>6. CASE BeginDeleteTodo(r)
    BY <1>1, <2>1, <2>6, CallsAssumption DEF BeginDeleteTodo, Statement
  <2>7. CASE BeginAddTodoDependency(r)
    BY <1>1, <2>1, <2>7, CallsAssumption DEF BeginAddTodoDependency, Statement
  <2>8. CASE BeginRemoveTodoDependency(r)
    BY <1>1, <2>1, <2>8, CallsAssumption DEF BeginRemoveTodoDependency, Statement
  <2> QED BY <2>2, <2>3, <2>4, <2>5, <2>6, <2>7, <2>8 DEF BeginRequest
<1>2. TypeOK'
  BY <1>1 DEF Begin, TypeInv, TypeOK, rowVars
<1>3. TodoGiven'
  BY <1>1 DEF Begin, TypeInv, TypeOK, TodoGiven, rowVars
<1> QED BY <1>2, <1>3 DEF TypeInv

\* A request that returns leaves a well formed idle request behind.
LEMMA ReturnTyped ==
  ASSUME TypeInv, NEW r \in Request, Return(r)
  PROVE  /\ pc' \in [Request -> Statement \cup {"idle"}]
         /\ call' \in [Request -> Call]
         /\ clearIn' \in [Request -> Project \cup {None}]
         /\ TodoGiven'
<1>1. NoCall \in Call
  BY DEF NoCall, Call, Op, Status, Keep
<1> QED BY <1>1 DEF TypeInv, TypeOK, Return, TodoGiven, Statement

\* So does one that goes on to its next statement with the same arguments.
LEMMA GotoTyped ==
  ASSUME TypeInv, NEW r \in Request, NEW s \in Statement \ {"addDep", "removeDep"},
         Goto(r, s), call[r].todo \in Todo
  PROVE  /\ pc' \in [Request -> Statement \cup {"idle"}]
         /\ call' \in [Request -> Call]
         /\ clearIn' \in [Request -> Project \cup {None}]
         /\ TodoGiven'
BY DEF TypeInv, TypeOK, Goto, TodoGiven

LEMMA FailTyped ==
  ASSUME TypeInv, NEW r \in Request, Fail(r)
  PROVE  TypeInv'
BY ReturnTyped DEF Fail, TypeInv, TypeOK, rowVars

\* What RemoveTodos does to the columns, whatever set of rows it removes.
LEMMA RemoveTodosTyped ==
  ASSUME TypeInv, NEW gone, RemoveTodos(gone)
  PROVE  /\ todos' \subseteq used'
         /\ used' \subseteq Todo
         /\ nextAction' \subseteq todos'
         /\ status' \in [Todo -> Status]
         /\ completed' \subseteq todos'
         /\ deps' \subseteq todos' \X todos'
<1> USE DEF TypeInv, TypeOK, RemoveTodos
<1>1. deps' \subseteq todos' \X todos'
  <2>1. SUFFICES ASSUME NEW d \in deps, d[1] \notin gone, d[2] \notin gone
                 PROVE  d \in todos' \X todos'
    OBVIOUS
  <2>2. d \in todos \X todos
    OBVIOUS
  <2> QED BY <2>1, <2>2
<1>2. status' \in [Todo -> Status]
  BY DEF Status
<1> QED BY <1>1, <1>2

LEMMA InsertTyped ==
  ASSUME TypeInv, NEW r \in Request, Insert(r)
  PROVE  TypeInv'
<1>1. CASE Fail(r)
  BY <1>1, FailTyped
<1>2. CASE ~Fail(r)
  <2> DEFINE c == call[r]
  <2>1. PICK t \in Todo \ used :
          /\ c.project \in projects \cup {None}
          /\ todos' = todos \cup {t}
          /\ used' = used \cup {t}
          /\ project' = [project EXCEPT ![t] = c.project]
          /\ status' = [status EXCEPT ![t] = IF c.status = Keep THEN "OPEN" ELSE c.status]
          /\ UNCHANGED <<projects, nextAction, completed, deps>>
          /\ IF c.next = "set"
             THEN /\ pc' = [pc EXCEPT ![r] = "getForNextAction"]
                  /\ call' = [call EXCEPT ![r] = SetNextActionOf(t)]
                  /\ UNCHANGED clearIn
             ELSE Return(r)
    BY <1>2 DEF Insert
  <2>2. c \in Call /\ c.status \in Status \cup {Keep}
    BY DEF TypeInv, TypeOK, Call
  <2>3. /\ projects' \subseteq Project
        /\ todos' \subseteq used'
        /\ used' \subseteq Todo
        /\ project' \in [Todo -> Project \cup {None}]
        /\ nextAction' \subseteq todos'
        /\ completed' \subseteq todos'
    BY <2>1 DEF TypeInv, TypeOK
  <2>4. status' \in [Todo -> Status]
    <3>1. (IF c.status = Keep THEN "OPEN" ELSE c.status) \in Status
      BY <2>2 DEF Status
    <3> HIDE DEF c
    <3> QED BY <2>1, <3>1 DEF TypeInv, TypeOK
  <2>5. deps' \subseteq todos' \X todos'
    BY <2>1 DEF TypeInv, TypeOK
  <2>6. CASE c.next = "set"
    <3>1. SetNextActionOf(t) \in Call /\ SetNextActionOf(t).todo \in Todo
      BY <2>1 DEF SetNextActionOf, Call, Op, Keep
    <3>2. /\ pc' = [pc EXCEPT ![r] = "getForNextAction"]
          /\ call' = [call EXCEPT ![r] = SetNextActionOf(t)]
          /\ UNCHANGED clearIn
      BY <2>1, <2>6
    <3>3. /\ pc' \in [Request -> Statement \cup {"idle"}]
          /\ call' \in [Request -> Call]
          /\ clearIn' \in [Request -> Project \cup {None}]
      BY <3>1, <3>2 DEF TypeInv, TypeOK, Statement
    <3>4. TodoGiven'
      BY <3>1, <3>2 DEF TypeInv, TypeOK, TodoGiven
    <3> QED BY <2>3, <2>4, <2>5, <3>3, <3>4 DEF TypeInv, TypeOK
  <2>7. CASE c.next # "set"
    <3>1. Return(r)
      BY <2>1, <2>7
    <3> QED BY <2>3, <2>4, <2>5, <3>1, ReturnTyped DEF TypeInv, TypeOK
  <2> QED BY <2>6, <2>7
<1> QED BY <1>1, <1>2

\* Both reads choose a project to clear and go on to "clear" or to "update".
LEMMA ReadTyped ==
  ASSUME TypeInv, NEW r \in Request, GetForUpdate(r) \/ GetForNextAction(r)
  PROVE  TypeInv'
<1>1. CASE Fail(r)
  BY <1>1, FailTyped
<1>2. CASE ~Fail(r)
  <2>1. call[r].todo \in Todo /\ call[r].project \in Project \cup {None}
    BY DEF TypeInv, TypeOK, TodoGiven, GetForUpdate, GetForNextAction, Call
  <2>2. PICK q \in Project \cup {None} :
          /\ clearIn' = [clearIn EXCEPT ![r] = q]
          /\ pc' = [pc EXCEPT ![r] = IF q = None THEN "update" ELSE "clear"]
          /\ UNCHANGED <<rowVars, call>>
    <3>1. CASE GetForUpdate(r)
      <4> DEFINE q == IF call[r].project # None THEN call[r].project ELSE project[call[r].todo]
      <4>1. q \in Project \cup {None}
        BY <2>1 DEF TypeInv, TypeOK
      <4> QED BY <1>2, <3>1, <4>1 DEF GetForUpdate
    <3>2. CASE GetForNextAction(r)
      <4> DEFINE q == IF call[r].next = "set" THEN project[call[r].todo] ELSE None
      <4>1. q \in Project \cup {None}
        BY <2>1 DEF TypeInv, TypeOK
      <4> QED BY <1>2, <3>2, <4>1 DEF GetForNextAction
    <3> QED BY <3>1, <3>2
  <2>3. TypeOK'
    BY <2>2 DEF TypeInv, TypeOK, rowVars, Statement
  <2>4. TodoGiven'
    BY <2>1, <2>2 DEF TypeInv, TypeOK, TodoGiven, rowVars
  <2> QED BY <2>3, <2>4 DEF TypeInv
<1> QED BY <1>1, <1>2

LEMMA ClearTyped ==
  ASSUME TypeInv, NEW r \in Request, ClearProjectNextActions(r)
  PROVE  TypeInv'
<1>1. call[r].todo \in Todo
  BY DEF ClearProjectNextActions, TypeInv, TodoGiven
<1>2. Goto(r, "update")
  BY DEF ClearProjectNextActions
<1> QED BY <1>1, <1>2, GotoTyped DEF ClearProjectNextActions, TypeInv, TypeOK, Statement

LEMMA UpdateTyped ==
  ASSUME TypeInv, NEW r \in Request, Update(r)
  PROVE  TypeInv'
<1>1. CASE UpdateRefused(r)
  BY <1>1, FailTyped DEF Update
<1>2. CASE ~UpdateRefused(r)
  <2>1. call[r].todo \in todos /\ call[r] \in Call
    BY <1>2 DEF UpdateRefused, TypeInv, TypeOK
  <2>2. NewProject(r) \in Project \cup {None} /\ NewStatus(r) \in Status
    BY <2>1 DEF NewProject, NewStatus, TypeInv, TypeOK, Call
  <2>3. Return(r)
    BY <1>2 DEF Update
  <2> QED BY <1>2, <2>1, <2>2, <2>3, ReturnTyped DEF Update, TypeInv, TypeOK
<1> QED BY <1>1, <1>2

LEMMA DeleteTodoTyped ==
  ASSUME TypeInv, NEW r \in Request, DeleteTodo(r)
  PROVE  TypeInv'
<1>1. Return(r) /\ RemoveTodos({call[r].todo})
  BY DEF DeleteTodo
<1>2. projects' \subseteq Project /\ project' \in [Todo -> Project \cup {None}]
  BY DEF DeleteTodo, TypeInv, TypeOK
<1> QED BY <1>1, <1>2, ReturnTyped, RemoveTodosTyped DEF TypeInv, TypeOK

LEMMA AddTodoDependencyTyped ==
  ASSUME TypeInv, NEW r \in Request, AddTodoDependency(r)
  PROVE  TypeInv'
<1>1. CASE Fail(r)
  BY <1>1, FailTyped
<1>2. CASE ~Fail(r)
  <2>1. call[r].todo \in Todo
    BY DEF AddTodoDependency, TypeInv, TodoGiven
  <2>2. Goto(r, "countDeps") /\ deps' \subseteq todos \X todos
    BY <1>2 DEF AddTodoDependency, TypeInv, TypeOK
  <2> QED BY <1>2, <2>1, <2>2, GotoTyped DEF AddTodoDependency, TypeInv, TypeOK, Statement
<1> QED BY <1>1, <1>2

LEMMA CountIncompleteDependenciesTyped ==
  ASSUME TypeInv, NEW r \in Request, CountIncompleteDependencies(r)
  PROVE  TypeInv'
<1>1. CASE Return(r)
  BY <1>1, ReturnTyped DEF CountIncompleteDependencies, rowVars, TypeInv, TypeOK
<1>2. CASE ~Return(r)
  <2>1. call[r] \in Call /\ call[r].todo \in Todo
    BY DEF CountIncompleteDependencies, TypeInv, TypeOK, TodoGiven
  <2> DEFINE c == [call[r] EXCEPT !.status = "BLOCKED"]
  <2>2. c \in Call /\ c.todo \in Todo
    BY <2>1 DEF Call, Status
  <2>3. /\ pc' = [pc EXCEPT ![r] = "update"]
        /\ call' = [call EXCEPT ![r] = c]
        /\ UNCHANGED <<rowVars, clearIn>>
    BY <1>2 DEF CountIncompleteDependencies
  <2> HIDE DEF c
  <2> QED BY <2>2, <2>3 DEF TypeInv, TypeOK, TodoGiven, rowVars, Statement
<1> QED BY <1>1, <1>2

LEMMA RemoveTodoDependencyTyped ==
  ASSUME TypeInv, NEW r \in Request, RemoveTodoDependency(r)
  PROVE  TypeInv'
<1>1. Return(r)
  BY DEF RemoveTodoDependency
<1> QED BY <1>1, ReturnTyped DEF RemoveTodoDependency, TypeInv, TypeOK

LEMMA DeleteProjectTyped ==
  ASSUME TypeInv, NEW p \in Project, DeleteProject(p)
  PROVE  TypeInv'
<1>1. PICK gone : RemoveTodos(gone)
  BY DEF DeleteProject
<1>2. projects' \subseteq Project /\ project' \in [Todo -> Project \cup {None}]
  BY DEF DeleteProject, TypeInv, TypeOK
<1>3. UNCHANGED <<pc, call, clearIn>>
  BY DEF DeleteProject
<1> QED BY <1>1, <1>2, <1>3, RemoveTodosTyped DEF TypeInv, TypeOK, TodoGiven

LEMMA NextTypeInv == TypeInv /\ [Next]_vars => TypeInv'
<1> SUFFICES ASSUME TypeInv, [Next]_vars PROVE TypeInv'
  OBVIOUS
<1>1. ASSUME NEW r \in Request, BeginRequest(r) PROVE TypeInv'
  BY <1>1, BeginTyped
<1>2. ASSUME NEW r \in Request, Execute(r) PROVE TypeInv'
  BY <1>2, InsertTyped, ReadTyped, ClearTyped, UpdateTyped, DeleteTodoTyped,
     AddTodoDependencyTyped, CountIncompleteDependenciesTyped,
     RemoveTodoDependencyTyped DEF Execute
<1>3. ASSUME NEW r \in Request, Abort(r) PROVE TypeInv'
  BY <1>3, FailTyped DEF Abort
<1>4. ASSUME NEW p \in Project, DeleteProject(p) PROVE TypeInv'
  BY <1>4, DeleteProjectTyped
<1>5. CASE UNCHANGED vars
  BY <1>5 DEF vars, TypeInv, TypeOK, TodoGiven
<1> QED BY <1>1, <1>2, <1>3, <1>4, <1>5 DEF Next

\* The columns, the identifiers and the local variables of the requests keep
\* their types: in particular a flag, a completion time or a dependency never
\* outlives its row, whatever is deleted while requests are running.
THEOREM TypeCorrect == Spec => []TypeOK
<1>1. Spec => []TypeInv
  BY InitTypeInv, NextTypeInv, PTL DEF Spec
<1>2. TypeInv => TypeOK
  BY DEF TypeInv
<1> QED BY <1>1, <1>2, PTL

-----------------------------------------------------------------------------
(* Safety of the rows.                                                     *)

RowInv == OneNextActionPerProject /\ NoTodoInMissingProject /\ CompletedOnlyIfDone

LEMMA RowsUnchanged ==
  ASSUME RowInv, UNCHANGED rowVars
  PROVE  RowInv'
BY DEF RowInv, OneNextActionPerProject, NoTodoInMissingProject, CompletedOnlyIfDone, rowVars

LEMMA InsertRows ==
  ASSUME TypeInv, RowInv, NEW r \in Request, Insert(r)
  PROVE  RowInv'
<1>1. CASE Fail(r)
  BY <1>1, RowsUnchanged DEF Fail
<1>2. CASE ~Fail(r)
  <2>1. PICK t \in Todo \ used :
          /\ call[r].project \in projects \cup {None}
          /\ todos' = todos \cup {t}
          /\ project' = [project EXCEPT ![t] = call[r].project]
          /\ status' = [status EXCEPT ![t] = IF call[r].status = Keep THEN "OPEN"
                                             ELSE call[r].status]
          /\ UNCHANGED <<projects, nextAction, completed>>
    BY <1>2 DEF Insert
  <2>2. t \notin nextAction /\ t \notin completed
    BY DEF TypeInv, TypeOK
  <2>3. \A u \in todos : project'[u] = project[u] /\ status'[u] = status[u]
    BY <2>1 DEF TypeInv, TypeOK
  <2>4. project'[t] = call[r].project
    BY <2>1 DEF TypeInv, TypeOK
  <2>5. OneNextActionPerProject'
    BY <2>1, <2>3 DEF TypeInv, TypeOK, RowInv, OneNextActionPerProject
  <2>6. NoTodoInMissingProject'
    BY <2>1, <2>3, <2>4 DEF RowInv, NoTodoInMissingProject
  <2>7. CompletedOnlyIfDone'
    BY <2>1, <2>3 DEF TypeInv, TypeOK, RowInv, CompletedOnlyIfDone
  <2> QED BY <2>5, <2>6, <2>7 DEF RowInv
<1> QED BY <1>1, <1>2

LEMMA ClearRows ==
  ASSUME TypeInv, RowInv, NEW r \in Request, ClearProjectNextActions(r)
  PROVE  RowInv'
BY DEF ClearProjectNextActions, RowInv, OneNextActionPerProject, NoTodoInMissingProject,
       CompletedOnlyIfDone

\* The unique index is what keeps OneNextActionPerProject here: the UPDATE
\* that would give a project a second next action is refused.
LEMMA UpdateRows ==
  ASSUME TypeInv, RowInv, NEW r \in Request, Update(r)
  PROVE  RowInv'
<1>1. CASE UpdateRefused(r)
  BY <1>1, RowsUnchanged DEF Update, Fail
<1>2. CASE ~UpdateRefused(r)
  <2> DEFINE t == call[r].todo
  <2>1. /\ project' = [project EXCEPT ![t] = NewProject(r)]
        /\ status' = [status EXCEPT ![t] = NewStatus(r)]
        /\ nextAction' = IF Flags(r) THEN nextAction \cup {t} ELSE nextAction \ {t}
        /\ completed' = IF Completes(r) THEN completed \cup {t} ELSE completed \ {t}
        /\ UNCHANGED <<projects, todos>>
    BY <1>2 DEF Update
  <2>2. t \in todos /\ t \in Todo
    BY <1>2 DEF UpdateRefused, TypeInv, TypeOK
  <2>3. /\ project'[t] = NewProject(r)
        /\ status'[t] = NewStatus(r)
        /\ \A u \in todos \ {t} : project'[u] = project[u] /\ status'[u] = status[u]
    BY <2>1, <2>2 DEF TypeInv, TypeOK
  <2>4. OneNextActionPerProject'
    <3>1. SUFFICES ASSUME NEW u \in nextAction', NEW v \in nextAction', u # v,
                          project'[u] = project'[v], project'[u] # None
                   PROVE  FALSE
      BY DEF OneNextActionPerProject
    <3>2. nextAction' \subseteq nextAction \cup {t}
      BY <2>1
    <3>3. CASE u # t /\ v # t
      BY <2>3, <3>1, <3>2, <3>3 DEF TypeInv, TypeOK, RowInv, OneNextActionPerProject
    <3>4. ASSUME NEW w \in nextAction', w # t, t \in nextAction', project'[w] = project'[t],
                 project'[t] # None
          PROVE  FALSE
      <4>1. Flags(r)
        BY <2>1, <3>4
      <4>2. w \in nextAction \ {t} /\ project[w] = NewProject(r)
        BY <2>3, <3>2, <3>4 DEF TypeInv, TypeOK
      <4> QED BY <1>2, <2>3, <3>4, <4>1, <4>2 DEF UpdateRefused, IndexConflict
    <3> QED BY <3>1, <3>3, <3>4
  <2>5. NoTodoInMissingProject'
    <3>1. NewProject(r) \in projects \cup {None}
      BY <1>2, <2>2 DEF UpdateRefused, NewProject, RowInv, NoTodoInMissingProject
    <3> QED BY <2>1, <2>3, <3>1 DEF RowInv, NoTodoInMissingProject
  <2>6. CompletedOnlyIfDone'
    <3>1. Completes(r) => NewStatus(r) = "DONE"
      BY DEF Completes, NewStatus, Keep, RowInv, CompletedOnlyIfDone
    <3> QED BY <2>1, <2>3, <3>1 DEF TypeInv, TypeOK, RowInv, CompletedOnlyIfDone
  <2> QED BY <2>4, <2>5, <2>6 DEF RowInv
<1> QED BY <1>1, <1>2

\* Removing rows keeps the invariant as long as the remaining ones stay in
\* their projects or leave them.
LEMMA RemoveTodosRows ==
  ASSUME TypeInv, RowInv, NEW gone, RemoveTodos(gone),
         \A t \in todos' : project'[t] \in {project[t], None},
         \A t \in todos' : project'[t] \in projects' \cup {None}
  PROVE  RowInv'
<1>1. todos' \subseteq todos /\ nextAction' \subseteq nextAction /\ nextAction' \subseteq todos'
  BY DEF RemoveTodos, TypeInv, TypeOK
<1>2. OneNextActionPerProject'
  BY <1>1 DEF RowInv, OneNextActionPerProject
<1>3. NoTodoInMissingProject'
  BY DEF NoTodoInMissingProject
<1>4. CompletedOnlyIfDone'
  BY DEF RemoveTodos, TypeInv, TypeOK, RowInv, CompletedOnlyIfDone
<1> QED BY <1>2, <1>3, <1>4 DEF RowInv

LEMMA DeleteTodoRows ==
  ASSUME TypeInv, RowInv, NEW r \in Request, DeleteTodo(r)
  PROVE  RowInv'
<1>1. RemoveTodos({call[r].todo})
  BY DEF DeleteTodo
<1>2. \A t \in todos' : project'[t] = project[t] /\ t \in todos
  BY <1>1 DEF DeleteTodo, RemoveTodos, TypeInv, TypeOK
<1>3. \A t \in todos' : project'[t] \in projects' \cup {None}
  BY <1>2 DEF DeleteTodo, RowInv, NoTodoInMissingProject
<1> QED BY <1>1, <1>2, <1>3, RemoveTodosRows

LEMMA DeleteProjectRows ==
  ASSUME TypeInv, RowInv, NEW p \in Project, DeleteProject(p)
  PROVE  RowInv'
<1>1. PICK gone : RemoveTodos(gone)
  BY DEF DeleteProject
<1>2. \A t \in todos' : /\ t \in todos
                        /\ project'[t] = IF project[t] = p THEN None ELSE project[t]
  BY <1>1 DEF DeleteProject, RemoveTodos, TypeInv, TypeOK
<1>3. \A t \in todos' : project'[t] \in projects' \cup {None}
  BY <1>2 DEF DeleteProject, RowInv, NoTodoInMissingProject
<1> QED BY <1>1, <1>2, <1>3, RemoveTodosRows

LEMMA NextRowInv == TypeInv /\ RowInv /\ [Next]_vars => RowInv'
<1> SUFFICES ASSUME TypeInv, RowInv, [Next]_vars PROVE RowInv'
  OBVIOUS
<1>1. ASSUME NEW r \in Request, BeginRequest(r) PROVE RowInv'
  <2>1. UNCHANGED rowVars
    BY <1>1 DEF BeginRequest, BeginCreateTodo, BeginUpdateTodo, BeginMarkTodoDone,
       BeginSetTodoNextAction, BeginDeleteTodo, BeginAddTodoDependency,
       BeginRemoveTodoDependency, Begin
  <2> QED BY <2>1, RowsUnchanged
<1>2. ASSUME NEW r \in Request, Execute(r) PROVE RowInv'
  <2>1. CASE GetForUpdate(r) \/ GetForNextAction(r) \/ CountIncompleteDependencies(r)
    BY <2>1, RowsUnchanged DEF GetForUpdate, GetForNextAction, CountIncompleteDependencies, Fail
  <2>2. CASE AddTodoDependency(r) \/ RemoveTodoDependency(r)
    BY <2>2, RowsUnchanged DEF AddTodoDependency, RemoveTodoDependency, Fail, RowInv,
       OneNextActionPerProject, NoTodoInMissingProject, CompletedOnlyIfDone
  <2> QED BY <1>2, <2>1, <2>2, InsertRows, ClearRows, UpdateRows, DeleteTodoRows DEF Execute
<1>3. ASSUME NEW r \in Request, Abort(r) PROVE RowInv'
  BY <1>3, RowsUnchanged DEF Abort, Fail
<1>4. ASSUME NEW p \in Project, DeleteProject(p) PROVE RowInv'
  BY <1>4, DeleteProjectRows
<1>5. CASE UNCHANGED vars
  BY <1>5, RowsUnchanged DEF vars, rowVars
<1> QED BY <1>1, <1>2, <1>3, <1>4, <1>5 DEF Next

LEMMA RowsCorrect == Spec => []RowInv
<1>1. Init => RowInv
  BY DEF Init, RowInv, OneNextActionPerProject, NoTodoInMissingProject, CompletedOnlyIfDone
<1> QED BY <1>1, InitTypeInv, NextTypeInv, NextRowInv, PTL DEF Spec

\* README.md, "Next action uniqueness per project": it holds whatever number
\* of requests sets, moves, creates and deletes todos concurrently, and
\* wherever they stop.
THEOREM NextActionUnique == Spec => []OneNextActionPerProject
<1>1. RowInv => OneNextActionPerProject
  BY DEF RowInv
<1> QED BY <1>1, RowsCorrect, PTL

\* A project id that a request read before deleteProject committed is never
\* written afterwards.
THEOREM TodosInLiveProjects == Spec => []NoTodoInMissingProject
<1>1. RowInv => NoTodoInMissingProject
  BY DEF RowInv
<1> QED BY <1>1, RowsCorrect, PTL

\* A completion time belongs to a todo that is DONE, also when a late BLOCKED
\* mark of addTodoDependency overwrites a concurrent markTodoDone.
THEOREM CompletionMatchesStatus == Spec => []CompletedOnlyIfDone
<1>1. RowInv => CompletedOnlyIfDone
  BY DEF RowInv
<1> QED BY <1>1, RowsCorrect, PTL

-----------------------------------------------------------------------------
(* Dependencies.                                                           *)

\* Request call c at statement s: only a client's own update gives a status
\* other than BLOCKED, and addTodoDependency changes nothing but the status.
Marks(s, c) ==
  /\ s \notin {"idle", "insert"} /\ c.status \notin {Keep, "BLOCKED"}
       => c.op \in {"updateTodo", "markTodoDone"}
  /\ s \in {"addDep", "countDeps"} => c.op = "addTodoDependency"
  /\ c.op = "addTodoDependency" =>
       /\ s \in {"addDep", "countDeps", "update"}
       /\ c.project = None /\ c.next = Keep
       /\ s = "update" => c.status = "BLOCKED"

MarkInv == \A r \in Request : Marks(pc[r], call[r])

\* Only request r has moved.
OnlyRequest(r) == \A q \in Request \ {r} : pc'[q] = pc[q] /\ call'[q] = call[q]

\* What DependentStaysBlocked says of a step.
StepExplained ==
  \A t \in Todo : LeftUnblocked(t)' =>
    LeftUnblocked(t) \/ StatusGiven(t) \/ DependencyReopened(t) \/ BlockingCutOff(t)

LEMMA ReturnMarks ==
  ASSUME TypeInv, NEW r \in Request, Return(r)
  PROVE  pc'[r] = "idle" /\ Marks(pc'[r], call'[r]) /\ OnlyRequest(r)
BY DEF Return, TypeInv, TypeOK, Marks, NoCall, OnlyRequest

LEMMA MarksKept ==
  ASSUME MarkInv, NEW r \in Request, Marks(pc'[r], call'[r]), OnlyRequest(r)
  PROVE  MarkInv'
BY DEF MarkInv, OnlyRequest

\* A todo that is left unblocked by a step which neither changes its status
\* nor ends a request that would have blocked it, and which did have an
\* incomplete dependency before, had been left unblocked before.
LEMMA StillUnblocked ==
  ASSUME NEW t, LeftUnblocked(t)', t \in todos, status'[t] = status[t], Incomplete(t) # {},
         \A r \in Request : WillBlock(r, t) => WillBlock(r, t)'
  PROVE  LeftUnblocked(t)
BY DEF LeftUnblocked

LEMMA OthersWillBlock ==
  ASSUME NEW r \in Request, OnlyRequest(r), NEW t, WillBlock(r, t) => WillBlock(r, t)'
  PROVE  \A q \in Request : WillBlock(q, t) => WillBlock(q, t)'
BY DEF OnlyRequest, WillBlock

\* A step of request r that keeps the statuses and adds no dependency.
LEMMA RowsKeptExplained ==
  ASSUME TypeInv, NEW r \in Request, OnlyRequest(r),
         todos' \subseteq todos, deps' \subseteq deps,
         \A t \in todos' : status'[t] = status[t],
         \A t \in todos' : Incomplete(t) # {} => ~WillBlock(r, t) \/ WillBlock(r, t)',
         \A d \in deps' : d[2] \in todos'
  PROVE  StepExplained
<1> SUFFICES ASSUME NEW t \in Todo, LeftUnblocked(t)'
             PROVE  LeftUnblocked(t)
  BY DEF StepExplained
<1>1. t \in todos' /\ t \in todos /\ status'[t] = status[t]
  BY DEF LeftUnblocked
<1>2. PICK d \in deps' : d[1] = t /\ status'[d[2]] # "DONE"
  BY DEF LeftUnblocked, Incomplete
<1>3. Incomplete(t) # {}
  BY <1>2 DEF Incomplete
<1> QED BY <1>1, <1>3, StillUnblocked, OthersWillBlock

\* A request that ends without having written a row, and has nobody to block.
LEMMA FailExplained ==
  ASSUME TypeInv, MarkInv, NEW r \in Request, Fail(r),
         \A t \in todos : Incomplete(t) # {} => ~WillBlock(r, t)
  PROVE  MarkInv' /\ StepExplained
<1>1. /\ Marks(pc'[r], call'[r]) /\ OnlyRequest(r)
      /\ UNCHANGED <<todos, deps, status>>
  BY ReturnMarks DEF Fail, rowVars
<1>2. \A d \in deps' : d[2] \in todos'
  BY <1>1 DEF TypeInv, TypeOK
<1> QED BY <1>1, <1>2, MarksKept, RowsKeptExplained

LEMMA BeginExplained ==
  ASSUME TypeInv, MarkInv, NEW r \in Request, BeginRequest(r)
  PROVE  MarkInv' /\ StepExplained
<1>1. SUFFICES ASSUME NEW c, NEW s, Begin(r, c, s), Marks(s, c)
               PROVE  MarkInv' /\ StepExplained
  <2>1. \A c \in Calls :
          /\ c \in Call
          /\ c.op \notin {"createTodo", "updateTodo"} => c.project = None /\ c.status = Keep
          /\ c.op \notin {"createTodo", "updateTodo", "setTodoNextAction"} => c.next = Keep
    BY CallsAssumption
  <2>2. CASE BeginMarkTodoDone(r)
    <3>1. PICK c \in Calls : /\ c.op = "markTodoDone"
                             /\ Begin(r, [c EXCEPT !.status = "DONE"], "update")
      BY <2>2 DEF BeginMarkTodoDone
    <3>2. [c EXCEPT !.status = "DONE"].op = "markTodoDone"
      BY <2>1, <3>1 DEF Call
    <3> QED BY <1>1, <3>1, <3>2 DEF Marks
  <2>3. CASE BeginUpdateTodo(r)
    BY <1>1, <2>3 DEF BeginUpdateTodo, Marks
  <2> QED BY <1>1, <2>1, <2>2, <2>3 DEF BeginRequest, BeginCreateTodo, BeginSetTodoNextAction,
             BeginDeleteTodo, BeginAddTodoDependency, BeginRemoveTodoDependency, Marks
<1>2. /\ pc[r] = "idle" /\ pc'[r] = s /\ call'[r] = c /\ OnlyRequest(r)
      /\ UNCHANGED <<todos, deps, status>>
  BY <1>1 DEF Begin, rowVars, TypeInv, TypeOK, OnlyRequest
<1>3. \A t : ~WillBlock(r, t)
  BY <1>2 DEF WillBlock
<1>4. \A d \in deps' : d[2] \in todos'
  BY <1>2 DEF TypeInv, TypeOK
<1> QED BY <1>1, <1>2, <1>3, <1>4, MarksKept, RowsKeptExplained

\* A new todo depends on nothing, and nothing depends on it.
LEMMA InsertExplained ==
  ASSUME TypeInv, MarkInv, NEW r \in Request, Insert(r)
  PROVE  MarkInv' /\ StepExplained
<1>1. pc[r] = "insert" /\ \A t : ~WillBlock(r, t)
  BY DEF Insert, WillBlock
<1>2. CASE Fail(r)
  BY <1>1, <1>2, FailExplained
<1>3. CASE ~Fail(r)
  <2>1. PICK u \in Todo \ used :
          /\ todos' = todos \cup {u}
          /\ status' = [status EXCEPT ![u] = IF call[r].status = Keep THEN "OPEN" ELSE call[r].status]
          /\ UNCHANGED deps
          /\ IF call[r].next = "set"
             THEN /\ pc' = [pc EXCEPT ![r] = "getForNextAction"]
                  /\ call' = [call EXCEPT ![r] = SetNextActionOf(u)]
                  /\ UNCHANGED clearIn
             ELSE Return(r)
    BY <1>3 DEF Insert
  <2>2. Marks(pc'[r], call'[r]) /\ OnlyRequest(r)
    <3>1. CASE call[r].next = "set"
      BY <2>1, <3>1 DEF TypeInv, TypeOK, Marks, SetNextActionOf, OnlyRequest
    <3>2. CASE call[r].next # "set"
      BY <2>1, <3>2, ReturnMarks
    <3> QED BY <3>1, <3>2
  <2>3. ASSUME NEW t \in Todo, LeftUnblocked(t)'
        PROVE  LeftUnblocked(t)
    <3>1. PICK d \in deps : d[1] = t /\ status'[d[2]] # "DONE"
      BY <2>1, <2>3 DEF LeftUnblocked, Incomplete
    <3>2. t \in todos /\ d[2] \in todos /\ t # u /\ d[2] # u
      BY <2>1, <3>1 DEF TypeInv, TypeOK
    <3>3. status'[t] = status[t] /\ status'[d[2]] = status[d[2]]
      BY <2>1, <3>2 DEF TypeInv, TypeOK
    <3>4. Incomplete(t) # {}
      BY <3>1, <3>3 DEF Incomplete
    <3> QED BY <1>1, <2>2, <2>3, <3>2, <3>3, <3>4, StillUnblocked, OthersWillBlock
  <2> QED BY <2>2, <2>3, MarksKept DEF StepExplained
<1> QED BY <1>2, <1>3

\* A read, or the clear of a project, on the way to an UPDATE.
LEMMA WayExplained ==
  ASSUME TypeInv, MarkInv, NEW r \in Request,
         GetForUpdate(r) \/ GetForNextAction(r) \/ ClearProjectNextActions(r)
  PROVE  MarkInv' /\ StepExplained
<1>1. /\ pc[r] \in {"getForUpdate", "getForNextAction", "clear"}
      /\ \A t : ~WillBlock(r, t)
  BY DEF GetForUpdate, GetForNextAction, ClearProjectNextActions, WillBlock
<1>2. CASE Fail(r)
  BY <1>1, <1>2, FailExplained
<1>3. CASE ~Fail(r)
  <2>1. /\ UNCHANGED <<todos, deps, status, call>>
        /\ pc'[r] \in {"update", "clear"} /\ OnlyRequest(r)
    <3>1. CASE GetForUpdate(r)
      BY <1>3, <3>1 DEF GetForUpdate, rowVars, TypeInv, TypeOK, OnlyRequest
    <3>2. CASE GetForNextAction(r)
      BY <1>3, <3>2 DEF GetForNextAction, rowVars, TypeInv, TypeOK, OnlyRequest
    <3>3. CASE ClearProjectNextActions(r)
      BY <3>3 DEF ClearProjectNextActions, Goto, TypeInv, TypeOK, OnlyRequest
    <3> QED BY <3>1, <3>2, <3>3
  <2>2. call[r].op # "addTodoDependency"
    BY <1>1 DEF MarkInv, Marks
  <2>3. Marks(pc'[r], call'[r])
    BY <1>1, <2>1, <2>2 DEF MarkInv, Marks
  <2>4. \A d \in deps' : d[2] \in todos'
    BY <2>1 DEF TypeInv, TypeOK
  <2> QED BY <1>1, <2>1, <2>3, <2>4, MarksKept, RowsKeptExplained
<1> QED BY <1>2, <1>3

\* The mark of addTodoDependency is not refused as long as its todo is there:
\* the flag that it writes back is the one that the index has admitted.
LEMMA UpdateExplained ==
  ASSUME TypeInv, RowInv, MarkInv, NEW r \in Request, Update(r)
  PROVE  MarkInv' /\ StepExplained
<1>1. pc[r] = "update" /\ Marks("update", call[r]) /\ Return(r)
  BY DEF Update, MarkInv, Fail
<1>2. CASE UpdateRefused(r)
  <2>1. ASSUME NEW t \in todos, WillBlock(r, t)
        PROVE  FALSE
    <3>1. call[r].todo = t /\ call[r].project = None /\ call[r].next = Keep
      BY <1>1, <2>1 DEF WillBlock, Marks
    <3>2. t \in nextAction /\ IndexConflict(t, project[t])
      BY <1>2, <3>1 DEF UpdateRefused, Flags, NewProject, Keep
    <3> QED BY <3>2 DEF IndexConflict, RowInv, OneNextActionPerProject
  <2>2. Fail(r)
    BY <1>2 DEF Update
  <2> QED BY <2>1, <2>2, FailExplained
<1>3. CASE ~UpdateRefused(r)
  <2> DEFINE u == call[r].todo
  <2>1. /\ u \in todos /\ u \in Todo /\ UNCHANGED <<todos, deps>>
        /\ status' = [status EXCEPT ![u] = NewStatus(r)]
    BY <1>3 DEF Update, UpdateRefused, TypeInv, TypeOK
  <2>2. pc'[r] = "idle" /\ Marks(pc'[r], call'[r]) /\ OnlyRequest(r)
    BY <1>1, ReturnMarks
  <2>3. status'[u] = NewStatus(r) /\ \A t \in Todo \ {u} : status'[t] = status[t]
    BY <2>1 DEF TypeInv, TypeOK
  <2>4. ASSUME NEW t \in Todo, LeftUnblocked(t)', ~DependencyReopened(t), ~StatusGiven(t)
        PROVE  LeftUnblocked(t)
    <3>1. t \in todos /\ status'[t] # "BLOCKED"
      BY <2>1, <2>4 DEF LeftUnblocked
    <3>2. status'[t] = status[t]
      <4>1. CASE t = u /\ call[r].status = Keep
        BY <2>3, <4>1 DEF NewStatus
      <4>2. CASE t = u /\ call[r].status # Keep
        <5>1. status'[t] = call[r].status
          BY <2>3, <4>2 DEF NewStatus
        <5>2. call[r].op \in {"updateTodo", "markTodoDone"}
          BY <1>1, <3>1, <4>2, <5>1 DEF Marks
        <5> QED BY <1>1, <2>2, <2>4, <4>2, <5>1, <5>2 DEF StatusGiven
      <4> QED BY <2>3, <4>1, <4>2
    <3>3. PICK d \in deps : d \in deps' /\ d[1] = t /\ status'[d[2]] # "DONE"
      BY <2>1, <2>4 DEF LeftUnblocked, Incomplete
    <3>4. Incomplete(t) # {}
      BY <2>4, <3>3 DEF Incomplete, DependencyReopened
    <3>5. ~WillBlock(r, t)
      BY <1>1, <2>3, <3>1 DEF WillBlock, Marks, NewStatus, Keep
    <3> QED BY <2>2, <2>4, <3>1, <3>2, <3>4, <3>5, StillUnblocked, OthersWillBlock
  <2> QED BY <2>2, <2>4, MarksKept DEF StepExplained
<1> QED BY <1>2, <1>3

\* Whoever inserts a dependency has the dependent todo to block, and the count
\* lets go of it only if it has no incomplete dependency.
LEMMA DependencyExplained ==
  ASSUME TypeInv, MarkInv, NEW r \in Request,
         AddTodoDependency(r) \/ CountIncompleteDependencies(r) \/ RemoveTodoDependency(r)
  PROVE  MarkInv' /\ StepExplained
<1>1. CASE AddTodoDependency(r)
  <2>1. pc[r] = "addDep" /\ \A t : ~WillBlock(r, t)
    BY <1>1 DEF AddTodoDependency, WillBlock
  <2>2. CASE Fail(r)
    BY <2>1, <2>2, FailExplained
  <2>3. CASE ~Fail(r)
    <3>1. /\ UNCHANGED <<todos, status, call>>
          /\ pc'[r] = "countDeps" /\ OnlyRequest(r)
          /\ deps' \subseteq deps \cup {<<call[r].todo, call[r].dep>>}
      BY <1>1, <2>3 DEF AddTodoDependency, Goto, TypeInv, TypeOK, OnlyRequest
    <3>2. Marks(pc'[r], call'[r]) /\ call[r].op = "addTodoDependency"
      BY <2>1, <3>1 DEF MarkInv, Marks
    <3>3. ASSUME NEW t \in Todo, LeftUnblocked(t)'
          PROVE  LeftUnblocked(t)
      <4>1. t # call[r].todo
        BY <3>1, <3>2, <3>3 DEF LeftUnblocked, WillBlock
      <4>2. PICK d \in deps' : d[1] = t /\ status'[d[2]] # "DONE"
        BY <3>3 DEF LeftUnblocked, Incomplete
      <4>3. d \in deps /\ status[d[2]] # "DONE"
        BY <3>1, <4>1, <4>2
      <4>4. Incomplete(t) # {}
        BY <4>2, <4>3 DEF Incomplete
      <4>5. t \in todos /\ status'[t] = status[t]
        BY <3>1, <3>3 DEF LeftUnblocked
      <4> QED BY <2>1, <3>1, <3>3, <4>4, <4>5, StillUnblocked, OthersWillBlock
    <3> QED BY <3>1, <3>2, <3>3, MarksKept DEF StepExplained
  <2> QED BY <2>2, <2>3
<1>2. CASE CountIncompleteDependencies(r)
  <2>1. UNCHANGED rowVars /\ pc[r] = "countDeps" /\ call[r] \in Call
    BY <1>2 DEF CountIncompleteDependencies, TypeInv, TypeOK
  <2>2. CASE Incomplete(call[r].todo) = {}
    <3>1. Fail(r)
      BY <1>2, <2>1, <2>2 DEF CountIncompleteDependencies, Fail
    <3> QED BY <2>2, <3>1, FailExplained DEF WillBlock
  <2>3. CASE Incomplete(call[r].todo) # {}
    <3>1. PICK c : c = [call[r] EXCEPT !.status = "BLOCKED"]
      OBVIOUS
    <3>2. pc' = [pc EXCEPT ![r] = "update"] /\ call' = [call EXCEPT ![r] = c]
      BY <1>2, <2>3, <3>1 DEF CountIncompleteDependencies
    <3>3. pc'[r] = "update" /\ call'[r] = c /\ OnlyRequest(r)
      BY <3>2 DEF TypeInv, TypeOK, OnlyRequest
    <3>4. /\ c.op = call[r].op /\ c.todo = call[r].todo /\ c.status = "BLOCKED"
          /\ c.project = call[r].project /\ c.next = call[r].next
      BY <2>1, <3>1 DEF Call
    <3>5. Marks(pc'[r], call'[r])
      BY <2>1, <3>3, <3>4 DEF MarkInv, Marks
    <3>6. \A t : WillBlock(r, t) => WillBlock(r, t)'
      BY <3>3, <3>4 DEF WillBlock
    <3>7. UNCHANGED <<todos, deps, status>> /\ \A d \in deps' : d[2] \in todos'
      BY <2>1 DEF rowVars, TypeInv, TypeOK
    <3> QED BY <3>3, <3>5, <3>6, <3>7, MarksKept, RowsKeptExplained
  <2> QED BY <2>2, <2>3
<1>3. CASE RemoveTodoDependency(r)
  <2>1. /\ Return(r) /\ UNCHANGED <<todos, status>> /\ deps' \subseteq deps
        /\ \A t : ~WillBlock(r, t)
    BY <1>3 DEF RemoveTodoDependency, WillBlock
  <2>2. \A d \in deps' : d[2] \in todos'
    BY <2>1 DEF TypeInv, TypeOK
  <2> QED BY <2>1, <2>2, ReturnMarks, MarksKept, RowsKeptExplained
<1> QED BY <1>1, <1>2, <1>3

\* With a todo go the dependencies on it.
LEMMA DeleteExplained ==
  ASSUME TypeInv, MarkInv
  PROVE  /\ \A r \in Request : DeleteTodo(r) => MarkInv' /\ StepExplained
         /\ \A p \in Project : DeleteProject(p) => MarkInv' /\ StepExplained
<1>1. ASSUME NEW gone, RemoveTodos(gone)
      PROVE  /\ todos' \subseteq todos /\ deps' \subseteq deps
             /\ \A t \in todos' : status'[t] = status[t]
             /\ \A d \in deps' : d[2] \in todos'
  BY <1>1 DEF RemoveTodos, TypeInv, TypeOK
<1>2. ASSUME NEW r \in Request, DeleteTodo(r)
      PROVE  MarkInv' /\ StepExplained
  <2>1. RemoveTodos({call[r].todo}) /\ Return(r) /\ \A t : ~WillBlock(r, t)
    BY <1>2 DEF DeleteTodo, WillBlock
  <2> QED BY <1>1, <2>1, ReturnMarks, MarksKept, RowsKeptExplained
<1>3. ASSUME NEW p \in Project, DeleteProject(p)
      PROVE  MarkInv' /\ StepExplained
  <2>1. PICK gone : RemoveTodos(gone)
    BY <1>3 DEF DeleteProject
  <2>2. UNCHANGED <<pc, call>>
    BY <1>3 DEF DeleteProject
  <2>3. \A t : \A r \in Request : WillBlock(r, t) => WillBlock(r, t)'
    BY <2>2 DEF WillBlock
  <2>4. ASSUME NEW t \in Todo, LeftUnblocked(t)'
        PROVE  LeftUnblocked(t)
    <3>1. PICK d \in deps' : d[1] = t /\ status'[d[2]] # "DONE"
      BY <2>4 DEF LeftUnblocked, Incomplete
    <3>2. t \in todos /\ status'[t] = status[t] /\ d \in deps /\ status[d[2]] # "DONE"
      BY <1>1, <2>1, <2>4, <3>1 DEF LeftUnblocked
    <3>3. Incomplete(t) # {}
      BY <3>1, <3>2 DEF Incomplete
    <3> QED BY <2>3, <2>4, <3>2, <3>3, StillUnblocked
  <2> QED BY <2>2, <2>4 DEF MarkInv, StepExplained
<1> QED BY <1>2, <1>3

\* A request that is cut off at the count or at the mark is the explanation.
LEMMA AbortExplained ==
  ASSUME TypeInv, MarkInv, NEW r \in Request, Abort(r)
  PROVE  MarkInv' /\ StepExplained
<1>1. r \in Abortable /\ Fail(r) /\ UNCHANGED rowVars
  BY DEF Abort, Fail
<1>2. pc'[r] = "idle" /\ Marks(pc'[r], call'[r]) /\ OnlyRequest(r)
  BY <1>1, ReturnMarks DEF Fail
<1>3. ASSUME NEW t \in Todo, LeftUnblocked(t)', ~BlockingCutOff(t)
      PROVE  LeftUnblocked(t)
  <2>1. ~WillBlock(r, t)
    BY <1>1, <1>2, <1>3 DEF BlockingCutOff
  <2>2. t \in todos /\ status'[t] = status[t] /\ Incomplete(t) # {}
    BY <1>1, <1>3 DEF LeftUnblocked, Incomplete, rowVars
  <2> QED BY <1>2, <1>3, <2>1, <2>2, StillUnblocked, OthersWillBlock
<1> QED BY <1>2, <1>3, MarksKept DEF StepExplained

LEMMA NextExplained ==
  ASSUME TypeInv, RowInv, MarkInv, [Next]_vars
  PROVE  MarkInv' /\ StepExplained
<1>1. ASSUME NEW r \in Request, Execute(r)
      PROVE  MarkInv' /\ StepExplained
  BY <1>1, InsertExplained, WayExplained, UpdateExplained, DependencyExplained,
     DeleteExplained DEF Execute
<1>2. CASE UNCHANGED vars
  BY <1>2 DEF vars, MarkInv, StepExplained, LeftUnblocked, Incomplete, WillBlock
<1> QED BY <1>1, <1>2, BeginExplained, AbortExplained, DeleteExplained DEF Next

\* Whatever clients complete, reopen, move, flag and delete meanwhile, and
\* wherever requests stop: a todo is left with an incomplete dependency and not
\* BLOCKED only by its own new status, by a dependency that is reopened, or by
\* an addTodoDependency that is cut off between its commits.
THEOREM DependentBlocked == Spec => DependentStaysBlocked
<1> DEFINE Explained ==
      \A t \in Todo : LeftUnblocked(t)' =>
        \/ LeftUnblocked(t)
        \/ StatusGiven(t)
        \/ DependencyReopened(t)
        \/ BlockingCutOff(t)
<1>1. Init => MarkInv
  BY DEF Init, MarkInv, Marks, NoCall, Keep
<1>2. TypeInv /\ RowInv /\ MarkInv /\ [Next]_vars => MarkInv'
  BY NextExplained
<1>3. TypeInv /\ RowInv /\ MarkInv /\ [Next]_vars => [Explained]_vars
  BY NextExplained DEF StepExplained
<1> QED BY <1>1, <1>2, <1>3, InitTypeInv, NextTypeInv, RowsCorrect, PTL
     DEF Spec, DependentStaysBlocked
=============================================================================
