--------------------------- MODULE NextActionProofs ---------------------------
(***************************************************************************)
(* Proofs about the two-step change of the next action (clear the project, *)
(* then set the flag) of module Todos: what it guarantees when requests do *)
(* not overlap, and what survives when they do.                            *)
(***************************************************************************)
EXTENDS TodosProofs

-----------------------------------------------------------------------------
(* Requests one after the other.                                           *)

OneRequest == \A r, s \in Request : r = s

\* What a request has fixed on its way to the UPDATE that sets the flag.
WayToUpdate ==
  \A r \in Request :
    /\ pc[r] = "getForNextAction" => call[r].project = None
    /\ pc[r] \in {"addDep", "countDeps"} => call[r].next = Keep
    /\ pc[r] = "clear" /\ call[r].todo \in todos => NewProject(r) \in {clearIn[r], None}

SequentialInv == WayToUpdate /\ SetterFindsProjectFree

LEMMA BeginSequential ==
  ASSUME TypeInv, SequentialInv, NEW r \in Request, BeginRequest(r), OneRequest
  PROVE  SequentialInv'
<1>1. SUFFICES ASSUME NEW c, NEW s, Begin(r, c, s), s # "clear",
                      s = "getForNextAction" => c.project = None,
                      s \in {"addDep", "countDeps"} => c.next = Keep,
                      s = "update" => c.next # "set"
               PROVE  SequentialInv'
  <2>1. CASE BeginMarkTodoDone(r)
    <3>1. PICK c \in Calls : /\ c.op = "markTodoDone"
                             /\ Begin(r, [c EXCEPT !.status = "DONE"], "update")
      BY <2>1 DEF BeginMarkTodoDone
    <3>2. c.next = Keep /\ c \in Call
      BY <3>1, CallsAssumption
    <3> DEFINE d == [c EXCEPT !.status = "DONE"]
    <3>3. d.next # "set"
      BY <3>2 DEF Call, Keep
    <3> HIDE DEF d
    <3>4. Begin(r, d, "update")
      BY <3>1 DEF d
    <3> QED BY <1>1, <3>3, <3>4
  <2>2. CASE ~BeginMarkTodoDone(r)
    BY <1>1, <2>2, CallsAssumption DEF BeginRequest, BeginCreateTodo, BeginUpdateTodo,
       BeginSetTodoNextAction, BeginDeleteTodo, BeginAddTodoDependency,
       BeginRemoveTodoDependency
  <2> QED BY <2>1, <2>2
<1>2. pc'[r] = s /\ call'[r] = c
  BY <1>1 DEF Begin, TypeInv, TypeOK
<1>3. \A q \in Request : q = r
  BY DEF OneRequest
<1> QED BY <1>1, <1>2, <1>3 DEF SequentialInv, WayToUpdate, SetterFindsProjectFree

LEMMA IdleSequential ==
  ASSUME TypeInv, NEW r \in Request, Return(r), OneRequest
  PROVE  SequentialInv'
<1>1. pc'[r] = "idle"
  BY DEF Return, TypeInv, TypeOK
<1>2. \A q \in Request : q = r
  BY DEF OneRequest
<1> QED BY <1>1, <1>2 DEF SequentialInv, WayToUpdate, SetterFindsProjectFree

\* A statement after which the request is neither about to clear nor about to
\* set the flag.
LEMMA ElsewhereSequential ==
  ASSUME TypeInv, NEW r \in Request, OneRequest, pc'[r] \notin {"clear", "update"},
         pc'[r] = "getForNextAction" => call'[r].project = None,
         pc'[r] \in {"addDep", "countDeps"} => call'[r].next = Keep
  PROVE  SequentialInv'
<1>1. \A q \in Request : q = r
  BY DEF OneRequest
<1> QED BY <1>1 DEF SequentialInv, WayToUpdate, SetterFindsProjectFree

LEMMA ReadSequential ==
  ASSUME TypeInv, SequentialInv, NEW r \in Request, OneRequest,
         GetForUpdate(r) \/ GetForNextAction(r)
  PROVE  SequentialInv'
<1>1. CASE Fail(r)
  BY <1>1, IdleSequential DEF Fail
<1>2. CASE ~Fail(r)
  <2> DEFINE q == clearIn'[r]
  <2>1. /\ UNCHANGED <<todos, project, nextAction, call>>
        /\ call[r].next = "set" => q = NewProject(r)
        /\ pc'[r] = IF q = None THEN "update" ELSE "clear"
        /\ q # None => call[r].next = "set" \/ GetForUpdate(r)
    <3>1. CASE GetForUpdate(r)
      BY <1>2, <3>1 DEF GetForUpdate, NewProject, TypeInv, TypeOK, rowVars
    <3>2. CASE GetForNextAction(r)
      <4>1. call[r].project = None
        BY <3>2 DEF GetForNextAction, SequentialInv, WayToUpdate
      <4> QED BY <1>2, <3>2, <4>1 DEF GetForNextAction, NewProject, TypeInv, TypeOK, rowVars
    <3> QED BY <3>1, <3>2
  <2>2. CASE q = None
    BY <2>1, <2>2 DEF OneRequest, SequentialInv, WayToUpdate, SetterFindsProjectFree,
       IndexConflict, NewProject
  <2>3. CASE q # None
    <3>1. q = NewProject(r)
      <4>1. CASE GetForUpdate(r)
        BY <1>2, <4>1 DEF GetForUpdate, NewProject, TypeInv, TypeOK
      <4>2. CASE ~GetForUpdate(r)
        BY <2>1, <2>3, <4>2
      <4> QED BY <4>1, <4>2
    <3>2. NewProject(r)' = NewProject(r)
      BY <2>1 DEF NewProject
    <3> QED BY <2>1, <2>3, <3>1, <3>2 DEF OneRequest, SequentialInv, WayToUpdate,
            SetterFindsProjectFree
  <2> QED BY <2>2, <2>3
<1> QED BY <1>1, <1>2

\* The clear leaves the flag to no other todo of the project that the UPDATE
\* is going to write.
LEMMA ClearSequential ==
  ASSUME TypeInv, SequentialInv, NEW r \in Request, OneRequest, ClearProjectNextActions(r)
  PROVE  SequentialInv'
<1>1. /\ UNCHANGED <<todos, project, call, clearIn>>
      /\ nextAction' = {t \in nextAction : project[t] # clearIn[r] \/ t = call[r].todo}
      /\ pc'[r] = "update"
  BY DEF ClearProjectNextActions, Goto, TypeInv, TypeOK
<1>2. NewProject(r)' = NewProject(r)
  BY <1>1 DEF NewProject
<1>3. call[r].todo \in todos => NewProject(r) \in {clearIn[r], None}
  BY DEF ClearProjectNextActions, SequentialInv, WayToUpdate
<1>4. call[r].todo \in todos' => ~IndexConflict(call[r].todo, NewProject(r))'
  BY <1>1, <1>2, <1>3 DEF IndexConflict
<1> QED BY <1>1, <1>4 DEF OneRequest, SequentialInv, WayToUpdate, SetterFindsProjectFree

LEMMA CountSequential ==
  ASSUME TypeInv, SequentialInv, NEW r \in Request, OneRequest,
         CountIncompleteDependencies(r)
  PROVE  SequentialInv'
<1>1. CASE Return(r)
  BY <1>1, IdleSequential
<1>2. CASE ~Return(r)
  <2>1. call[r].next = Keep /\ call[r] \in Call
    BY DEF CountIncompleteDependencies, SequentialInv, WayToUpdate, TypeInv, TypeOK
  <2> DEFINE c == [call[r] EXCEPT !.status = "BLOCKED"]
  <2>2. c.next # "set"
    BY <2>1 DEF Call, Keep
  <2>3. pc' = [pc EXCEPT ![r] = "update"] /\ call' = [call EXCEPT ![r] = c]
    BY <1>2 DEF CountIncompleteDependencies
  <2> HIDE DEF c
  <2>4. pc'[r] = "update" /\ call'[r].next # "set"
    BY <2>2, <2>3 DEF TypeInv, TypeOK
  <2> QED BY <2>4 DEF OneRequest, SequentialInv, WayToUpdate, SetterFindsProjectFree
<1> QED BY <1>1, <1>2

\* deleteProject, which runs beside the request, only takes todos out of
\* projects.
LEMMA DeleteProjectSequential ==
  ASSUME TypeInv, SequentialInv, NEW p \in Project, DeleteProject(p)
  PROVE  SequentialInv'
<1>1. /\ UNCHANGED <<pc, call, clearIn>>
      /\ todos' \subseteq todos
      /\ nextAction' \subseteq nextAction
      /\ \A t \in Todo : project'[t] \in {project[t], None}
  BY DEF DeleteProject, RemoveTodos, TypeInv, TypeOK
<1>2. SUFFICES ASSUME NEW r \in Request, call[r].todo \in todos'
               PROVE  /\ NewProject(r)' \in {NewProject(r), None}
                      /\ IndexConflict(call[r].todo, NewProject(r))'
                           => IndexConflict(call[r].todo, NewProject(r))
  BY <1>1 DEF SequentialInv, WayToUpdate, SetterFindsProjectFree
<1>3. call[r].todo \in Todo
  BY <1>1, <1>2 DEF TypeInv, TypeOK
<1>4. NewProject(r)' \in {NewProject(r), None}
  BY <1>1, <1>3 DEF NewProject
<1>5. nextAction \subseteq Todo
  BY DEF TypeInv, TypeOK
<1> QED BY <1>1, <1>4, <1>5 DEF IndexConflict

LEMMA NextSequential == OneRequest /\ TypeInv /\ SequentialInv /\ [Next]_vars => SequentialInv'
<1> SUFFICES ASSUME OneRequest, TypeInv, SequentialInv, [Next]_vars PROVE SequentialInv'
  OBVIOUS
<1>1. ASSUME NEW r \in Request, Execute(r) PROVE SequentialInv'
  <2>1. CASE Insert(r)
    <3>1. CASE Return(r)
      BY <3>1, IdleSequential
    <3>2. CASE ~Return(r)
      <4>1. PICK t : /\ pc' = [pc EXCEPT ![r] = "getForNextAction"]
                     /\ call' = [call EXCEPT ![r] = SetNextActionOf(t)]
        BY <2>1, <3>2 DEF Insert, Fail
      <4>2. pc'[r] = "getForNextAction" /\ call'[r].project = None
        BY <4>1 DEF TypeInv, TypeOK, SetNextActionOf
      <4> QED BY <4>2, ElsewhereSequential
    <3> QED BY <3>1, <3>2
  <2>2. CASE AddTodoDependency(r)
    <3>1. CASE Return(r)
      BY <3>1, IdleSequential
    <3>2. CASE ~Return(r)
      <4>1. pc'[r] = "countDeps" /\ call' = call /\ pc[r] = "addDep"
        BY <2>2, <3>2 DEF AddTodoDependency, Fail, Goto, TypeInv, TypeOK
      <4>2. call'[r].next = Keep
        BY <4>1 DEF SequentialInv, WayToUpdate
      <4> QED BY <4>1, <4>2, ElsewhereSequential
    <3> QED BY <3>1, <3>2
  <2>3. CASE Update(r) \/ DeleteTodo(r) \/ RemoveTodoDependency(r)
    BY <2>3, IdleSequential DEF Update, DeleteTodo, RemoveTodoDependency, Fail
  <2> QED BY <1>1, <2>1, <2>2, <2>3, ReadSequential, ClearSequential, CountSequential DEF Execute
<1>2. ASSUME NEW r \in Request, Abort(r) PROVE SequentialInv'
  BY <1>2, IdleSequential DEF Abort, Fail
<1>3. CASE UNCHANGED vars
  BY <1>3 DEF vars, SequentialInv, WayToUpdate, SetterFindsProjectFree, NewProject, IndexConflict
<1> QED BY <1>1, <1>2, <1>3, BeginSequential, DeleteProjectSequential DEF Next

\* When requests do not overlap (deleteProject may still commit between their
\* statements, and they may stop anywhere), the unique index never refuses
\* the UPDATE of setTodoNextAction, updateTodo or createTodo that sets the
\* next action.
THEOREM SetterNeverRefused ==
  ASSUME OneRequest
  PROVE  Spec => []SetterFindsProjectFree
<1>1. Init => SequentialInv
  BY DEF Init, SequentialInv, WayToUpdate, SetterFindsProjectFree
<1>2. TypeInv /\ SequentialInv /\ [Next]_vars => SequentialInv'
  BY NextSequential
<1>3. SequentialInv => SetterFindsProjectFree
  BY DEF SequentialInv
<1> QED BY <1>1, <1>2, <1>3, InitTypeInv, NextTypeInv, PTL DEF Spec

-----------------------------------------------------------------------------
(* Overlapping requests.                                                   *)

\* Nothing that takes the next action of a project away on purpose, and no
\* request that stops half way.
OnlyHandovers ==
  /\ Abortable = {}
  /\ Deletable = {}
  /\ \A c \in Calls : /\ c.op # "deleteTodo"
                      /\ c.op = "updateTodo" => c.project = None
                      /\ c.next # "unset"

\* Under OnlyHandovers a request that cleared its project still finds its todo
\* there.
HandoverInv ==
  \A r \in Request :
    /\ pc[r] # "delete"
    /\ call[r].next # "unset"
    /\ pc[r] # "insert" => call[r].project = None
    /\ pc[r] \in {"addDep", "countDeps"} => call[r].next = Keep
    /\ pc[r] = "getForUpdate" => call[r].next = "set"
    /\ pc[r] = "clear" => call[r].next = "set"
    /\ pc[r] \in {"clear", "update"} /\ clearIn[r] # None =>
         call[r].todo \in todos /\ project[call[r].todo] = clearIn[r]

\* No row disappears or changes its project.
RowsStay == todos \subseteq todos' /\ \A t \in todos : project'[t] = project[t]

\* It is enough to look at the request that takes the step.
LEMMA OtherRequestsHandover ==
  ASSUME TypeInv, HandoverInv, NEW r \in Request, RowsStay,
         \A q \in Request \ {r} : /\ pc'[q] = pc[q]
                                  /\ call'[q] = call[q]
                                  /\ clearIn'[q] = clearIn[q],
         /\ pc'[r] # "delete"
         /\ call'[r].next # "unset"
         /\ pc'[r] # "insert" => call'[r].project = None
         /\ pc'[r] \in {"addDep", "countDeps"} => call'[r].next = Keep
         /\ pc'[r] = "getForUpdate" => call'[r].next = "set"
         /\ pc'[r] = "clear" => call'[r].next = "set"
         /\ pc'[r] \in {"clear", "update"} /\ clearIn'[r] # None =>
              call'[r].todo \in todos' /\ project'[call'[r].todo] = clearIn'[r]
  PROVE  HandoverInv'
BY DEF HandoverInv, RowsStay

\* An idle request has no project to clear.
IdleClears == \A r \in Request : pc[r] \notin {"clear", "update"} => clearIn[r] = None

LEMMA NextIdleClears == TypeInv /\ IdleClears /\ [Next]_vars => IdleClears'
<1> SUFFICES ASSUME TypeInv, IdleClears, [Next]_vars PROVE IdleClears'
  OBVIOUS
<1> USE DEF IdleClears
<1>1. ASSUME NEW r \in Request, Return(r) PROVE IdleClears'
  BY <1>1 DEF Return, TypeInv, TypeOK
<1>2. ASSUME NEW r \in Request, BeginRequest(r) PROVE IdleClears'
  <2>1. UNCHANGED clearIn /\ pc[r] = "idle" /\ \E s : pc' = [pc EXCEPT ![r] = s]
    BY <1>2 DEF BeginRequest, BeginCreateTodo, BeginUpdateTodo, BeginMarkTodoDone,
       BeginSetTodoNextAction, BeginDeleteTodo, BeginAddTodoDependency,
       BeginRemoveTodoDependency, Begin
  <2> QED BY <2>1 DEF TypeInv, TypeOK
<1>3. ASSUME NEW r \in Request, Execute(r) PROVE IdleClears'
  <2>1. CASE Insert(r) \/ AddTodoDependency(r) \/ CountIncompleteDependencies(r)
    BY <1>1, <2>1 DEF Insert, AddTodoDependency, CountIncompleteDependencies, Fail, Goto,
       TypeInv, TypeOK
  <2>2. CASE GetForUpdate(r) \/ GetForNextAction(r) \/ ClearProjectNextActions(r)
    BY <1>1, <2>2 DEF GetForUpdate, GetForNextAction, ClearProjectNextActions, Fail, Goto,
       TypeInv, TypeOK
  <2>3. CASE Update(r) \/ DeleteTodo(r) \/ RemoveTodoDependency(r)
    BY <1>1, <2>3 DEF Update, DeleteTodo, RemoveTodoDependency, Fail
  <2> QED BY <1>3, <2>1, <2>2, <2>3 DEF Execute
<1>4. CASE (\E p \in Project : DeleteProject(p)) \/ UNCHANGED vars
  BY <1>4 DEF DeleteProject, vars
<1> QED BY <1>1, <1>2, <1>3, <1>4 DEF Next, Abort, Fail

LEMMA BeginHandover ==
  ASSUME OnlyHandovers, TypeInv, IdleClears, HandoverInv, NEW r \in Request, BeginRequest(r)
  PROVE  HandoverInv' /\ RowsStay /\ UNCHANGED <<project, nextAction>>
<1>1. SUFFICES ASSUME NEW c, NEW s, Begin(r, c, s), s # "clear", s # "delete",
                      c.next # "unset",
                      s # "insert" => c.project = None,
                      s \in {"addDep", "countDeps"} => c.next = Keep,
                      s = "getForUpdate" => c.next = "set"
               PROVE  HandoverInv' /\ RowsStay /\ UNCHANGED <<project, nextAction>>
  <2>1. CASE BeginMarkTodoDone(r)
    <3>1. PICK c \in Calls : /\ c.op = "markTodoDone"
                             /\ Begin(r, [c EXCEPT !.status = "DONE"], "update")
      BY <2>1 DEF BeginMarkTodoDone
    <3>2. c.next = Keep /\ c.project = None /\ c \in Call
      BY <3>1, CallsAssumption
    <3> DEFINE d == [c EXCEPT !.status = "DONE"]
    <3>3. d.next = Keep /\ d.project = None
      BY <3>2 DEF Call
    <3> HIDE DEF d
    <3>4. Begin(r, d, "update")
      BY <3>1 DEF d
    <3> QED BY <1>1, <3>3, <3>4 DEF Keep
  <2>2. CASE BeginUpdateTodo(r)
    <3>1. PICK c \in Calls : /\ c.op = "updateTodo"
                             /\ Begin(r, c, IF c.next = "set" THEN "getForUpdate" ELSE "update")
      BY <2>2 DEF BeginUpdateTodo
    <3>2. c.project = None /\ c.next # "unset"
      BY <3>1 DEF OnlyHandovers
    <3> QED BY <1>1, <3>1, <3>2
  <2>3. CASE ~BeginMarkTodoDone(r) /\ ~BeginUpdateTodo(r)
    BY <1>1, <2>3, CallsAssumption DEF BeginRequest, BeginCreateTodo, OnlyHandovers, Keep,
       BeginSetTodoNextAction, BeginDeleteTodo, BeginAddTodoDependency,
       BeginRemoveTodoDependency
  <2> QED BY <2>1, <2>2, <2>3
<1>2. pc'[r] = s /\ call'[r] = c /\ clearIn'[r] = None
  BY <1>1 DEF Begin, TypeInv, TypeOK, IdleClears
<1>3. RowsStay /\ UNCHANGED <<project, nextAction>>
  BY <1>1 DEF Begin, rowVars, RowsStay
<1>4. \A q \in Request \ {r} : /\ pc'[q] = pc[q]
                               /\ call'[q] = call[q]
                               /\ clearIn'[q] = clearIn[q]
  BY <1>1 DEF Begin, TypeInv, TypeOK
<1> QED BY <1>1, <1>2, <1>3, <1>4, OtherRequestsHandover

LEMMA ReturnHandover ==
  ASSUME TypeInv, HandoverInv, NEW r \in Request, Return(r), RowsStay
  PROVE  HandoverInv'
<1>1. pc'[r] = "idle" /\ call'[r] = NoCall
  BY DEF Return, TypeInv, TypeOK
<1>2. \A q \in Request \ {r} : /\ pc'[q] = pc[q]
                               /\ call'[q] = call[q]
                               /\ clearIn'[q] = clearIn[q]
  BY DEF Return, TypeInv, TypeOK
<1>3. call'[r].next # "unset" /\ call'[r].project = None
  BY <1>1 DEF NoCall, Keep
<1> QED BY <1>1, <1>2, <1>3, OtherRequestsHandover

LEMMA FailHandover ==
  ASSUME TypeInv, HandoverInv, NEW r \in Request, Fail(r)
  PROVE  HandoverInv' /\ RowsStay /\ UNCHANGED <<project, nextAction>>
<1>1. Return(r) /\ RowsStay /\ UNCHANGED <<project, nextAction>>
  BY DEF Fail, rowVars, RowsStay
<1> QED BY <1>1, ReturnHandover

LEMMA InsertHandover ==
  ASSUME TypeInv, IdleClears, HandoverInv, NEW r \in Request, Insert(r)
  PROVE  HandoverInv' /\ RowsStay /\ UNCHANGED nextAction
<1>1. CASE Fail(r)
  BY <1>1, FailHandover
<1>2. CASE ~Fail(r)
  <2>1. PICK t \in Todo \ used :
          /\ todos' = todos \cup {t}
          /\ project' = [project EXCEPT ![t] = call[r].project]
          /\ UNCHANGED nextAction
          /\ IF call[r].next = "set"
             THEN /\ pc' = [pc EXCEPT ![r] = "getForNextAction"]
                  /\ call' = [call EXCEPT ![r] = SetNextActionOf(t)]
                  /\ UNCHANGED clearIn
             ELSE Return(r)
    BY <1>2 DEF Insert
  <2>2. RowsStay
    BY <2>1 DEF RowsStay, TypeInv, TypeOK
  <2>3. CASE call[r].next = "set"
    <3>1. pc'[r] = "getForNextAction" /\ call'[r] = SetNextActionOf(t)
      BY <2>1, <2>3 DEF TypeInv, TypeOK
    <3>2. \A q \in Request \ {r} : /\ pc'[q] = pc[q]
                                   /\ call'[q] = call[q]
                                   /\ clearIn'[q] = clearIn[q]
      BY <2>1, <2>3 DEF TypeInv, TypeOK
    <3> QED BY <2>1, <2>2, <3>1, <3>2, OtherRequestsHandover DEF SetNextActionOf
  <2>4. CASE call[r].next # "set"
    BY <2>1, <2>2, <2>4, ReturnHandover
  <2> QED BY <2>1, <2>2, <2>3, <2>4
<1> QED BY <1>1, <1>2

LEMMA ReadHandover ==
  ASSUME TypeInv, IdleClears, HandoverInv, NEW r \in Request,
         GetForUpdate(r) \/ GetForNextAction(r)
  PROVE  HandoverInv' /\ RowsStay /\ UNCHANGED <<project, nextAction>>
<1>1. CASE Fail(r)
  BY <1>1, FailHandover
<1>2. CASE ~Fail(r)
  <2>1. call[r].project = None /\ call[r].next # "unset"
    BY DEF HandoverInv, GetForUpdate, GetForNextAction
  <2>2. /\ call[r].todo \in todos
        /\ clearIn'[r] \in {None, project[call[r].todo]}
        /\ pc'[r] = IF clearIn'[r] = None THEN "update" ELSE "clear"
        /\ clearIn'[r] # None => call[r].next = "set"
        /\ UNCHANGED <<rowVars, call>>
    <3>1. CASE GetForUpdate(r)
      BY <1>2, <2>1, <3>1 DEF GetForUpdate, TypeInv, TypeOK, HandoverInv
    <3>2. CASE GetForNextAction(r)
      BY <1>2, <2>1, <3>2 DEF GetForNextAction, TypeInv, TypeOK
    <3> QED BY <3>1, <3>2
  <2>3. \A q \in Request \ {r} : pc'[q] = pc[q] /\ clearIn'[q] = clearIn[q]
    BY <1>2 DEF GetForUpdate, GetForNextAction, TypeInv, TypeOK
  <2>4. RowsStay /\ UNCHANGED <<project, nextAction, todos>>
    BY <2>2 DEF rowVars, RowsStay
  <2> QED BY <2>1, <2>2, <2>3, <2>4, OtherRequestsHandover
<1> QED BY <1>1, <1>2

LEMMA ClearHandover ==
  ASSUME TypeInv, HandoverInv, NEW r \in Request, ClearProjectNextActions(r)
  PROVE  /\ HandoverInv' /\ RowsStay /\ UNCHANGED <<project, call, clearIn>>
         /\ pc'[r] = "update" /\ call[r].next = "set"
<1>1. /\ UNCHANGED <<todos, project, call, clearIn>>
      /\ pc'[r] = "update"
      /\ \A q \in Request \ {r} : pc'[q] = pc[q]
      /\ pc[r] = "clear"
  BY DEF ClearProjectNextActions, Goto, TypeInv, TypeOK
<1>2. RowsStay
  BY <1>1 DEF RowsStay
<1>3. /\ call[r].next = "set" /\ call[r].project = None
      /\ clearIn[r] # None => call[r].todo \in todos /\ project[call[r].todo] = clearIn[r]
  BY <1>1 DEF HandoverInv
<1> QED BY <1>1, <1>2, <1>3, OtherRequestsHandover

LEMMA UpdateHandover ==
  ASSUME TypeInv, HandoverInv, NEW r \in Request, Update(r)
  PROVE  /\ HandoverInv' /\ RowsStay /\ Return(r)
         /\ nextAction \subseteq nextAction'
         /\ UNCHANGED project
         /\ ~UpdateRefused(r) /\ call[r].next = "set" => call[r].todo \in nextAction'
<1>1. CASE UpdateRefused(r)
  BY <1>1, FailHandover DEF Update, Fail
<1>2. CASE ~UpdateRefused(r)
  <2>1. call[r].project = None /\ call[r].next # "unset" /\ call[r] \in Call
    BY DEF Update, HandoverInv, TypeInv, TypeOK
  <2>2. UNCHANGED project
    BY <1>2, <2>1 DEF Update, NewProject, UpdateRefused, TypeInv, TypeOK
  <2>3. call[r].todo \in nextAction => Flags(r)
    BY <2>1 DEF Flags, Call
  <2>4. nextAction \subseteq nextAction'
    BY <1>2, <2>3 DEF Update
  <2>5. call[r].next = "set" => call[r].todo \in nextAction'
    BY <1>2 DEF Update, Flags
  <2>6. Return(r) /\ RowsStay
    BY <1>2, <2>2 DEF Update, RowsStay
  <2> QED BY <1>2, <2>2, <2>4, <2>5, <2>6, ReturnHandover
<1> QED BY <1>1, <1>2

LEMMA DependencyHandover ==
  ASSUME TypeInv, HandoverInv, IdleClears, NEW r \in Request,
         \/ AddTodoDependency(r)
         \/ CountIncompleteDependencies(r)
         \/ RemoveTodoDependency(r)
  PROVE  HandoverInv' /\ RowsStay /\ UNCHANGED <<project, nextAction>>
<1>1. UNCHANGED <<todos, project, nextAction>>
  BY DEF AddTodoDependency, CountIncompleteDependencies, RemoveTodoDependency, Fail, rowVars
<1>2. RowsStay
  BY <1>1 DEF RowsStay
<1>3. CASE Return(r)
  BY <1>1, <1>2, <1>3, ReturnHandover
<1>4. CASE ~Return(r)
  <2>1. call[r].next = Keep /\ call[r].project = None /\ clearIn[r] = None /\ call[r] \in Call
    BY <1>4 DEF AddTodoDependency, CountIncompleteDependencies, RemoveTodoDependency,
       HandoverInv, IdleClears, TypeInv, TypeOK
  <2>2. CASE AddTodoDependency(r)
    <3>1. /\ pc'[r] = "countDeps" /\ UNCHANGED <<call, clearIn>>
          /\ \A q \in Request \ {r} : pc'[q] = pc[q]
      BY <1>4, <2>2 DEF AddTodoDependency, Fail, Goto, TypeInv, TypeOK
    <3> QED BY <1>1, <1>2, <2>1, <3>1, OtherRequestsHandover DEF Keep
  <2>3. CASE CountIncompleteDependencies(r)
    <3> DEFINE c == [call[r] EXCEPT !.status = "BLOCKED"]
    <3>1. c.next = Keep /\ c.project = None
      BY <2>1 DEF Call
    <3>2. pc' = [pc EXCEPT ![r] = "update"] /\ call' = [call EXCEPT ![r] = c]
          /\ UNCHANGED clearIn
      BY <1>4, <2>3 DEF CountIncompleteDependencies
    <3> HIDE DEF c
    <3>3. /\ pc'[r] = "update" /\ call'[r] = c /\ clearIn'[r] = None
          /\ \A q \in Request \ {r} : pc'[q] = pc[q] /\ call'[q] = call[q]
      BY <2>1, <3>2 DEF TypeInv, TypeOK
    <3> QED BY <1>1, <1>2, <3>1, <3>2, <3>3, OtherRequestsHandover DEF Keep
  <2> QED BY <1>4, <2>2, <2>3 DEF RemoveTodoDependency
<1> QED BY <1>3, <1>4

\* No step takes the next action from a project without a request that is
\* about to give it one.
LEMMA StepHandsOver ==
  ASSUME OnlyHandovers, TypeInv, IdleClears, HandoverInv, Next
  PROVE  /\ HandoverInv'
         /\ \A p \in Project :
              HasNextAction(p) \/ HandingOver(p) => HasNextAction(p)' \/ HandingOver(p)'
<1> DEFINE Held(p) == HasNextAction(p) \/ HandingOver(p)
\* A step of r that keeps every flag, and is not the UPDATE of a handover.
<1>1. ASSUME NEW r \in Request, RowsStay, nextAction \subseteq nextAction', pc[r] # "update",
             \A q \in Request \ {r} : /\ pc'[q] = pc[q]
                                      /\ call'[q] = call[q]
                                      /\ clearIn'[q] = clearIn[q]
      PROVE  \A p \in Project : Held(p) => Held(p)'
  <2>1. \A t \in nextAction : project'[t] = project[t]
    BY <1>1 DEF RowsStay, TypeInv, TypeOK
  <2>2. ASSUME NEW p \in Project, HasNextAction(p) PROVE HasNextAction(p)'
    BY <1>1, <2>1, <2>2 DEF HasNextAction
  <2>3. ASSUME NEW p \in Project, HandingOver(p) PROVE HandingOver(p)'
    <3>1. PICK q \in Request : pc[q] = "update" /\ call[q].next = "set" /\ clearIn[q] = p
      BY <2>3 DEF HandingOver
    <3> QED BY <1>1, <3>1 DEF HandingOver
  <2> QED BY <2>2, <2>3
<1>2. ASSUME NEW r \in Request, Return(r)
      PROVE  \A q \in Request \ {r} : /\ pc'[q] = pc[q]
                                      /\ call'[q] = call[q]
                                      /\ clearIn'[q] = clearIn[q]
  BY <1>2 DEF Return, TypeInv, TypeOK
<1>3. ASSUME NEW r \in Request, BeginRequest(r)
      PROVE  HandoverInv' /\ \A p \in Project : Held(p) => Held(p)'
  <2>1. pc[r] # "update" /\ \A q \in Request \ {r} : /\ pc'[q] = pc[q]
                                                    /\ call'[q] = call[q]
                                                    /\ clearIn'[q] = clearIn[q]
    BY <1>3 DEF BeginRequest, BeginCreateTodo, BeginUpdateTodo, BeginMarkTodoDone,
       BeginSetTodoNextAction, BeginDeleteTodo, BeginAddTodoDependency,
       BeginRemoveTodoDependency, Begin, TypeInv, TypeOK
  <2> QED BY <1>1, <1>3, <2>1, BeginHandover
<1>4. ASSUME NEW r \in Request, Execute(r)
      PROVE  HandoverInv' /\ \A p \in Project : Held(p) => Held(p)'
  <2>1. CASE Insert(r)
    <3>1. pc[r] # "update" /\ \A q \in Request \ {r} : /\ pc'[q] = pc[q]
                                                      /\ call'[q] = call[q]
                                                      /\ clearIn'[q] = clearIn[q]
      BY <1>2, <2>1 DEF Insert, Fail, TypeInv, TypeOK
    <3> QED BY <1>1, <2>1, <3>1, InsertHandover
  <2>2. CASE GetForUpdate(r) \/ GetForNextAction(r)
    <3>1. pc[r] # "update" /\ \A q \in Request \ {r} : /\ pc'[q] = pc[q]
                                                      /\ call'[q] = call[q]
                                                      /\ clearIn'[q] = clearIn[q]
      BY <1>2, <2>2 DEF GetForUpdate, GetForNextAction, Fail, TypeInv, TypeOK
    <3> QED BY <1>1, <2>2, <3>1, ReadHandover
  <2>3. CASE ClearProjectNextActions(r)
    <3>1. /\ nextAction' = {t \in nextAction : project[t] # clearIn[r] \/ t = call[r].todo}
          /\ \A q \in Request \ {r} : pc'[q] = pc[q]
      BY <2>3 DEF ClearProjectNextActions, Goto, TypeInv, TypeOK
    <3>2. /\ HandoverInv' /\ UNCHANGED <<project, call, clearIn>>
          /\ pc'[r] = "update" /\ call[r].next = "set"
      BY <2>3, ClearHandover
    <3>3. ASSUME NEW p \in Project, Held(p) PROVE Held(p)'
      <4>1. CASE clearIn[r] = p
        BY <3>2, <4>1 DEF HandingOver
      <4>2. CASE clearIn[r] # p /\ HasNextAction(p)
        BY <3>1, <3>2, <4>2 DEF HasNextAction
      <4>3. CASE HandingOver(p)
        <5>1. PICK q \in Request : pc[q] = "update" /\ call[q].next = "set" /\ clearIn[q] = p
          BY <4>3 DEF HandingOver
        <5>2. pc'[q] = "update"
          BY <3>1, <3>2, <5>1
        <5> QED BY <3>2, <5>1, <5>2 DEF HandingOver
      <4> QED BY <3>3, <4>1, <4>2, <4>3
    <3> QED BY <3>2, <3>3
  <2>4. CASE Update(r)
    <3>1. /\ HandoverInv' /\ RowsStay /\ Return(r)
          /\ nextAction \subseteq nextAction' /\ UNCHANGED project
          /\ ~UpdateRefused(r) /\ call[r].next = "set" => call[r].todo \in nextAction'
      BY <2>4, UpdateHandover
    <3>2. ASSUME NEW p \in Project, HasNextAction(p) PROVE HasNextAction(p)'
      BY <3>1, <3>2 DEF HasNextAction
    <3>3. ASSUME NEW p \in Project, HandingOver(p) PROVE Held(p)'
      <4>1. PICK q \in Request : pc[q] = "update" /\ call[q].next = "set" /\ clearIn[q] = p
        BY <3>3 DEF HandingOver
      <4>2. CASE q # r
        BY <1>2, <3>1, <4>1, <4>2 DEF HandingOver
      <4>3. CASE q = r
        <5>1. p # None
          BY NoneAssumption
        <5>2. /\ call[r].todo \in todos /\ project[call[r].todo] = p
              /\ call[r].project = None
          BY <4>1, <4>3, <5>1 DEF HandoverInv
        <5>3. CASE UpdateRefused(r)
          <6>1. IndexConflict(call[r].todo, p)
            BY <5>2, <5>3 DEF UpdateRefused, NewProject
          <6>2. HasNextAction(p)
            BY <6>1 DEF IndexConflict, HasNextAction
          <6> QED BY <3>2, <6>2
        <5>4. CASE ~UpdateRefused(r)
          BY <3>1, <4>1, <4>3, <5>2, <5>4 DEF HasNextAction
        <5> QED BY <5>3, <5>4
      <4> QED BY <4>2, <4>3
    <3> QED BY <3>1, <3>2, <3>3
  <2>5. CASE AddTodoDependency(r) \/ CountIncompleteDependencies(r) \/ RemoveTodoDependency(r)
    <3>1. pc[r] # "update" /\ \A q \in Request \ {r} : /\ pc'[q] = pc[q]
                                                      /\ call'[q] = call[q]
                                                      /\ clearIn'[q] = clearIn[q]
      BY <1>2, <2>5 DEF AddTodoDependency, CountIncompleteDependencies, RemoveTodoDependency,
         Fail, Goto, TypeInv, TypeOK
    <3> QED BY <1>1, <2>5, <3>1, DependencyHandover
  <2>6. ~DeleteTodo(r)
    BY DEF DeleteTodo, HandoverInv
  <2> QED BY <1>4, <2>1, <2>2, <2>3, <2>4, <2>5, <2>6 DEF Execute
<1> QED BY <1>3, <1>4 DEF Next, Abort, DeleteProject, OnlyHandovers

\* Concurrent setters may make each other fail on the unique index, but when
\* every request runs to its end and nobody takes the flag away on purpose,
\* a project that has a next action ends up with one.
THEOREM NextActionSurvives ==
  ASSUME OnlyHandovers
  PROVE  Spec => NextActionHandedOver
<1> DEFINE Kept == \A p \in Project :
                     HasNextAction(p) \/ HandingOver(p) => HasNextAction(p)' \/ HandingOver(p)'
<1> DEFINE Inv == TypeInv /\ IdleClears /\ HandoverInv
<1>1. Init => Inv
  BY InitTypeInv DEF Init, IdleClears, HandoverInv, NoCall, Keep
<1>2. Inv /\ [Next]_vars => Inv'
  <2>1. ASSUME Inv, UNCHANGED vars PROVE HandoverInv'
    BY <2>1 DEF vars, HandoverInv
  <2> QED BY <2>1, NextTypeInv, NextIdleClears, StepHandsOver
<1>3. Inv /\ [Next]_vars => [Kept]_vars
  BY StepHandsOver
<1> QED BY <1>1, <1>2, <1>3, PTL DEF Spec, NextActionHandedOver
=============================================================================
