------------------------------ MODULE SlotProofs ------------------------------
(***************************************************************************)
(* The flags of module Todos implement the slots of module                 *)
(* NextActionSlots: the initial states agree, and every step of a request  *)
(* gives, moves or releases one slot, or leaves all of them as they are.   *)
(***************************************************************************)
EXTENDS TodosProofs

\* In t's row: t is the next action of p.
Holds(t, p) == t \in nextAction /\ project[t] = p

\* What nextActionOf says, without CHOOSE: one todo at most has the flag in a
\* project, so a slot holds t exactly when the row of t says so.
SlotFact ==
  /\ nextActionOf \in [Project -> Todo \cup {None}]
  /\ \A p \in Project, t \in Todo : nextActionOf[p] = t <=> Holds(t, p)

LEMMA SlotFacts == TypeInv /\ RowInv => SlotFact
<1> SUFFICES ASSUME TypeInv, RowInv PROVE SlotFact
  OBVIOUS
<1> DEFINE Flagged(p) == {t \in nextAction : project[t] = p}
<1>1. nextAction \subseteq Todo
  BY DEF TypeInv, TypeOK
<1>2. ASSUME NEW p \in Project
      PROVE  /\ nextActionOf[p] \in Todo \cup {None}
             /\ \A t \in Todo : nextActionOf[p] = t <=> Holds(t, p)
  <2>1. CASE \E t \in nextAction : project[t] = p
    <3>1. nextActionOf[p] \in nextAction /\ project[nextActionOf[p]] = p
      BY <2>1 DEF nextActionOf
    <3>2. p # None
      BY NoneAssumption
    <3> QED BY <1>1, <3>1, <3>2 DEF Holds, RowInv, OneNextActionPerProject
  <2>2. CASE ~\E t \in nextAction : project[t] = p
    <3>1. nextActionOf[p] = None
      BY <2>2 DEF nextActionOf
    <3> QED BY <2>2, <3>1, NoneAssumption DEF Holds
  <2> QED BY <2>1, <2>2
<1>3. nextActionOf = [p \in Project |-> nextActionOf[p]]
  BY DEF nextActionOf
<1> QED BY <1>2, <1>3 DEF SlotFact

\* Two states whose rows hold the same flags in projects have the same slots.
LEMMA SlotsKept ==
  ASSUME SlotFact, SlotFact',
         \A p \in Project, t \in Todo : Holds(t, p)' <=> Holds(t, p)
  PROVE  nextActionOf' = nextActionOf
<1>1. ASSUME NEW p \in Project PROVE nextActionOf'[p] = nextActionOf[p]
  <2>1. /\ nextActionOf[p] \in Todo \cup {None} /\ nextActionOf'[p] \in Todo \cup {None}
        /\ \A t \in Todo : nextActionOf'[p] = t <=> nextActionOf[p] = t
    BY DEF SlotFact
  <2> QED BY <2>1, NoneAssumption
<1> QED BY <1>1 DEF SlotFact

\* The flag goes from p; the other projects keep theirs.
LEMMA SlotReleased ==
  ASSUME SlotFact, SlotFact', NEW p \in Project,
         \A q \in Project \ {p}, t \in Todo : Holds(t, q)' <=> Holds(t, q),
         \A t \in Todo : ~Holds(t, p)'
  PROVE  Slots!Release(p)
<1>1. nextActionOf'[p] = None
  BY DEF SlotFact
<1>2. ASSUME NEW q \in Project \ {p} PROVE nextActionOf'[q] = nextActionOf[q]
  <2>1. /\ nextActionOf[q] \in Todo \cup {None} /\ nextActionOf'[q] \in Todo \cup {None}
        /\ \A t \in Todo : nextActionOf'[q] = t <=> nextActionOf[q] = t
    BY DEF SlotFact
  <2> QED BY <2>1, NoneAssumption
<1>3. nextActionOf' \in [Project -> Todo \cup {None}] /\ nextActionOf \in [Project -> Todo \cup {None}]
  BY DEF SlotFact
<1>4. nextActionOf' = [nextActionOf EXCEPT ![p] = None]
  BY <1>1, <1>2, <1>3
<1> QED BY <1>4 DEF Slots!Release

\* The flag of t comes to p, where nobody had it; the other projects but
\* possibly the one t comes from keep theirs.
LEMMA SlotTaken ==
  ASSUME SlotFact, SlotFact', NEW p \in Project, NEW t \in Todo,
         Holds(t, p)', \A u \in Todo : ~Holds(u, p),
         \A q \in Project \ {p}, u \in Todo \ {t} : Holds(u, q)' <=> Holds(u, q)
  PROVE  Slots!Next
<1> DEFINE new == [nextActionOf EXCEPT ![p] = t]
<1>1. /\ nextActionOf' \in [Project -> Todo \cup {None}]
      /\ nextActionOf \in [Project -> Todo \cup {None}]
  BY DEF SlotFact
<1>2. nextActionOf[p] = None /\ nextActionOf'[p] = t
  BY DEF SlotFact
<1>3. ASSUME NEW q \in Project \ {p} PROVE ~Holds(t, q)'
  BY DEF Holds
<1>4. CASE \A q \in Project : ~Holds(t, q)
  <2>1. ASSUME NEW q \in Project \ {p} PROVE nextActionOf'[q] = nextActionOf[q]
    <3>1. \A u \in Todo : nextActionOf'[q] = u <=> nextActionOf[q] = u
      BY <1>3, <1>4 DEF SlotFact
    <3> QED BY <1>1, <3>1, NoneAssumption
  <2>2. nextActionOf' = new
    BY <1>1, <1>2, <2>1
  <2>3. \A q \in Project : nextActionOf[q] # t
    BY <1>4 DEF SlotFact
  <2>4. Slots!Give(p, t)
    BY <1>2, <2>2, <2>3 DEF Slots!Give
  <2> QED BY <2>4 DEF Slots!Next
<1>5. ASSUME NEW o \in Project, Holds(t, o) PROVE Slots!Next
  <2>1. o # p /\ nextActionOf[o] = t
    BY <1>5 DEF SlotFact
  <2>2. nextActionOf'[o] = None
    <3>1. \A u \in Todo : ~Holds(u, o)'
      <4>1. \A u \in Todo \ {t} : ~Holds(u, o)
        BY <2>1 DEF SlotFact
      <4> QED BY <1>3, <2>1, <4>1
    <3> QED BY <1>1, <3>1 DEF SlotFact
  <2>3. ASSUME NEW q \in Project \ {p, o} PROVE nextActionOf'[q] = nextActionOf[q]
    <3>1. ~Holds(t, q)
      BY <1>5 DEF Holds
    <3>2. \A u \in Todo : nextActionOf'[q] = u <=> nextActionOf[q] = u
      BY <1>3, <3>1 DEF SlotFact
    <3> QED BY <1>1, <3>2, NoneAssumption
  <2>4. nextActionOf' = [nextActionOf EXCEPT ![o] = None, ![p] = nextActionOf[o]]
    BY <1>1, <1>2, <2>1, <2>2, <2>3
  <2>5. nextActionOf[o] # None
    BY <2>1, NoneAssumption
  <2>6. Slots!Move(o, p)
    BY <1>2, <2>4, <2>5 DEF Slots!Move
  <2> QED BY <2>6 DEF Slots!Next
<1> QED BY <1>4, <1>5

-----------------------------------------------------------------------------
(* The steps.                                                              *)

\* The invariants of both states, as facts about slots.
Facts == TypeInv /\ RowInv /\ SlotFact

LEMMA RowsKeepSlots ==
  ASSUME Facts, Facts', nextAction' = nextAction,
         \A t \in nextAction : project'[t] = project[t]
  PROVE  UNCHANGED nextActionOf
BY SlotsKept DEF Facts, Holds

LEMMA InsertSlots ==
  ASSUME Facts, Facts', NEW r \in Request, Insert(r)
  PROVE  UNCHANGED nextActionOf
<1>1. nextAction' = nextAction
  BY DEF Insert, Fail, rowVars
<1>2. \A t \in nextAction : project'[t] = project[t]
  <2>1. CASE Fail(r)
    BY <2>1 DEF Fail, rowVars
  <2>2. CASE ~Fail(r)
    BY <2>2 DEF Insert, Facts, TypeInv, TypeOK
  <2> QED BY <2>1, <2>2
<1> QED BY <1>1, <1>2, RowsKeepSlots

\* The clear takes the flag from whatever todo holds the slot of the project,
\* unless that is the todo the request will flag.
LEMMA ClearSlots ==
  ASSUME Facts, Facts', NEW r \in Request, ClearProjectNextActions(r)
  PROVE  Slots!Next \/ UNCHANGED nextActionOf
<1>0. PICK p, u : p = clearIn[r] /\ u = call[r].todo
  OBVIOUS
<1>1. /\ nextAction' = {t \in nextAction : project[t] # p \/ t = u}
      /\ project' = project
  BY <1>0 DEF ClearProjectNextActions
<1>2. CASE p \in Project /\ ~Holds(u, p)
  <2>1. \A q \in Project \ {p}, t \in Todo : Holds(t, q)' <=> Holds(t, q)
    BY <1>1 DEF Holds
  <2>2. \A t \in Todo : ~Holds(t, p)'
    BY <1>1, <1>2 DEF Holds
  <2>3. Slots!Release(p)
    BY <1>2, <2>1, <2>2, SlotReleased DEF Facts
  <2> QED BY <1>2, <2>3 DEF Slots!Next
<1>3. CASE p \in Project /\ Holds(u, p)
  <2>1. \A q \in Project, t \in Todo : Holds(t, q)' <=> Holds(t, q)
    <3>1. \A t \in nextAction : project[t] = p => t = u
      BY <1>3, NoneAssumption DEF Holds, Facts, RowInv, OneNextActionPerProject
    <3> QED BY <1>1, <3>1 DEF Holds
  <2> QED BY <2>1, SlotsKept DEF Facts
<1>4. CASE p \notin Project
  <2>1. \A q \in Project, t \in Todo : Holds(t, q)' <=> Holds(t, q)
    BY <1>1, <1>4 DEF Holds
  <2> QED BY <2>1, SlotsKept DEF Facts
<1> QED BY <1>2, <1>3, <1>4

\* The UPDATE: because the index has refused it otherwise, the slot it gives
\* to its todo is empty or holds that todo already.
LEMMA UpdateSlots ==
  ASSUME Facts, Facts', NEW r \in Request, Update(r)
  PROVE  Slots!Next \/ UNCHANGED nextActionOf
<1>1. CASE UpdateRefused(r)
  BY <1>1, RowsKeepSlots DEF Update, Fail, rowVars
<1>2. CASE ~UpdateRefused(r)
  <2>0. PICK t : t = call[r].todo
    OBVIOUS
  <2>1. /\ project' = [project EXCEPT ![t] = NewProject(r)]
        /\ nextAction' = IF Flags(r) THEN nextAction \cup {t} ELSE nextAction \ {t}
    BY <1>2, <2>0 DEF Update
  <2>2. t \in Todo
    BY <1>2, <2>0 DEF UpdateRefused, Facts, TypeInv, TypeOK
  <2>3. project'[t] = NewProject(r) /\ \A u \in Todo \ {t} : project'[u] = project[u]
    BY <2>1, <2>2 DEF Facts, TypeInv, TypeOK
  <2>4. \A u \in Todo \ {t}, q \in Project : Holds(u, q)' <=> Holds(u, q)
    BY <2>1, <2>3 DEF Holds
  <2>5. CASE \E p \in Project : Holds(t, p)'
    <3>1. PICK p \in Project : Holds(t, p)'
      BY <2>5
    <3>2. CASE Holds(t, p)
      <4>1. \A q \in Project, u \in Todo : Holds(u, q)' <=> Holds(u, q)
        BY <2>4, <3>1, <3>2 DEF Holds
      <4> QED BY <4>1, SlotsKept DEF Facts
    <3>3. CASE ~Holds(t, p)
      <4>1. \A u \in Todo : ~Holds(u, p)
        <5>1. Flags(r) /\ NewProject(r) = p
          BY <2>1, <2>3, <3>1 DEF Holds
        <5>2. ~IndexConflict(t, p)
          BY <1>2, <2>0, <5>1 DEF UpdateRefused
        <5> QED BY <3>3, <5>2, NoneAssumption DEF IndexConflict, Holds
      <4> QED BY <2>2, <2>4, <3>1, <4>1, SlotTaken DEF Facts
    <3> QED BY <3>2, <3>3
  <2>6. CASE ~\E p \in Project : Holds(t, p)'
    <3>1. CASE \E p \in Project : Holds(t, p)
      <4>1. PICK p \in Project : Holds(t, p)
        BY <3>1
      <4>2. \A u \in Todo \ {t} : ~Holds(u, p)
        BY <2>2, <4>1, NoneAssumption DEF Holds, Facts, RowInv, OneNextActionPerProject
      <4>3. \A u \in Todo : ~Holds(u, p)'
        BY <2>4, <2>6, <4>2
      <4>4. \A q \in Project \ {p} : ~Holds(t, q)
        BY <4>1 DEF Holds
      <4>5. Slots!Release(p)
        BY <2>4, <2>6, <4>3, <4>4, SlotReleased DEF Facts
      <4> QED BY <4>5 DEF Slots!Next
    <3>2. CASE ~\E p \in Project : Holds(t, p)
      <4>1. \A q \in Project, u \in Todo : Holds(u, q)' <=> Holds(u, q)
        BY <2>4, <2>6, <3>2
      <4> QED BY <4>1, SlotsKept DEF Facts
    <3> QED BY <3>1, <3>2
  <2> QED BY <2>5, <2>6
<1> QED BY <1>1, <1>2

LEMMA DeleteTodoSlots ==
  ASSUME Facts, Facts', NEW r \in Request, DeleteTodo(r)
  PROVE  Slots!Next \/ UNCHANGED nextActionOf
<1>0. PICK t : t = call[r].todo
  OBVIOUS
<1>1. /\ nextAction' = nextAction \ {t}
      /\ \A u \in Todo \ {t} : project'[u] = project[u]
  BY <1>0 DEF DeleteTodo, RemoveTodos, Facts, TypeInv, TypeOK
<1>2. \A q \in Project : /\ ~Holds(t, q)'
                         /\ \A u \in Todo \ {t} : Holds(u, q)' <=> Holds(u, q)
  BY <1>1 DEF Holds
<1>3. CASE \E p \in Project : Holds(t, p)
  <2>1. PICK p \in Project : Holds(t, p)
    BY <1>3
  <2>2. \A u \in Todo \ {t} : ~Holds(u, p)
    BY <2>1, NoneAssumption DEF Holds, Facts, RowInv, OneNextActionPerProject
  <2>3. \A q \in Project \ {p} : ~Holds(t, q)
    BY <2>1 DEF Holds
  <2>4. Slots!Release(p)
    <3>1. \A u \in Todo : ~Holds(u, p)'
      BY <1>2, <2>2
    <3>2. \A q \in Project \ {p}, u \in Todo : Holds(u, q)' <=> Holds(u, q)
      BY <1>2, <2>3
    <3> QED BY <3>1, <3>2, SlotReleased DEF Facts
  <2> QED BY <2>4 DEF Slots!Next
<1>4. CASE ~\E p \in Project : Holds(t, p)
  BY <1>2, <1>4, SlotsKept DEF Facts
<1> QED BY <1>3, <1>4

LEMMA DeleteProjectSlots ==
  ASSUME Facts, Facts', NEW p \in Project, DeleteProject(p)
  PROVE  Slots!Next
<1> DEFINE members == {t \in todos : project[t] = p}
<1>1. PICK kept \in SUBSET members : RemoveTodos(members \ kept)
  BY DEF DeleteProject
<1>2. /\ nextAction' = nextAction \ (members \ kept)
      /\ project' = [t \in Todo |-> IF t \in members THEN None ELSE project[t]]
  BY <1>1 DEF DeleteProject, RemoveTodos
<1>3. \A q \in Project \ {p}, t \in Todo : Holds(t, q)' <=> Holds(t, q)
  BY <1>2, NoneAssumption DEF Holds
<1>4. \A t \in Todo : ~Holds(t, p)'
  BY <1>2, NoneAssumption DEF Holds, Facts, TypeInv, TypeOK
<1>5. Slots!Release(p)
  BY <1>3, <1>4, SlotReleased DEF Facts
<1> QED BY <1>5 DEF Slots!Next

LEMMA NextSlots == Facts /\ Facts' /\ [Next]_vars => [Slots!Next]_nextActionOf
<1> SUFFICES ASSUME Facts, Facts', [Next]_vars
             PROVE  Slots!Next \/ UNCHANGED nextActionOf
  OBVIOUS
<1>1. ASSUME NEW r \in Request, BeginRequest(r) PROVE UNCHANGED nextActionOf
  BY <1>1, RowsKeepSlots DEF BeginRequest, BeginCreateTodo, BeginUpdateTodo,
     BeginMarkTodoDone, BeginSetTodoNextAction, BeginDeleteTodo, BeginAddTodoDependency,
     BeginRemoveTodoDependency, Begin, rowVars
<1>2. ASSUME NEW r \in Request, Execute(r) PROVE Slots!Next \/ UNCHANGED nextActionOf
  <2>1. CASE GetForUpdate(r) \/ GetForNextAction(r) \/ CountIncompleteDependencies(r)
    BY <2>1, RowsKeepSlots DEF GetForUpdate, GetForNextAction, CountIncompleteDependencies,
       Fail, rowVars
  <2>2. CASE AddTodoDependency(r) \/ RemoveTodoDependency(r)
    BY <2>2, RowsKeepSlots DEF AddTodoDependency, RemoveTodoDependency, Fail, rowVars
  <2> QED BY <1>2, <2>1, <2>2, InsertSlots, ClearSlots, UpdateSlots, DeleteTodoSlots DEF Execute
<1>3. ASSUME NEW r \in Request, Abort(r) PROVE UNCHANGED nextActionOf
  BY <1>3, RowsKeepSlots DEF Abort, Fail, rowVars
<1>4. ASSUME NEW p \in Project, DeleteProject(p) PROVE Slots!Next
  BY <1>4, DeleteProjectSlots
<1>5. CASE UNCHANGED vars
  BY <1>5, RowsKeepSlots DEF vars
<1> QED BY <1>1, <1>2, <1>3, <1>4, <1>5 DEF Next

\* Module Todos implements module NextActionSlots: however many requests set,
\* move, clear and delete, and wherever they stop, the flags of the rows are a
\* slot per project, and no step overwrites a slot.
THEOREM TodosImplementSlots == Spec => ImplementsSlots
<1>1. Init => Slots!Init
  BY DEF Init, Slots!Init, nextActionOf
<1>2. Spec => []TypeInv
  BY InitTypeInv, NextTypeInv, PTL DEF Spec
<1>3. TypeInv /\ RowInv => Facts
  BY SlotFacts DEF Facts
<1> QED BY <1>1, <1>2, <1>3, RowsCorrect, NextSlots, PTL DEF Spec, ImplementsSlots, Slots!Spec
=============================================================================
