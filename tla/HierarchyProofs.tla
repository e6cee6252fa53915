--------------------------- MODULE HierarchyProofs ---------------------------
(***************************************************************************)
(* Proofs about module Hierarchy, for every number of epics, projects,     *)
(* stages, todos and concurrent deletions and for every set of mutations.  *)
(*                                                                         *)
(* The invariant behind all of them says what the open transactions may    *)
(* look like: no row is locked by two of them, each has only taken         *)
(* something away from the rows it has locked (a reference, or the whole   *)
(* row), and what each of them sees is free of dangling references.  The   *)
(* last part is what makes it safe to publish one view while the others    *)
(* are still open.                                                         *)
(***************************************************************************)
EXTENDS Hierarchy, TLAPS

-----------------------------------------------------------------------------
(* Rows and sets of rows.                                                  *)

\* A row has only the references of its kind, and none when it is not there.
RowOf(i, row) ==
  /\ row \in Row
  /\ row.epic # None => i \in Project
  /\ row.project # None => i \in Stage \cup Todo
  /\ row.stage # None => i \in Todo
  /\ row.life # "live" => row.epic = None /\ row.project = None /\ row.stage = None

Rows(v) == v \in [Id -> Row] /\ \A i \in Id : RowOf(i, v[i])

\* NoDanglingReference of any set of rows.
Closed(v) ==
  \A i \in Id :
    /\ v[i].epic # None => Live(v, v[i].epic)
    /\ v[i].project # None => Live(v, v[i].project)
    /\ v[i].stage # None => Live(v, v[i].stage)

\* Row a is row b, or what is left of it after it lost references or was
\* deleted.
Remains(a, b) ==
  /\ a \in Row
  /\ a # b => b.life = "live"
  /\ a.life \in {b.life, "gone"}
  /\ a.epic \in {b.epic, None} /\ a.project \in {b.project, None} /\ a.stage \in {b.stage, None}
  /\ a.life = "gone" => a.epic = None /\ a.project = None /\ a.stage = None

Shrunk(w, v) == w \in [Id -> Row] /\ \A i \in Id : Remains(w[i], v[i])

-----------------------------------------------------------------------------
(* The inductive invariant.                                                *)

EpicStatement == {"detachProjectsFromEpic", "deleteProjectsByEpic", "deleteEpic"}
ProjectStatement == {"detachTodosFromProject", "detachStagesFromProject", "deleteProject"}
StageStatement == {"detachTodosFromStage", "deleteTodosByStage", "deleteStage"}

\* A statement belongs to the mutation that its request executes, and the
\* row of that mutation has been given its identifier.
CallGiven ==
  \A r \in Request :
    /\ pc[r] # "idle" => call[r].op \in DeleteOp /\ db[call[r].id].life # "new"
    /\ call[r].op = "deleteEpic" => call[r].id \in Epic /\ pc[r] \in EpicStatement \cup {"commit"}
    /\ call[r].op = "deleteProject" =>
         call[r].id \in Project /\ pc[r] \in ProjectStatement \cup {"commit"}
    /\ call[r].op = "deleteStage" => call[r].id \in Stage /\ pc[r] \in StageStatement \cup {"commit"}

\* The rows that transactions have written: each is locked by one of them,
\* and is what is left of the committed row.
WorkOfOne ==
  \A r, s \in Request : r # s => DOMAIN work[r] \cap DOMAIN work[s] = {}
WorkRemains ==
  \A r \in Request : \A i \in DOMAIN work[r] : Remains(work[r][i], db[i]) /\ Live(db, i)

TypeInv ==
  /\ TypeOK
  /\ work = [r \in Request |-> work[r]]
  /\ CallGiven
  /\ Rows(db)
  /\ WorkOfOne
  /\ WorkRemains

ViewsClosed == Closed(db) /\ \A r \in Request : Closed(View(r))

SafeInv == TypeInv /\ ViewsClosed

-----------------------------------------------------------------------------
(* What the statements do to the rows they see.                            *)

LEMMA RemainsOfRemains ==
  ASSUME NEW a, NEW b, NEW c \in Row, Remains(a, b), Remains(b, c)
  PROVE  Remains(a, c)
BY DEF Remains

LEMMA RemainsRowOf ==
  ASSUME NEW i \in Id, NEW a, NEW b, RowOf(i, b), Remains(a, b)
  PROVE  RowOf(i, a)
BY DEF RowOf, Remains

LEMMA RowRemains ==
  ASSUME NEW i \in Id, NEW a, RowOf(i, a)
  PROVE  Remains(a, a)
BY DEF RowOf, Remains

\* What is left of well formed rows is well formed.
LEMMA ShrunkRows ==
  ASSUME NEW v, NEW w, Rows(v), Shrunk(w, v)
  PROVE  Rows(w)
BY RemainsRowOf DEF Rows, Shrunk

LEMMA ShrunkShrunk ==
  ASSUME NEW u, NEW v, NEW w, Rows(u), Shrunk(v, u), Shrunk(w, v)
  PROVE  Shrunk(w, u)
<1>1. ASSUME NEW i \in Id PROVE Remains(w[i], u[i])
  <2>1. u[i] \in Row
    BY DEF Rows
  <2> QED BY <2>1, RemainsOfRemains DEF Shrunk
<1> QED BY <1>1 DEF Shrunk

\* Detaching rows from a parent makes no reference dangle: all rows stay.
LEMMA DetachShrinks ==
  ASSUME NEW v, Rows(v), Closed(v), NEW w,
         NEW c \in Id, w \in {DetachFromEpic(v, c), DetachTodosFromProject(v, c),
                              DetachStagesFromProject(v, c), DetachFromStage(v, c)}
  PROVE  /\ Shrunk(w, v)
         /\ Closed(w)
         /\ \A i \in Id : w[i].life = v[i].life
<1>1. w \in [Id -> Row]
  BY DEF Rows, RowOf, Row, DetachFromEpic, DetachTodosFromProject, DetachStagesFromProject,
         DetachFromStage
<1>2. ASSUME NEW i \in Id
      PROVE  /\ Remains(w[i], v[i])
             /\ w[i].life = v[i].life
  <2> c # None
    BY NoneAssumption
  <2>1. RowOf(i, v[i]) /\ w[i] \in Row /\ v[i] \in Row
    BY <1>1 DEF Rows
  <2> QED BY <2>1 DEF RowOf, Remains, Row, DetachFromEpic, DetachTodosFromProject,
                DetachStagesFromProject, DetachFromStage, ProjectsOf, TodosOf, StagesOf, TodosIn
<1>3. Closed(w)
  BY <1>2 DEF Closed, Remains, Rows, RowOf, Row, Id, Live
<1> QED BY <1>1, <1>2, <1>3 DEF Shrunk

\* Rows that nothing else refers to can be removed.
LEMMA RemoveShrinks ==
  ASSUME NEW v, Rows(v), Closed(v), NEW ids,
         \A i \in Id \ ids : v[i].epic \notin ids /\ v[i].project \notin ids /\ v[i].stage \notin ids
  PROVE  Shrunk(Remove(v, ids), v) /\ Closed(Remove(v, ids))
<1> DEFINE w == Remove(v, ids)
<1>1. \A i \in Id : w[i] = IF i \in ids /\ Live(v, i) THEN GoneRow ELSE v[i]
  BY DEF Remove
<1>2. GoneRow \in Row /\ GoneRow.life = "gone" /\ GoneRow.epic = None
        /\ GoneRow.project = None /\ GoneRow.stage = None
  BY DEF GoneRow, NewRow, Row
<1>3. w \in [Id -> Row]
  BY <1>2 DEF Remove, Rows
<1>4. \A i \in Id : Remains(w[i], v[i])
  BY <1>1, <1>2 DEF Remains, Rows, RowOf, Live
<1>5. Closed(w)
  <2>1. SUFFICES ASSUME NEW i \in Id
                 PROVE  /\ w[i].epic # None => Live(w, w[i].epic)
                        /\ w[i].project # None => Live(w, w[i].project)
                        /\ w[i].stage # None => Live(w, w[i].stage)
    BY DEF Closed
  <2>2. CASE w[i] = GoneRow
    BY <1>2, <2>2
  <2>3. CASE w[i] # GoneRow
    <3>1. w[i] = v[i] /\ (i \in ids => ~Live(v, i))
      BY <1>1, <2>3
    <3>2. RowOf(i, v[i])
      BY DEF Rows
    <3>3. CASE i \in ids
      BY <3>1, <3>2, <3>3 DEF RowOf, Live
    <3>4. CASE i \notin ids
      <4>1. \A j \in Id \ ids : w[j] = v[j]
        BY <1>1
      <4>2. /\ v[i].epic # None => Live(v, v[i].epic) /\ v[i].epic \in Id
            /\ v[i].project # None => Live(v, v[i].project) /\ v[i].project \in Id
            /\ v[i].stage # None => Live(v, v[i].stage) /\ v[i].stage \in Id
        BY <3>2 DEF Closed, RowOf, Row, Id
      <4> QED BY <3>1, <3>4, <4>1, <4>2 DEF Live
    <3> QED BY <3>3, <3>4
  <2> QED BY <2>2, <2>3
<1> QED BY <1>3, <1>4, <1>5 DEF Shrunk

\* DELETE of stages: their todos are detached first.
LEMMA RemoveStagesShrinks ==
  ASSUME NEW v, Rows(v), Closed(v), NEW ss \in SUBSET Stage
  PROVE  Shrunk(RemoveStages(v, ss), v) /\ Closed(RemoveStages(v, ss))
<1> DEFINE u == [i \in Id |-> IF v[i].stage \in ss THEN [v[i] EXCEPT !.stage = None] ELSE v[i]]
<1>1. u \in [Id -> Row]
  BY DEF Rows, RowOf, Row
<1>2. ASSUME NEW i \in Id
      PROVE  Remains(u[i], v[i]) /\ u[i].life = v[i].life /\ u[i].stage \notin ss
  <2>1. RowOf(i, v[i]) /\ None \notin ss
    BY NoneAssumption DEF Rows, Id
  <2> QED BY <2>1 DEF RowOf, Remains, Row
<1>3. Shrunk(u, v) /\ Rows(u)
  BY <1>1, <1>2, ShrunkRows DEF Shrunk
<1>4. Closed(u)
  BY <1>2 DEF Closed, Remains, Rows, RowOf, Row, Id, Live
<1>5. \A i \in Id : u[i].epic \notin ss /\ u[i].project \notin ss /\ u[i].stage \notin ss
  BY <1>2, <1>3, KindsAssumption, NoneAssumption DEF Rows, RowOf, Row, Id
<1> HIDE DEF u
<1>6. Shrunk(Remove(u, ss), u) /\ Closed(Remove(u, ss))
  BY <1>3, <1>4, <1>5, RemoveShrinks
<1>7. RemoveStages(v, ss) = Remove(u, ss)
  BY DEF RemoveStages, u
<1> QED BY <1>3, <1>6, <1>7, ShrunkShrunk

\* DELETE of projects: what is in them goes with them.
LEMMA CascadeReaches ==
  ASSUME NEW v, Rows(v), NEW ps \in SUBSET Project, NEW i \in Id, v[i].project \in ps
  PROVE  LET todos  == {t \in Todo : v[t].project \in ps}
             stages == {s \in Stage : v[s].project \in ps}
         IN  RemoveStages(Remove(v, todos), stages)[i].life = "gone"
<1> DEFINE todos  == {t \in Todo : v[t].project \in ps}
           stages == {s \in Stage : v[s].project \in ps}
           u == Remove(v, todos)
           d == [j \in Id |-> IF u[j].stage \in stages THEN [u[j] EXCEPT !.stage = None] ELSE u[j]]
<1>1. GoneRow \in Row /\ GoneRow.life = "gone"
  BY DEF GoneRow, NewRow, Row
<1>2. v[i] \in Row /\ v[i].life = "live" /\ i \in todos \cup stages
  BY NoneAssumption DEF Rows, RowOf, Id
<1>3. u[i] = IF i \in todos THEN GoneRow ELSE v[i]
  BY <1>2 DEF Remove, Live
<1>4. u[i] \in Row /\ d[i].life = u[i].life
  BY <1>1, <1>2, <1>3 DEF Row
<1>5. RemoveStages(u, stages)[i] = IF i \in stages /\ Live(d, i) THEN GoneRow ELSE d[i]
  BY DEF RemoveStages, Remove
<1> HIDE DEF d
<1>6. CASE i \in todos
  BY <1>1, <1>3, <1>4, <1>5, <1>6
<1>7. CASE i \notin todos
  BY <1>1, <1>2, <1>3, <1>4, <1>5, <1>7 DEF Live
<1> QED BY <1>6, <1>7

\* Removing projects closes the rows again: a todo of another
\* project that was in such a stage is detached.
LEMMA RemoveProjectsShrinks ==
  ASSUME NEW v, Rows(v), Closed(v), NEW ps \in SUBSET Project
  PROVE  Shrunk(RemoveProjects(v, ps), v) /\ Closed(RemoveProjects(v, ps))
<1> DEFINE todos  == {t \in Todo : v[t].project \in ps}
           stages == {s \in Stage : v[s].project \in ps}
           u == Remove(v, todos)
           w == RemoveStages(u, stages)
<1>1. /\ todos \subseteq Todo /\ stages \subseteq Stage
      /\ \A i \in Id : v[i].project \in ps => i \in todos \cup stages
  BY NoneAssumption DEF Rows, RowOf, Id
<1>2. \A i \in Id : v[i].epic \notin todos /\ v[i].project \notin todos /\ v[i].stage \notin todos
  BY <1>1, KindsAssumption, NoneAssumption DEF Rows, RowOf, Row, Id
<1>3. Shrunk(u, v) /\ Closed(u) /\ Rows(u)
  BY <1>2, RemoveShrinks, ShrunkRows
<1>4. Shrunk(w, u) /\ Closed(w) /\ Rows(w)
  BY <1>1, <1>3, RemoveStagesShrinks, ShrunkRows
<1>5. \A i \in todos \cup stages : w[i].project \notin ps
  <2>1. ASSUME NEW i \in todos \cup stages
        PROVE  w[i].life = "gone" /\ i \in Id
    BY <1>1, CascadeReaches DEF Id
  <2> QED BY <1>4, <2>1, NoneAssumption DEF Rows, RowOf, Id
<1>6. \A i \in Id : w[i].epic \notin ps /\ w[i].project \notin ps /\ w[i].stage \notin ps
  <2>1. SUFFICES ASSUME NEW i \in Id
                 PROVE  w[i].epic \notin ps /\ w[i].project \notin ps /\ w[i].stage \notin ps
    OBVIOUS
  <2>2. w[i].epic \notin ps /\ w[i].stage \notin ps
    BY <1>4, KindsAssumption, NoneAssumption DEF Rows, RowOf, Row, Id
  <2>3. w[i].project \in ps => v[i].project \in ps
    <3>1. Remains(w[i], u[i]) /\ Remains(u[i], v[i]) /\ None \notin ps
      BY <1>3, <1>4, NoneAssumption DEF Shrunk, Id
    <3> QED BY <3>1 DEF Remains
  <2> QED BY <1>1, <1>5, <2>2, <2>3
<1> HIDE DEF w
<1>7. Shrunk(Remove(w, ps), w) /\ Closed(Remove(w, ps))
  BY <1>4, <1>6, RemoveShrinks
<1>8. RemoveProjects(v, ps) = Remove(w, ps)
  BY DEF RemoveProjects, w
<1>9. Shrunk(w, v)
  BY <1>3, <1>4, ShrunkShrunk
<1> QED BY <1>7, <1>8, <1>9, ShrunkShrunk

\* DELETE of an epic: its projects stay, without it.
LEMMA RemoveEpicShrinks ==
  ASSUME NEW v, Rows(v), Closed(v), NEW e \in Epic
  PROVE  Shrunk(RemoveEpic(v, e), v) /\ Closed(RemoveEpic(v, e))
<1> DEFINE u == DetachFromEpic(v, e)
<1>1. e \in Id
  BY DEF Id
<1>2. Shrunk(u, v) /\ Closed(u) /\ Rows(u)
  BY <1>1, DetachShrinks, ShrunkRows
<1>3. \A i \in Id : u[i].epic # e
  <2>1. SUFFICES ASSUME NEW i \in Id, u[i].epic = e
                 PROVE  FALSE
    OBVIOUS
  <2>2. RowOf(i, u[i]) /\ RowOf(i, v[i]) /\ e # None
    BY <1>1, <1>2, NoneAssumption DEF Rows
  <2>3. i \in Project
    BY <2>1, <2>2 DEF RowOf
  <2> QED BY <2>1, <2>2, <2>3 DEF DetachFromEpic, ProjectsOf, RowOf, Row
<1>4. \A i \in Id : u[i].project # e /\ u[i].stage # e
  BY <1>1, <1>2, KindsAssumption, NoneAssumption DEF Rows, RowOf, Row, Id
<1> HIDE DEF u
<1>5. Shrunk(Remove(u, {e}), u) /\ Closed(Remove(u, {e}))
  BY <1>2, <1>3, <1>4, RemoveShrinks
<1>6. RemoveEpic(v, e) = Remove(u, {e})
  BY DEF RemoveEpic, u
<1> QED BY <1>2, <1>5, <1>6, ShrunkShrunk

-----------------------------------------------------------------------------
(* What each action does to the views of all transactions.                 *)

LEMMA ViewTyped ==
  ASSUME TypeInv, NEW r \in Request
  PROVE  Shrunk(View(r), db) /\ Rows(View(r))
<1>1. \A i \in Id : Remains(db[i], db[i])
  BY RowRemains DEF TypeInv, Rows
<1>2. View(r) \in [Id -> Row]
  BY <1>1 DEF View, TypeInv, TypeOK
<1>3. \A i \in Id : Remains(View(r)[i], db[i])
  BY <1>1 DEF View, TypeInv, WorkRemains
<1> QED BY <1>2, <1>3, ShrunkRows DEF Shrunk, TypeInv

\* The row that a request is about, by statement.
LEMMA StatementCall ==
  ASSUME TypeInv, NEW r \in Request, pc[r] \in DOMAIN After
  PROVE  /\ pc[r] \in EpicStatement \cup ProjectStatement \cup StageStatement
         /\ pc[r] \in EpicStatement => call[r].op = "deleteEpic" /\ call[r].id \in Epic
         /\ pc[r] \in ProjectStatement => call[r].op = "deleteProject" /\ call[r].id \in Project
         /\ pc[r] \in StageStatement => call[r].op = "deleteStage" /\ call[r].id \in Stage
BY DEF TypeInv, CallGiven, After, DeleteOp, EpicStatement, ProjectStatement, StageStatement

LEMMA EffectShrinks ==
  ASSUME SafeInv, NEW r \in Request, pc[r] \in DOMAIN After
  PROVE  Shrunk(Effect(r), View(r)) /\ Closed(Effect(r))
<1> DEFINE v == View(r)
           i == call[r].id
<1>1. TypeInv /\ Rows(v) /\ Closed(v)
  BY ViewTyped DEF SafeInv, ViewsClosed
<1>2. CASE pc[r] \in EpicStatement
  <2>1. i \in Epic /\ i \in Id
    BY <1>1, <1>2, StatementCall DEF Id
  <2>2. ProjectsOf(v, i) \subseteq Project
    BY DEF ProjectsOf
  <2>3. Effect(r) \in {DetachFromEpic(v, i), RemoveProjects(v, ProjectsOf(v, i)), RemoveEpic(v, i)}
    BY <1>2 DEF Effect, EpicStatement
  <2> QED BY <1>1, <2>1, <2>2, <2>3, DetachShrinks, RemoveProjectsShrinks, RemoveEpicShrinks
<1>3. CASE pc[r] \in ProjectStatement
  <2>1. i \in Project /\ i \in Id
    BY <1>1, <1>3, StatementCall DEF Id
  <2>2. Effect(r) \in {DetachTodosFromProject(v, i), DetachStagesFromProject(v, i),
                       RemoveProjects(v, {i})}
    BY <1>3 DEF Effect, ProjectStatement
  <2> QED BY <1>1, <2>1, <2>2, DetachShrinks, RemoveProjectsShrinks
<1>4. CASE pc[r] \in StageStatement
  <2>1. i \in Stage /\ i \in Id
    BY <1>1, <1>4, StatementCall DEF Id
  <2>2. Effect(r) \in {DetachFromStage(v, i), Remove(v, TodosIn(v, i)), RemoveStages(v, {i})}
    BY <1>4 DEF Effect, StageStatement
  <2>3. \A j \in Id : /\ v[j].epic \notin TodosIn(v, i)
                      /\ v[j].project \notin TodosIn(v, i)
                      /\ v[j].stage \notin TodosIn(v, i)
    BY <1>1, KindsAssumption, NoneAssumption DEF TodosIn, Rows, RowOf, Row, Id
  <2> QED BY <1>1, <2>1, <2>2, <2>3, DetachShrinks, RemoveShrinks, RemoveStagesShrinks
<1> QED BY <1>1, <1>2, <1>3, <1>4, StatementCall

\* The rows that a statement changes become visible to its transaction only.
LEMMA StatementViews ==
  ASSUME SafeInv, NEW r \in Request, ExecuteStatement(r)
  PROVE  /\ work' = [s \in Request |-> work'[s]]
         /\ DOMAIN work'[r] = DOMAIN work[r] \cup Written(r)
         /\ \A i \in DOMAIN work'[r] : work'[r][i] = Effect(r)[i]
         /\ View(r)' = Effect(r)
         /\ \A s \in Request \ {r} : work'[s] = work[s] /\ View(s)' = View(s)
<1> DEFINE own == [i \in DOMAIN work[r] \cup Written(r) |-> Effect(r)[i]]
<1>1. work' = [work EXCEPT ![r] = own] /\ UNCHANGED db
  BY DEF ExecuteStatement
<1>2. work = [s \in Request |-> work[s]]
  BY DEF SafeInv, TypeInv
<1>3. work' = [s \in Request |-> IF s = r THEN own ELSE work[s]]
  BY <1>1, <1>2
<1>4. work'[r] = own /\ \A s \in Request \ {r} : work'[s] = work[s]
  BY <1>3
<1>5. work' = [s \in Request |-> work'[s]]
  BY <1>3
<1>6. Effect(r) \in [Id -> Row]
  BY EffectShrinks DEF Shrunk, ExecuteStatement
<1>7. View(r)' = Effect(r)
  <2>1. View(r)' = [i \in Id |-> IF i \in DOMAIN own THEN own[i] ELSE db[i]]
    BY <1>1, <1>4 DEF View
  <2>2. ASSUME NEW i \in Id PROVE View(r)'[i] = Effect(r)[i]
    <3>1. CASE i \in DOMAIN own
      BY <2>1, <3>1
    <3>2. CASE i \notin DOMAIN own
      BY <2>1, <3>2 DEF Written, View
    <3> QED BY <3>1, <3>2
  <2> QED BY <1>6, <2>1, <2>2
<1>8. \A s \in Request \ {r} : View(s)' = View(s)
  BY <1>1, <1>4 DEF View
<1> QED BY <1>4, <1>5, <1>7, <1>8

\* What ends a transaction, whether it is committed or not.
LEMMA EndViews ==
  ASSUME TypeInv, NEW r \in Request, EndTransaction(r)
  PROVE  /\ work' = [s \in Request |-> work'[s]]
         /\ DOMAIN work'[r] = {}
         /\ View(r)' = [i \in Id |-> db'[i]]
         /\ \A s \in Request \ {r} : work'[s] = work[s]
<1>1. work' = [s \in Request |-> IF s = r THEN Nothing ELSE work[s]]
  BY DEF EndTransaction, TypeInv
<1>2. work'[r] = Nothing
  BY <1>1
<1>3. View(r)' = [i \in Id |-> db'[i]]
  BY <1>2 DEF View, Nothing
<1> QED BY <1>1, <1>2, <1>3 DEF Nothing

-----------------------------------------------------------------------------
(* The invariant is inductive: one lemma per action.                       *)

LEMMA InitSafe == Init => SafeInv
<1> SUFFICES ASSUME Init PROVE SafeInv
  OBVIOUS
<1>1. NewRow \in Row /\ NoCall \in Call
  BY DEF NewRow, Row, NoCall, Call, Op, Id
<1>2. \A r \in Request : DOMAIN work[r] = {} /\ work[r] = Nothing
  BY DEF Init, Nothing
<1>3. TypeOK
  BY <1>1, <1>2 DEF TypeOK, Init, Nothing
<1>4. CallGiven
  BY DEF CallGiven, Init, NoCall
<1>5. Rows(db)
  BY <1>1 DEF Init, Rows, RowOf, NewRow
<1>6. TypeInv
  BY <1>2, <1>3, <1>4, <1>5 DEF TypeInv, WorkOfOne, WorkRemains, Init
<1>7. ViewsClosed
  BY <1>2 DEF ViewsClosed, Closed, View, Init, NewRow
<1> QED BY <1>6, <1>7 DEF SafeInv

\* A deletion starts with a statement of its kind and no row written.
LEMMA BeginSafe ==
  ASSUME SafeInv, NEW r \in Request,
         BeginDeleteEpic(r) \/ BeginDeleteProject(r) \/ BeginDeleteStage(r)
  PROVE  SafeInv'
<1>1. PICK c \in Calls :
        /\ c.op \in DeleteOp /\ db[c.id].life # "new" /\ pc[r] = "idle"
        /\ call' = [call EXCEPT ![r] = c]
        /\ UNCHANGED <<db, work>>
        /\ \E s \in Statement :
             /\ pc' = [pc EXCEPT ![r] = s]
             /\ c.op = "deleteEpic" => s \in EpicStatement
             /\ c.op = "deleteProject" => s \in ProjectStatement
             /\ c.op = "deleteStage" => s \in StageStatement
  <2>1. CASE BeginDeleteEpic(r)
    BY <2>1 DEF BeginDeleteEpic, Begin, DeleteOp, Statement, EpicStatement
  <2>2. CASE BeginDeleteProject(r)
    BY <2>2 DEF BeginDeleteProject, Begin, DeleteOp, Statement, ProjectStatement
  <2>3. CASE BeginDeleteStage(r)
    BY <2>3 DEF BeginDeleteStage, Begin, DeleteOp, Statement, StageStatement
  <2> QED BY <2>1, <2>2, <2>3
<1>2. c \in Call
  BY CallsAssumption
<1>3. TypeOK'
  BY <1>1, <1>2 DEF SafeInv, TypeInv, TypeOK
<1>4. CallGiven'
  <2>1. SUFFICES ASSUME NEW s \in Request
                 PROVE  /\ pc'[s] # "idle" => call'[s].op \in DeleteOp /\ db[call'[s].id].life # "new"
                        /\ call'[s].op = "deleteEpic" =>
                             call'[s].id \in Epic /\ pc'[s] \in EpicStatement \cup {"commit"}
                        /\ call'[s].op = "deleteProject" =>
                             call'[s].id \in Project /\ pc'[s] \in ProjectStatement \cup {"commit"}
                        /\ call'[s].op = "deleteStage" =>
                             call'[s].id \in Stage /\ pc'[s] \in StageStatement \cup {"commit"}
    BY <1>1 DEF CallGiven
  <2>2. CASE s = r
    BY <1>1, <2>2, CallsAssumption DEF SafeInv, TypeInv, TypeOK
  <2>3. CASE s # r
    BY <1>1, <2>3 DEF SafeInv, TypeInv, TypeOK, CallGiven
  <2> QED BY <2>2, <2>3
<1>5. TypeInv'
  BY <1>1, <1>3, <1>4 DEF SafeInv, TypeInv, Rows, WorkOfOne, WorkRemains
<1>6. ViewsClosed'
  <2>1. \A s \in Request : View(s)' = View(s)
    BY <1>1 DEF View
  <2> QED BY <1>1, <2>1 DEF SafeInv, ViewsClosed, Closed, Live
<1> QED BY <1>5, <1>6 DEF SafeInv

LEMMA StatementSafe ==
  ASSUME SafeInv, NEW r \in Request, ExecuteStatement(r)
  PROVE  SafeInv'
<1> USE DEF SafeInv
<1>1. /\ pc[r] \in DOMAIN After
      /\ Written(r) \cap LockedByOthers(r) = {}
      /\ pc' = [pc EXCEPT ![r] = After[pc[r]]]
      /\ UNCHANGED <<db, call>>
  BY DEF ExecuteStatement
<1>2. /\ work' = [s \in Request |-> work'[s]]
      /\ DOMAIN work'[r] = DOMAIN work[r] \cup Written(r)
      /\ \A i \in DOMAIN work'[r] : work'[r][i] = Effect(r)[i]
      /\ View(r)' = Effect(r)
      /\ \A s \in Request \ {r} : work'[s] = work[s] /\ View(s)' = View(s)
  BY StatementViews
<1>3. Shrunk(Effect(r), View(r)) /\ Closed(Effect(r))
  BY <1>1, EffectShrinks
<1>4. DOMAIN work'[r] \subseteq Id
  BY <1>2 DEF TypeInv, TypeOK, Written
<1>5. TypeOK'
  <2>1. work'[r] \in [DOMAIN work'[r] -> Row]
    <3>1. work'[r] = [i \in DOMAIN work[r] \cup Written(r) |-> Effect(r)[i]]
      BY DEF ExecuteStatement, TypeInv
    <3> QED BY <1>2, <1>3, <1>4, <3>1 DEF Shrunk
  <2>2. pc' \in [Request -> Statement \cup {"idle"}]
    BY <1>1 DEF TypeInv, TypeOK, After, Statement
  <2> QED BY <1>1, <1>2, <1>4, <2>1, <2>2 DEF TypeInv, TypeOK
<1>6. CallGiven'
  <2>1. /\ pc[r] \in EpicStatement => After[pc[r]] \in EpicStatement \cup {"commit"}
        /\ pc[r] \in ProjectStatement => After[pc[r]] \in ProjectStatement \cup {"commit"}
        /\ pc[r] \in StageStatement => After[pc[r]] \in StageStatement \cup {"commit"}
        /\ pc[r] # "idle" /\ pc[r] # "commit"
    BY <1>1 DEF After, EpicStatement, ProjectStatement, StageStatement
  <2> QED BY <1>1, <2>1 DEF CallGiven, TypeInv, TypeOK
<1>7. WorkOfOne'
  <2>1. \A s \in Request \ {r} : DOMAIN work'[r] \cap DOMAIN work'[s] = {}
    BY <1>1, <1>2 DEF LockedByOthers, TypeInv, WorkOfOne
  <2> QED BY <1>2, <2>1 DEF WorkOfOne, TypeInv
<1>8. WorkRemains'
  <2>1. ASSUME NEW i \in DOMAIN work'[r]
        PROVE  Remains(work'[r][i], db[i]) /\ Live(db, i)
    <3>1. i \in Id /\ work'[r][i] = Effect(r)[i]
      BY <1>2, <1>4
    <3>2. Remains(Effect(r)[i], View(r)[i]) /\ Remains(View(r)[i], db[i]) /\ db[i] \in Row
      BY <1>3, <3>1, ViewTyped DEF Shrunk, TypeInv, Rows
    <3>3. CASE i \in DOMAIN work[r]
      BY <3>1, <3>2, <3>3, RemainsOfRemains DEF TypeInv, WorkRemains
    <3>4. CASE i \notin DOMAIN work[r]
      <4>1. Effect(r)[i] # View(r)[i] /\ View(r)[i] = db[i]
        BY <1>2, <3>1, <3>4 DEF Written, View
      <4> QED BY <3>1, <3>2, <4>1 DEF Remains, Live
    <3> QED BY <3>3, <3>4
  <2> QED BY <1>1, <1>2, <2>1 DEF WorkRemains, TypeInv, Live
<1>9. TypeInv'
  BY <1>1, <1>2, <1>5, <1>6, <1>7, <1>8 DEF TypeInv, Rows
<1>10. ViewsClosed'
  <2>1. \A s \in Request : Closed(View(s))'
    BY <1>2, <1>3 DEF ViewsClosed, Closed, Live
  <2>2. Closed(db)'
    BY <1>1 DEF ViewsClosed, Closed, Live
  <2> QED BY <2>1, <2>2 DEF ViewsClosed
<1> QED BY <1>9, <1>10

\* A transaction that fails leaves no trace.
LEMMA RollbackSafe ==
  ASSUME SafeInv, NEW r \in Request, EndTransaction(r), UNCHANGED db
  PROVE  SafeInv'
<1> USE DEF SafeInv
<1>1. /\ work' = [s \in Request |-> work'[s]]
      /\ work'[r] = Nothing
      /\ DOMAIN work'[r] = {}
      /\ View(r)' = [i \in Id |-> db'[i]]
      /\ \A s \in Request \ {r} : work'[s] = work[s]
  BY EndViews DEF EndTransaction, TypeInv
<1>2. NoCall \in Call /\ NoCall.op = "none"
  BY DEF NoCall, Call, Op, Id
<1>3. pc' = [pc EXCEPT ![r] = "idle"] /\ call' = [call EXCEPT ![r] = NoCall]
  BY DEF EndTransaction
<1>4. TypeOK'
  BY <1>1, <1>2, <1>3 DEF TypeInv, TypeOK, Nothing
<1>5. CallGiven'
  BY <1>2, <1>3 DEF TypeInv, TypeOK, CallGiven
<1>6. WorkOfOne' /\ WorkRemains'
  BY <1>1 DEF TypeInv, WorkOfOne, WorkRemains, Live
<1>7. TypeInv'
  BY <1>1, <1>4, <1>5, <1>6 DEF TypeInv, Rows
<1>8. ViewsClosed'
  <2>1. \A s \in Request \ {r} : View(s)' = View(s)
    BY <1>1 DEF View
  <2>2. View(r)' = db
    BY <1>1 DEF TypeInv, TypeOK
  <2> QED BY <2>1, <2>2 DEF ViewsClosed, Closed, Live
<1> QED BY <1>7, <1>8

\* One transaction's view becomes the committed state.  The views of the
\* others stay closed: a row that refers to another one does so in both
\* views, so that neither transaction has deleted what it refers to.
LEMMA CommitSafe ==
  ASSUME SafeInv, NEW r \in Request, Commit(r)
  PROVE  SafeInv'
<1> USE DEF SafeInv
<1>1. db' = View(r) /\ EndTransaction(r)
  BY DEF Commit
<1>2. /\ work' = [s \in Request |-> work'[s]]
      /\ work'[r] = Nothing
      /\ DOMAIN work'[r] = {}
      /\ View(r)' = [i \in Id |-> db'[i]]
      /\ \A s \in Request \ {r} : work'[s] = work[s]
  BY <1>1, EndViews DEF EndTransaction, TypeInv
<1>3. NoCall \in Call /\ NoCall.op = "none"
  BY DEF NoCall, Call, Op, Id
<1>4. pc' = [pc EXCEPT ![r] = "idle"] /\ call' = [call EXCEPT ![r] = NoCall]
  BY <1>1 DEF EndTransaction
<1>5. Shrunk(View(r), db) /\ Rows(View(r)) /\ Closed(View(r))
  BY ViewTyped DEF ViewsClosed
<1>6. TypeOK'
  BY <1>1, <1>2, <1>3, <1>4, <1>5 DEF TypeInv, TypeOK, Nothing, Rows
<1>7. CallGiven'
  <2>1. SUFFICES ASSUME NEW s \in Request, s # r, pc[s] # "idle"
                 PROVE  db'[call[s].id].life # "new"
    BY <1>3, <1>4 DEF TypeInv, TypeOK, CallGiven
  <2>2. call[s].id \in Id /\ db[call[s].id].life # "new"
    BY <2>1 DEF TypeInv, CallGiven, DeleteOp, Id
  <2> QED BY <1>1, <1>5, <2>2 DEF Shrunk, Remains
<1>8. WorkOfOne'
  BY <1>2 DEF TypeInv, WorkOfOne
<1>9. WorkRemains'
  <2>1. SUFFICES ASSUME NEW s \in Request, s # r, NEW i \in DOMAIN work[s]
                 PROVE  db'[i] = db[i]
    BY <1>2 DEF TypeInv, WorkRemains, Live
  <2>2. i \in Id /\ i \notin DOMAIN work[r]
    BY <2>1 DEF TypeInv, TypeOK, WorkOfOne
  <2> QED BY <1>1, <2>2 DEF View
<1>10. TypeInv'
  BY <1>1, <1>2, <1>5, <1>6, <1>7, <1>8, <1>9 DEF TypeInv, Rows
<1>11. ViewsClosed'
  <2>1. Closed(db)'
    BY <1>1, <1>5 DEF Closed, Live
  <2>2. Closed(View(r))'
    <3>1. View(r)' = db'
      BY <1>1, <1>2, <1>5 DEF Rows
    <3> QED BY <2>1, <3>1 DEF Closed, Live
  <2>3. ASSUME NEW s \in Request, s # r
        PROVE  Closed(View(s))'
    <3> DEFINE u == View(r)
               v == View(s)
               w == View(s)'
    <3>1. \A i \in Id : w[i] \in {u[i], v[i]}
      BY <1>1, <1>2, <2>3 DEF View
    <3>2. Shrunk(u, db) /\ Rows(u) /\ Closed(u) /\ Shrunk(v, db) /\ Rows(v) /\ Closed(v) /\ Rows(db)
      BY <1>5, <2>3, ViewTyped DEF ViewsClosed, TypeInv
    \* A transaction that has not locked a row sees the committed one.
    <3>3. \A i \in Id : \/ w[i] = u[i] /\ v[i] = db[i]
                        \/ w[i] = v[i] /\ u[i] = db[i]
      BY <1>1, <1>2, <2>3 DEF View, TypeInv, WorkOfOne
    <3>4. ASSUME NEW i \in Id
          PROVE  /\ w[i].epic # None => u[i].epic = w[i].epic /\ v[i].epic = w[i].epic
                 /\ w[i].project # None => u[i].project = w[i].project /\ v[i].project = w[i].project
                 /\ w[i].stage # None => u[i].stage = w[i].stage /\ v[i].stage = w[i].stage
      <4>1. Remains(u[i], db[i]) /\ Remains(v[i], db[i])
        BY <3>2 DEF Shrunk
      <4>2. \/ w[i] = u[i] /\ v[i] = db[i]
            \/ w[i] = v[i] /\ u[i] = db[i]
        BY <3>3
      <4> HIDE DEF u, v, w
      <4> QED BY <4>1, <4>2 DEF Remains
    <3>5. \A j \in Id : Live(u, j) /\ Live(v, j) => Live(w, j)
      BY <3>1 DEF Live
    <3> HIDE DEF u, v, w
    <3>6. ASSUME NEW i \in Id
          PROVE  /\ w[i].epic # None => Live(w, w[i].epic)
                 /\ w[i].project # None => Live(w, w[i].project)
                 /\ w[i].stage # None => Live(w, w[i].stage)
      <4>1. u[i] \in Row
        BY <3>2 DEF Rows
      <4>2. w[i].epic # None => w[i].epic \in Id /\ Live(u, w[i].epic) /\ Live(v, w[i].epic)
        BY <3>2, <3>4, <4>1 DEF Closed, Row, Id
      <4>3. w[i].project # None
              => w[i].project \in Id /\ Live(u, w[i].project) /\ Live(v, w[i].project)
        BY <3>2, <3>4, <4>1 DEF Closed, Row, Id
      <4>4. w[i].stage # None => w[i].stage \in Id /\ Live(u, w[i].stage) /\ Live(v, w[i].stage)
        BY <3>2, <3>4, <4>1 DEF Closed, Row, Id
      <4> QED BY <3>5, <4>2, <4>3, <4>4
    <3>7. Closed(w)
      BY <3>6 DEF Closed
    <3> QED BY <3>7 DEF w, Closed, Live
  <2> QED BY <2>1, <2>2, <2>3 DEF ViewsClosed
<1> QED BY <1>10, <1>11

\* Writing one row that refers to rows that are there, and that nothing
\* refers to if it goes, makes no reference dangle.
LEMMA WriteClosed ==
  ASSUME NEW v, Rows(v), Closed(v), NEW i \in Id, NEW row, RowOf(i, row),
         row.life = "live" \/ i \in Todo,
         \A x \in {row.epic, row.project, row.stage} : x # None => Live(v, x)
  PROVE  Rows([v EXCEPT ![i] = row]) /\ Closed([v EXCEPT ![i] = row])
<1> DEFINE w == [v EXCEPT ![i] = row]
<1>1. w \in [Id -> Row] /\ \A j \in Id : w[j] = IF j = i THEN row ELSE v[j]
  BY DEF Rows, RowOf
<1>2. Rows(w)
  BY <1>1 DEF Rows
<1>3. \A x \in Epic \cup Project \cup Stage : Live(v, x) => Live(w, x)
  BY <1>1, KindsAssumption DEF Live, Id
<1>4. Closed(w)
  BY <1>1, <1>3 DEF Closed, Rows, RowOf, Row
<1> QED BY <1>2, <1>4

\* A reference that a mutation may make is to a row that every transaction
\* sees.
LEMMA ReferableSeen ==
  ASSUME TypeInv, NEW x \in Id \cup {None}, Referable(x), x # None
  PROVE  Live(db, x) /\ \A r \in Request : Live(View(r), x)
BY DEF Referable, Live, View

\* Mutations of one statement write a row that no transaction has locked.
LEMMA WriteSafe ==
  ASSUME SafeInv, NEW i \in Id, NEW row, Write(i, row), RowOf(i, row), row.life # "new",
         row.life = "live" \/ i \in Todo,
         \A x \in {row.epic, row.project, row.stage} :
           x # None => Referable(x) \/ x \in {db[i].epic, db[i].project, db[i].stage}
  PROVE  SafeInv'
<1> USE DEF SafeInv
<1>1. /\ \A r \in Request : i \notin DOMAIN work[r]
      /\ db' = [db EXCEPT ![i] = row]
      /\ UNCHANGED <<work, pc, call>>
  BY DEF Write
<1>2. /\ Rows(db) /\ Closed(db)
      /\ \A r \in Request : Rows(View(r)) /\ Closed(View(r))
  BY ViewTyped DEF TypeInv, ViewsClosed
<1>3. \A r \in Request : View(r)[i] = db[i]
  BY <1>1 DEF View
<1>4. ASSUME NEW x \in {row.epic, row.project, row.stage}, x # None
      PROVE  Live(db, x) /\ \A r \in Request : Live(View(r), x)
  <2>1. x \in Id \cup {None}
    BY DEF RowOf, Row, Id
  <2>2. CASE Referable(x)
    BY <1>4, <2>1, <2>2, ReferableSeen
  <2>3. CASE x \in {db[i].epic, db[i].project, db[i].stage}
    <3>1. Live(db, x)
      BY <1>2, <1>4, <2>3 DEF Closed
    <3>2. ASSUME NEW r \in Request PROVE Live(View(r), x)
      <4>1. Closed(View(r)) /\ x \in {View(r)[i].epic, View(r)[i].project, View(r)[i].stage}
        BY <1>2, <1>3, <2>3
      <4> QED BY <1>4, <4>1 DEF Closed
    <3> QED BY <3>1, <3>2
  <2> QED BY <1>4, <2>2, <2>3
<1>5. Rows(db') /\ Closed(db')
  BY <1>1, <1>2, <1>4, WriteClosed
<1>6. ASSUME NEW r \in Request
      PROVE  Closed(View(r)')
  <2>1. View(r)' = [View(r) EXCEPT ![i] = row]
    <3> DEFINE v == View(r)
    <3>1. View(r)' = [j \in Id |-> IF j \in DOMAIN work[r] THEN work[r][j]
                                                          ELSE [db EXCEPT ![i] = row][j]]
      BY <1>1 DEF View
    <3>2. \A j \in Id : View(r)'[j] = IF j = i THEN row ELSE v[j]
      BY <1>1, <1>2, <3>1 DEF View, Rows
    <3>3. v \in [Id -> Row]
      BY <1>2 DEF Rows
    <3> HIDE DEF v
    <3>4. [v EXCEPT ![i] = row] = [j \in Id |-> IF j = i THEN row ELSE v[j]]
      BY <3>3
    <3>5. View(r)' = [v EXCEPT ![i] = row]
      BY <3>1, <3>2, <3>4
    <3> QED BY <3>5 DEF v
  <2>2. Closed([View(r) EXCEPT ![i] = row])
    BY <1>2, <1>4, WriteClosed
  <2> QED BY <2>1, <2>2
<1>7. TypeOK' /\ WorkOfOne' /\ CallGiven'
  BY <1>1, <1>5 DEF TypeInv, TypeOK, WorkOfOne, CallGiven, Rows
<1>8. WorkRemains'
  BY <1>1 DEF TypeInv, TypeOK, WorkRemains, Live
<1>9. TypeInv'
  BY <1>1, <1>5, <1>7, <1>8 DEF TypeInv, Rows
<1>10. ViewsClosed'
  BY <1>5, <1>6 DEF ViewsClosed, Closed, Live
<1> QED BY <1>9, <1>10

\* The mutations of one statement.
Mutate ==
  CreateEpic \/ CreateProject \/ UpdateProject \/ CreateStage \/ CreateTodo \/ UpdateTodo \/ DeleteTodo

\* They give an identifier its row, delete a todo, or make a row refer to
\* other rows; none of them takes a reference away.
Written1(i, row) ==
  /\ Write(i, row) /\ RowOf(i, row)
  /\ \A x \in {row.epic, row.project, row.stage} :
       x # None => Referable(x) \/ x \in {db[i].epic, db[i].project, db[i].stage}
  /\ \/ db[i] = NewRow /\ row.life = "live"
     \/ Live(db, i) /\ i \in Todo /\ row = GoneRow
     \/ /\ Live(db, i) /\ row.life = "live"
        /\ db[i].epic # None => row.epic # None
        /\ db[i].project # None => row.project # None
        /\ db[i].stage # None => row.stage # None

LEMMA MutateWrites ==
  ASSUME TypeInv, Mutate
  PROVE  \E i \in Id, row \in Row : Written1(i, row)
<1>1. \A c \in Calls : c \in Call
  BY CallsAssumption
<1>2. \A i \in Id : RowOf(i, db[i]) /\ db[i] \in Row
  BY DEF TypeInv, Rows, RowOf
<1>3. CASE CreateEpic
  <2>1. PICK c \in Calls, i \in Epic : db[i] = NewRow /\ Write(i, LiveRow(None, None, None))
    BY <1>3 DEF CreateEpic
  <2> QED BY <2>1 DEF Written1, LiveRow, RowOf, Row, Id
<1>4. CASE CreateProject
  <2>1. PICK c \in Calls, i \in Project :
          db[i] = NewRow /\ Referable(c.epic) /\ Write(i, LiveRow(c.epic, None, None))
    BY <1>4 DEF CreateProject
  <2>2. c.epic \in Epic \cup {None}
    BY <1>1 DEF Call
  <2> QED BY <2>1, <2>2 DEF Written1, LiveRow, RowOf, Row, Id
<1>5. CASE UpdateProject
  <2>1. PICK c \in Calls :
          /\ c.op = "updateProject" /\ Live(db, c.id) /\ c.epic # None /\ Referable(c.epic)
          /\ Write(c.id, [db[c.id] EXCEPT !.epic = c.epic])
    BY <1>5 DEF UpdateProject
  <2> DEFINE i == c.id
             row == [db[i] EXCEPT !.epic = c.epic]
  <2>2. c.epic \in Epic /\ i \in Project /\ i \in Id
    BY <1>1, <2>1, CallsAssumption DEF Call, Id
  <2>3. /\ row \in Row /\ row.life = db[i].life /\ row.epic = c.epic
        /\ row.project = db[i].project /\ row.stage = db[i].stage
    BY <1>2, <2>2 DEF Row
  <2> HIDE DEF i, row
  <2>4. Write(i, row)
    BY <2>1 DEF i, row
  <2>5. Live(db, i) /\ Referable(c.epic) /\ c.epic # None
    BY <2>1 DEF i
  <2> QED BY <1>2, <2>2, <2>3, <2>4, <2>5 DEF Written1, RowOf, Live
<1>6. CASE CreateStage
  <2>1. PICK c \in Calls, i \in Stage :
          db[i] = NewRow /\ Referable(c.project) /\ Write(i, LiveRow(None, c.project, None))
    BY <1>6 DEF CreateStage
  <2>2. c.project \in Project \cup {None}
    BY <1>1 DEF Call
  <2> QED BY <2>1, <2>2 DEF Written1, LiveRow, RowOf, Row, Id
<1>7. CASE CreateTodo
  <2>1. PICK c \in Calls, i \in Todo :
          /\ db[i] = NewRow /\ Referable(c.project) /\ Referable(c.stage)
          /\ Write(i, LiveRow(None, c.project, c.stage))
    BY <1>7 DEF CreateTodo
  <2>2. c.project \in Project \cup {None} /\ c.stage \in Stage \cup {None}
    BY <1>1 DEF Call
  <2> QED BY <2>1, <2>2 DEF Written1, LiveRow, RowOf, Row, Id
<1>8. CASE UpdateTodo
  <2>1. PICK c \in Calls :
          /\ c.op = "updateTodo" /\ Live(db, c.id) /\ Referable(c.project) /\ Referable(c.stage)
          /\ Write(c.id, [db[c.id] EXCEPT
                            !.project = IF c.project = None THEN @ ELSE c.project,
                            !.stage = IF c.stage = None THEN @ ELSE c.stage])
    BY <1>8 DEF UpdateTodo
  <2> DEFINE i == c.id
             row == [db[i] EXCEPT !.project = IF c.project = None THEN @ ELSE c.project,
                                  !.stage = IF c.stage = None THEN @ ELSE c.stage]
  <2>2. /\ c.project \in Project \cup {None} /\ c.stage \in Stage \cup {None}
        /\ i \in Todo /\ i \in Id
    BY <1>1, <2>1, CallsAssumption DEF Call, Id
  <2>3. /\ row \in Row /\ row.life = db[i].life /\ row.epic = db[i].epic
        /\ row.project = IF c.project = None THEN db[i].project ELSE c.project
        /\ row.stage = IF c.stage = None THEN db[i].stage ELSE c.stage
    BY <1>2, <2>2 DEF Row
  <2> HIDE DEF i, row
  <2>4. Write(i, row)
    BY <2>1 DEF i, row
  <2>5. Live(db, i) /\ Referable(c.project) /\ Referable(c.stage)
    BY <2>1 DEF i
  <2> QED BY <1>2, <2>2, <2>3, <2>4, <2>5 DEF Written1, RowOf, Live
<1>9. CASE DeleteTodo
  <2>1. PICK c \in Calls : c.op = "deleteTodo" /\ Live(db, c.id) /\ Write(c.id, GoneRow)
    BY <1>9 DEF DeleteTodo
  <2>2. c.id \in Todo /\ c.id \in Id
    BY <2>1, CallsAssumption DEF Id
  <2> QED BY <2>1, <2>2 DEF Written1, GoneRow, NewRow, RowOf, Row
<1> QED BY <1>3, <1>4, <1>5, <1>6, <1>7, <1>8, <1>9 DEF Mutate

LEMMA MutateSafe ==
  ASSUME SafeInv, Mutate
  PROVE  SafeInv'
<1>1. PICK i \in Id, row \in Row : Written1(i, row)
  BY MutateWrites DEF SafeInv
<1>2. row.life # "new" /\ (row.life = "live" \/ i \in Todo)
  BY <1>1 DEF Written1, GoneRow, NewRow
<1> QED BY <1>1, <1>2, WriteSafe DEF Written1

\* The steps of module Hierarchy, sorted by what they do to transactions.
LEMMA Steps ==
  ASSUME [Next]_vars
  PROVE  \/ \E r \in Request : BeginDeleteEpic(r) \/ BeginDeleteProject(r) \/ BeginDeleteStage(r)
         \/ \E r \in Request : ExecuteStatement(r)
         \/ \E r \in Request : Commit(r)
         \/ \E r \in Request : EndTransaction(r) /\ UNCHANGED db
         \/ Mutate
         \/ UNCHANGED vars
BY DEF Next, Execute, Abort, DeadlockVictim, Mutate

LEMMA NextSafe ==
  ASSUME SafeInv, [Next]_vars
  PROVE  SafeInv'
<1>1. CASE \E r \in Request : BeginDeleteEpic(r) \/ BeginDeleteProject(r) \/ BeginDeleteStage(r)
  BY <1>1, BeginSafe
<1>2. CASE \E r \in Request : ExecuteStatement(r)
  BY <1>2, StatementSafe
<1>3. CASE \E r \in Request : Commit(r)
  BY <1>3, CommitSafe
<1>4. CASE \E r \in Request : EndTransaction(r) /\ UNCHANGED db
  BY <1>4, RollbackSafe
<1>5. CASE Mutate
  BY <1>5, MutateSafe
<1>6. CASE UNCHANGED vars
  BY <1>6 DEF vars, SafeInv, TypeInv, TypeOK, CallGiven, Rows, WorkOfOne, WorkRemains, ViewsClosed,
              Closed, View, Live
<1> QED BY <1>1, <1>2, <1>3, <1>4, <1>5, <1>6, Steps

\* The inductive invariant holds in every reachable state.
THEOREM AlwaysSafe == Spec => []SafeInv
BY InitSafe, NextSafe, PTL DEF Spec

\* Rows, what open transactions have written, and requests keep their types.
THEOREM TypeCorrect == Spec => []TypeOK
<1>1. SafeInv => TypeOK
  BY DEF SafeInv, TypeInv
<1> QED BY <1>1, AlwaysSafe, PTL

\* Whatever deletions, moves and creations run at once, commit or roll back,
\* every reference of a committed row leads to a committed row.
THEOREM NoReferenceDangles == Spec => []NoDanglingReference
<1>1. SafeInv => NoDanglingReference
  BY DEF SafeInv, ViewsClosed, Closed, NoDanglingReference
<1> QED BY <1>1, AlwaysSafe, PTL
=============================================================================
