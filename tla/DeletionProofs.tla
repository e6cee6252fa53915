---------------------------- MODULE DeletionProofs ----------------------------
(***************************************************************************)
(* What a deletion does to the children of the row it deletes, proved for  *)
(* every number of rows and of concurrent deletions.                       *)
(*                                                                         *)
(* Each property is about the step that commits a deletion; it follows     *)
(* from an invariant about the rows that the transaction has written so    *)
(* far, which the steps of the other requests leave alone.                 *)
(***************************************************************************)
EXTENDS HierarchyProofs

\* The statement of a request that keeps, or drops, the children; a request
\* that executes nothing has written nothing.
PathTaken(r) ==
  /\ pc[r] = "idle" => DOMAIN work[r] = {}
  /\ pc[r] \in {"detachProjectsFromEpic", "detachTodosFromProject", "detachStagesFromProject",
                "detachTodosFromStage"} => KeepsChildren(call[r])
  /\ pc[r] \in {"deleteProjectsByEpic", "deleteTodosByStage"} => ~KeepsChildren(call[r])

\* When only the commit is left, the row that is to be deleted is gone.
ParentGone(r) == pc[r] = "commit" => ~Live(View(r), call[r].id)

\* deleteEpic and deleteStage, keeping the children, delete nothing else.
OthersKept(r) ==
  call[r].op # "deleteProject" /\ KeepsChildren(call[r])
    => \A i \in DOMAIN work[r] : i # call[r].id => work[r][i].life = "live"

\* deleteProject, dropping the children, is one statement that deletes what
\* is in the project.
ChildrenDropped(r) ==
  call[r].op = "deleteProject" /\ ~KeepsChildren(call[r])
    => /\ pc[r] = "deleteProject" => DOMAIN work[r] = {}
       /\ \A i \in DOMAIN work[r] : db[i].project = call[r].id => work[r][i].life = "gone"

\* Rows w come from rows v by detaching rows from p and from rows that are
\* not there any more.
Orphaned(w, v, i, p) ==
  w[i].life = "live" =>
    /\ w[i].epic # v[i].epic => v[i].epic = p \/ ~Live(w, v[i].epic)
    /\ w[i].project # v[i].project => v[i].project = p \/ ~Live(w, v[i].project)
    /\ w[i].stage # v[i].stage => v[i].stage = p \/ ~Live(w, v[i].stage)

Orphans(r) == \A i \in Id : Orphaned(View(r), db, i, call[r].id)

DeletionInv ==
  \A r \in Request : /\ PathTaken(r) /\ ParentGone(r)
                     /\ OthersKept(r) /\ ChildrenDropped(r) /\ Orphans(r)

-----------------------------------------------------------------------------
(* What the statements do to the rows, beyond what HierarchyProofs says.   *)

LEMMA RemovedNotLive ==
  ASSUME NEW v, NEW ids, NEW i \in Id, i \in ids
  PROVE  ~Live(Remove(v, ids), i)
BY DEF Remove, Live, GoneRow, NewRow

LEMMA OrphanedRemove ==
  ASSUME NEW v, NEW ids, NEW p, NEW i \in Id
  PROVE  Orphaned(Remove(v, ids), v, i, p)
BY DEF Remove, Orphaned, GoneRow, NewRow, Live

\* Detaching from p, then taking more away.
LEMMA OrphanedOrphaned ==
  ASSUME NEW u, NEW v, NEW w, NEW p, NEW i \in Id, Rows(v), Shrunk(u, v), Shrunk(w, u),
         Orphaned(u, v, i, p), Orphaned(w, u, i, p)
  PROVE  Orphaned(w, v, i, p)
<1>1. v[i] \in Row /\ Remains(u[i], v[i]) /\ Remains(w[i], u[i])
  BY DEF Rows, Shrunk
<1>2. \A j \in Id : ~Live(u, j) => ~Live(w, j)
  BY DEF Shrunk, Remains, Live
<1>3. w[i].life = "live" => u[i].life = "live"
  BY <1>1 DEF Remains
<1>4. \A x \in {v[i].epic, v[i].project, v[i].stage} : x = None \/ x \in Id
  BY <1>1 DEF Row, Id
<1>5. ASSUME w[i].life = "live", w[i].epic # v[i].epic
      PROVE  v[i].epic = p \/ ~Live(w, v[i].epic)
  <2>1. v[i].epic # None
    BY <1>1, <1>5 DEF Remains
  <2> QED BY <1>2, <1>3, <1>4, <1>5, <2>1 DEF Orphaned
<1>6. ASSUME w[i].life = "live", w[i].project # v[i].project
      PROVE  v[i].project = p \/ ~Live(w, v[i].project)
  <2>1. v[i].project # None
    BY <1>1, <1>6 DEF Remains
  <2> QED BY <1>2, <1>3, <1>4, <1>6, <2>1 DEF Orphaned
<1>7. ASSUME w[i].life = "live", w[i].stage # v[i].stage
      PROVE  v[i].stage = p \/ ~Live(w, v[i].stage)
  <2>1. v[i].stage # None
    BY <1>1, <1>7 DEF Remains
  <2> QED BY <1>2, <1>3, <1>4, <1>7, <2>1 DEF Orphaned
<1> QED BY <1>5, <1>6, <1>7 DEF Orphaned

LEMMA OrphanedDetach ==
  ASSUME NEW v, Rows(v), NEW p \in Id, NEW i \in Id, NEW w,
         w \in {DetachFromEpic(v, p), DetachTodosFromProject(v, p), DetachStagesFromProject(v, p),
                DetachFromStage(v, p)}
  PROVE  Orphaned(w, v, i, p)
<1>1. v[i] \in Row
  BY DEF Rows
<1> QED BY <1>1 DEF Orphaned, DetachFromEpic, DetachTodosFromProject, DetachStagesFromProject,
              DetachFromStage, ProjectsOf, TodosOf, StagesOf, TodosIn, Row

LEMMA OrphanedRemoveStages ==
  ASSUME NEW v, Rows(v), NEW ss \in SUBSET Stage, NEW p, NEW i \in Id
  PROVE  Orphaned(RemoveStages(v, ss), v, i, p)
<1> DEFINE u == [j \in Id |-> IF v[j].stage \in ss THEN [v[j] EXCEPT !.stage = None] ELSE v[j]]
           w == Remove(u, ss)
<1>1. v[i] \in Row
  BY DEF Rows
<1>2. /\ u[i].life = v[i].life /\ u[i].epic = v[i].epic /\ u[i].project = v[i].project
      /\ u[i].stage # v[i].stage => v[i].stage \in ss
  BY <1>1 DEF Row
<1>3. w = RemoveStages(v, ss)
  BY DEF RemoveStages
<1>4. \A j \in ss : ~Live(w, j)
  BY RemovedNotLive DEF Id
<1>5. w[i].life = "live" => w[i] = u[i]
  BY DEF Remove, GoneRow, NewRow
<1> HIDE DEF u, w
<1>6. Orphaned(w, v, i, p)
  BY <1>2, <1>4, <1>5 DEF Orphaned
<1> QED BY <1>3, <1>6

LEMMA OrphanedRemoveProjects ==
  ASSUME NEW v, Rows(v), Closed(v), NEW ps \in SUBSET Project, NEW p, NEW i \in Id
  PROVE  Orphaned(RemoveProjects(v, ps), v, i, p)
<1> DEFINE todos  == {t \in Todo : v[t].project \in ps}
           stages == {s \in Stage : v[s].project \in ps}
           u == Remove(v, todos)
           w == RemoveStages(u, stages)
           x == Remove(w, ps)
<1>1. /\ todos \subseteq Todo /\ stages \subseteq Stage
      /\ \A j \in Id : v[j].project \in ps => j \in todos \cup stages
  BY NoneAssumption DEF Rows, RowOf, Id
<1>2. \A j \in Id : v[j].epic \notin todos /\ v[j].project \notin todos /\ v[j].stage \notin todos
  BY <1>1, KindsAssumption, NoneAssumption DEF Rows, RowOf, Row, Id
<1>3. Shrunk(u, v) /\ Closed(u) /\ Rows(u)
  BY <1>2, RemoveShrinks, ShrunkRows
<1>4. Shrunk(w, u) /\ Closed(w) /\ Rows(w)
  BY <1>1, <1>3, RemoveStagesShrinks, ShrunkRows
<1>5. x = RemoveProjects(v, ps) /\ Shrunk(x, v)
  BY RemoveProjectsShrinks DEF RemoveProjects
<1>6. Orphaned(u, v, i, p) /\ Orphaned(w, u, i, p)
  BY <1>1, <1>3, OrphanedRemove, OrphanedRemoveStages
<1> HIDE DEF w
<1>7. Orphaned(w, v, i, p)
  BY <1>3, <1>4, <1>6, OrphanedOrphaned
<1>8. Orphaned(x, v, i, p)
  <2>1. CASE i \in ps /\ Live(w, i)
    BY <2>1 DEF x, Remove, Orphaned, GoneRow, NewRow
  <2>2. CASE ~(i \in ps /\ Live(w, i))
    <3>1. x[i] = w[i]
      BY <2>2 DEF Remove
    <3>2. \A j : ~Live(w, j) /\ j \in Id => ~Live(x, j)
      BY DEF Remove, Live, GoneRow, NewRow
    <3>3. v[i] \in Row /\ Remains(w[i], v[i])
      BY <1>3, <1>4, ShrunkShrunk DEF Rows, Shrunk
    <3> HIDE DEF x
    <3> QED BY <1>7, <3>1, <3>2, <3>3 DEF Orphaned, Remains, Row, Id
  <2> QED BY <2>1, <2>2
<1> QED BY <1>5, <1>8

LEMMA OrphanedRemoveEpic ==
  ASSUME NEW v, Rows(v), Closed(v), NEW e \in Epic, NEW i \in Id
  PROVE  Orphaned(RemoveEpic(v, e), v, i, e)
<1> DEFINE u == DetachFromEpic(v, e)
           w == Remove(u, {e})
<1>1. e \in Id
  BY DEF Id
<1>2. Orphaned(u, v, i, e) /\ v[i] \in Row
  BY <1>1, OrphanedDetach DEF Rows
<1>3. w = RemoveEpic(v, e)
  BY DEF RemoveEpic
<1>4. w[i].life = "live" => w[i] = u[i]
  BY DEF Remove, GoneRow, NewRow
<1>5. \A j \in Id : ~Live(u, j) => ~Live(w, j)
  BY DEF Remove, Live, GoneRow, NewRow
<1>6. \A j \in {v[i].epic, v[i].project, v[i].stage} : j = None \/ j \in Id
  BY <1>2 DEF Row, Id
<1>7. Remains(u[i], v[i])
  BY <1>1, DetachShrinks DEF Shrunk
<1> HIDE DEF u, w
<1>8. Orphaned(w, v, i, e)
  BY <1>2, <1>4, <1>5, <1>6, <1>7 DEF Orphaned, Remains
<1> QED BY <1>3, <1>8

\* A statement detaches rows only from its own row, or from rows it deletes.
LEMMA EffectOrphans ==
  ASSUME SafeInv, NEW r \in Request, pc[r] \in DOMAIN After, NEW j \in Id
  PROVE  Orphaned(Effect(r), View(r), j, call[r].id)
<1> DEFINE v == View(r)
           i == call[r].id
<1>1. TypeInv /\ Rows(v) /\ Closed(v)
  BY ViewTyped DEF SafeInv, ViewsClosed
<1>2. CASE pc[r] \in EpicStatement
  <2>1. i \in Epic /\ i \in Id /\ ProjectsOf(v, i) \subseteq Project
    BY <1>1, <1>2, StatementCall DEF Id, ProjectsOf
  <2>2. Effect(r) \in {DetachFromEpic(v, i), RemoveProjects(v, ProjectsOf(v, i)), RemoveEpic(v, i)}
    BY <1>2 DEF Effect, EpicStatement
  <2> QED BY <1>1, <2>1, <2>2, OrphanedDetach, OrphanedRemoveProjects, OrphanedRemoveEpic
<1>3. CASE pc[r] \in ProjectStatement
  <2>1. i \in Project /\ i \in Id
    BY <1>1, <1>3, StatementCall DEF Id
  <2>2. Effect(r) \in {DetachTodosFromProject(v, i), DetachStagesFromProject(v, i),
                       RemoveProjects(v, {i})}
    BY <1>3 DEF Effect, ProjectStatement
  <2> QED BY <1>1, <2>1, <2>2, OrphanedDetach, OrphanedRemoveProjects
<1>4. CASE pc[r] \in StageStatement
  <2>1. i \in Stage /\ i \in Id
    BY <1>1, <1>4, StatementCall DEF Id
  <2>2. Effect(r) \in {DetachFromStage(v, i), Remove(v, TodosIn(v, i)), RemoveStages(v, {i})}
    BY <1>4 DEF Effect, StageStatement
  <2> QED BY <1>1, <2>1, <2>2, OrphanedDetach, OrphanedRemove, OrphanedRemoveStages
<1> QED BY <1>1, <1>2, <1>3, <1>4, StatementCall

\* The last statement deletes the row itself, whatever arrived meanwhile.
LEMMA EffectDeletesParent ==
  ASSUME SafeInv, NEW r \in Request, pc[r] \in DOMAIN After, After[pc[r]] = "commit"
  PROVE  ~Live(Effect(r), call[r].id)
<1> DEFINE v == View(r)
           i == call[r].id
<1>1. TypeInv
  BY DEF SafeInv
<1>2. CASE pc[r] = "deleteEpic"
  <2>1. i \in Id
    BY <1>1, <1>2, StatementCall DEF Id, EpicStatement
  <2> QED BY <1>2, <2>1, RemovedNotLive DEF Effect, RemoveEpic
<1>3. CASE pc[r] = "deleteProject"
  <2>1. i \in Id
    BY <1>1, <1>3, StatementCall DEF Id, ProjectStatement
  <2> QED BY <1>3, <2>1, RemovedNotLive DEF Effect, RemoveProjects
<1>4. CASE pc[r] = "deleteStage"
  <2>1. i \in Id
    BY <1>1, <1>4, StatementCall DEF Id, StageStatement
  <2> QED BY <1>4, <2>1, RemovedNotLive DEF Effect, RemoveStages
<1> QED BY <1>2, <1>3, <1>4 DEF After

\* Keeping the children, deleteEpic and deleteStage delete no other row.
LEMMA EffectKeepsOthers ==
  ASSUME SafeInv, NEW r \in Request, PathTaken(r), pc[r] \in DOMAIN After,
         call[r].op # "deleteProject", KeepsChildren(call[r]),
         NEW i \in Id, i # call[r].id
  PROVE  Effect(r)[i].life = View(r)[i].life
<1> DEFINE v == View(r)
           p == call[r].id
<1>1. TypeInv /\ Rows(v) /\ Closed(v) /\ v[i] \in Row
  BY ViewTyped DEF SafeInv, ViewsClosed, Rows
<1>2. CASE pc[r] \in {"detachProjectsFromEpic", "detachTodosFromStage"}
  <2>1. p \in Id
    BY <1>1, <1>2, StatementCall DEF Id, EpicStatement, StageStatement
  <2>2. Effect(r) \in {DetachFromEpic(v, p), DetachFromStage(v, p)}
    BY <1>2 DEF Effect
  <2> QED BY <1>1, <2>1, <2>2, DetachShrinks
<1>3. CASE pc[r] = "deleteEpic"
  <2>1. p \in Id
    BY <1>1, <1>3, StatementCall DEF Id, EpicStatement
  <2>2. Effect(r) = Remove(DetachFromEpic(v, p), {p})
    BY <1>3 DEF Effect, RemoveEpic
  <2>3. Remove(DetachFromEpic(v, p), {p})[i] = DetachFromEpic(v, p)[i]
    BY DEF Remove
  <2>4. DetachFromEpic(v, p)[i].life = v[i].life
    BY <1>1, <2>1, DetachShrinks
  <2> QED BY <2>2, <2>3, <2>4
<1>4. CASE pc[r] = "deleteStage"
  <2>1. Effect(r) = RemoveStages(v, {p})
    BY <1>4 DEF Effect
  <2> QED BY <1>1, <2>1 DEF RemoveStages, Remove, Row
<1> QED BY <1>1, <1>2, <1>3, <1>4, StatementCall
        DEF EpicStatement, ProjectStatement, StageStatement, PathTaken

\* Dropping the children, deleteProject deletes everything in the project.
LEMMA EffectDropsChildren ==
  ASSUME SafeInv, NEW r \in Request, pc[r] = "deleteProject",
         NEW i \in Id, View(r)[i].project = call[r].id
  PROVE  Effect(r)[i].life = "gone"
<1> DEFINE v == View(r)
           p == call[r].id
           todos  == {t \in Todo : v[t].project \in {p}}
           stages == {s \in Stage : v[s].project \in {p}}
           w == RemoveStages(Remove(v, todos), stages)
<1>1. TypeInv /\ Rows(v)
  BY ViewTyped DEF SafeInv
<1>2. p \in Project
  BY <1>1, StatementCall DEF After, ProjectStatement
<1>3. w[i].life = "gone"
  <2>1. {p} \in SUBSET Project /\ v[i].project \in {p}
    BY <1>2
  <2> HIDE DEF v, p
  <2> QED BY <1>1, <2>1, CascadeReaches, Zenon
<1>4. Effect(r) = Remove(w, {p})
  BY DEF Effect, RemoveProjects
<1> HIDE DEF w
<1> QED BY <1>3, <1>4 DEF Remove, Live

-----------------------------------------------------------------------------
(* The invariant is inductive.                                             *)

\* What a request is spared by the steps of the others: they leave alone the
\* rows it has locked, and bring no deleted row back.
Untouched(s) ==
  /\ work'[s] = work[s] /\ pc'[s] = pc[s] /\ call'[s] = call[s]
  /\ \A i \in DOMAIN work[s] : db'[i] = db[i]
  /\ \A i \in Id : db[i].life # "new" /\ ~Live(db, i) => ~Live(db', i)

LEMMA StepOfRequest ==
  ASSUME SafeInv, [Next]_vars, NEW s \in Request
  PROVE  \/ BeginDeleteEpic(s) \/ BeginDeleteProject(s) \/ BeginDeleteStage(s)
         \/ ExecuteStatement(s)
         \/ EndTransaction(s)
         \/ Untouched(s)
<1>1. /\ pc \in [Request -> Statement \cup {"idle"}] /\ call \in [Request -> Call]
      /\ work = [r \in Request |-> work[r]]
  BY DEF SafeInv, TypeInv, TypeOK
<1>2. CASE \E r \in Request : BeginDeleteEpic(r) \/ BeginDeleteProject(r) \/ BeginDeleteStage(r)
  BY <1>1, <1>2 DEF BeginDeleteEpic, BeginDeleteProject, BeginDeleteStage, Begin, Untouched, Live
<1>3. CASE \E r \in Request : ExecuteStatement(r)
  <2>1. PICK r \in Request : ExecuteStatement(r)
    BY <1>3
  <2>2. CASE s # r
    <3>1. work'[s] = work[s]
      BY <2>1, <2>2, StatementViews
    <3> QED BY <1>1, <2>1, <2>2, <3>1 DEF ExecuteStatement, Untouched, Live
  <2> QED BY <2>1, <2>2
<1>4. ASSUME NEW r \in Request, r # s, EndTransaction(r),
             \A i \in DOMAIN work[s] : db'[i] = db[i],
             \A i \in Id : db[i].life # "new" /\ ~Live(db, i) => ~Live(db', i)
      PROVE  Untouched(s)
  BY <1>1, <1>4 DEF EndTransaction, Untouched
<1>5. CASE \E r \in Request : Commit(r)
  <2>1. PICK r \in Request : Commit(r)
    BY <1>5
  <2>2. EndTransaction(r) /\ db' = View(r) /\ Shrunk(View(r), db)
    BY <2>1, ViewTyped DEF Commit, SafeInv
  <2>3. CASE s # r
    <3>1. \A i \in DOMAIN work[s] : i \in Id /\ i \notin DOMAIN work[r]
      BY <2>3 DEF SafeInv, TypeInv, TypeOK, WorkOfOne
    <3>2. \A i \in DOMAIN work[s] : db'[i] = db[i]
      BY <2>2, <3>1 DEF View
    <3>3. \A i \in Id : db[i].life # "new" /\ ~Live(db, i) => ~Live(db', i)
      BY <2>2 DEF Shrunk, Remains, Live
    <3> QED BY <1>4, <2>2, <2>3, <3>2, <3>3
  <2> QED BY <2>2, <2>3
<1>6. CASE \E r \in Request : EndTransaction(r) /\ UNCHANGED db
  BY <1>4, <1>6 DEF Live
<1>7. CASE Mutate
  <2>1. PICK i \in Id, row \in Row : Written1(i, row)
    BY <1>7, MutateWrites DEF SafeInv
  <2>2. \A j \in Id : db'[j] = IF j = i THEN row ELSE db[j]
    BY <2>1 DEF Written1, Write, SafeInv, TypeInv, TypeOK
  <2>3. i \notin DOMAIN work[s] /\ work'[s] = work[s] /\ pc'[s] = pc[s] /\ call'[s] = call[s]
    BY <2>1 DEF Written1, Write
  <2>4. DOMAIN work[s] \subseteq Id
    BY DEF SafeInv, TypeInv, TypeOK
  <2>5. db[i].life # "new" /\ ~Live(db, i) => ~Live(db', i)
    BY <2>1 DEF Written1, NewRow
  <2> QED BY <2>2, <2>3, <2>4, <2>5 DEF Untouched, Live
<1>8. CASE UNCHANGED vars
  BY <1>8 DEF vars, Untouched, Live
<1> QED BY <1>2, <1>3, <1>5, <1>6, <1>7, <1>8, Steps

LEMMA InitDeletion == Init => DeletionInv
<1> SUFFICES ASSUME Init, NEW r \in Request
             PROVE  /\ PathTaken(r) /\ ParentGone(r)
                    /\ OthersKept(r) /\ ChildrenDropped(r) /\ Orphans(r)
  BY DEF DeletionInv
<1>1. DOMAIN work[r] = {} /\ pc[r] = "idle" /\ call[r] = NoCall
  BY DEF Init, Nothing
<1>2. \A i \in Id : View(r)[i] = db[i]
  BY <1>1 DEF View
<1> QED BY <1>1, <1>2 DEF PathTaken, ParentGone, OthersKept, ChildrenDropped, Orphans, Orphaned,
              NoCall

LEMMA BeginDeletion ==
  ASSUME SafeInv, NEW r \in Request, PathTaken(r), Orphans(r),
         BeginDeleteEpic(r) \/ BeginDeleteProject(r) \/ BeginDeleteStage(r)
  PROVE  PathTaken(r)' /\ ParentGone(r)' /\ OthersKept(r)' /\ ChildrenDropped(r)' /\ Orphans(r)'
<1>1. PICK c \in Calls :
        /\ pc[r] = "idle" /\ call'[r] = c /\ UNCHANGED <<db, work>>
        /\ \/ c.op = "deleteEpic" /\ pc'[r] = IF KeepsChildren(c) THEN "detachProjectsFromEpic"
                                                                 ELSE "deleteProjectsByEpic"
           \/ c.op = "deleteProject" /\ pc'[r] = IF KeepsChildren(c) THEN "detachTodosFromProject"
                                                                    ELSE "deleteProject"
           \/ c.op = "deleteStage" /\ pc'[r] = IF KeepsChildren(c) THEN "detachTodosFromStage"
                                                                  ELSE "deleteTodosByStage"
  BY DEF BeginDeleteEpic, BeginDeleteProject, BeginDeleteStage, Begin, SafeInv, TypeInv, TypeOK
<1>2. work'[r] = work[r] /\ DOMAIN work[r] = {}
  BY <1>1 DEF PathTaken
<1>3. PathTaken(r)'
  BY <1>1, <1>2 DEF PathTaken
<1>4. ParentGone(r)' /\ OthersKept(r)' /\ ChildrenDropped(r)'
  BY <1>1, <1>2 DEF ParentGone, OthersKept, ChildrenDropped
<1>5. \A i \in Id : View(r)'[i] = db'[i]
  BY <1>2 DEF View
<1>6. Orphans(r)'
  BY <1>5 DEF Orphans, Orphaned
<1> QED BY <1>3, <1>4, <1>6

LEMMA StatementDeletion ==
  ASSUME SafeInv, NEW r \in Request, ExecuteStatement(r),
         PathTaken(r), OthersKept(r), ChildrenDropped(r), Orphans(r)
  PROVE  PathTaken(r)' /\ ParentGone(r)' /\ OthersKept(r)' /\ ChildrenDropped(r)' /\ Orphans(r)'
<1> DEFINE p == call[r].id
<1>1. /\ pc[r] \in DOMAIN After /\ pc'[r] = After[pc[r]]
      /\ UNCHANGED <<db, call>>
  BY DEF ExecuteStatement, SafeInv, TypeInv, TypeOK
<1>2. /\ DOMAIN work'[r] = DOMAIN work[r] \cup Written(r)
      /\ \A i \in DOMAIN work'[r] : work'[r][i] = Effect(r)[i]
      /\ View(r)' = Effect(r)
  BY StatementViews
<1>3. /\ Shrunk(Effect(r), View(r)) /\ Shrunk(View(r), db)
      /\ Rows(View(r)) /\ Rows(db)
  BY <1>1, EffectShrinks, ViewTyped DEF SafeInv, TypeInv
<1>4. DOMAIN work[r] \subseteq Id /\ Written(r) \subseteq Id
  BY DEF SafeInv, TypeInv, TypeOK, Written
<1>5. PathTaken(r)'
  BY <1>1 DEF PathTaken, After
<1>6. ParentGone(r)'
  <2>1. pc'[r] = "commit" => ~Live(Effect(r), p)
    BY <1>1, EffectDeletesParent
  <2> QED BY <1>1, <1>2, <2>1 DEF ParentGone, Live
<1>7. OthersKept(r)'
  <2>1. SUFFICES ASSUME call[r].op # "deleteProject", KeepsChildren(call[r]),
                        NEW i \in DOMAIN work'[r], i # p
                 PROVE  Effect(r)[i].life = "live"
    BY <1>1, <1>2 DEF OthersKept
  <2>2. i \in Id /\ Effect(r)[i].life = View(r)[i].life
    BY <1>1, <1>2, <1>4, <2>1, EffectKeepsOthers
  <2>3. CASE i \in DOMAIN work[r]
    BY <2>1, <2>2, <2>3 DEF OthersKept, View
  <2>4. CASE i \in Written(r)
    BY <1>3, <2>2, <2>4 DEF Written, Shrunk, Remains
  <2> QED BY <1>2, <2>3, <2>4
<1>8. ChildrenDropped(r)'
  <2>1. SUFFICES ASSUME call[r].op = "deleteProject", ~KeepsChildren(call[r])
                 PROVE  /\ pc'[r] = "commit"
                        /\ \A i \in DOMAIN work'[r] :
                             db[i].project = p => Effect(r)[i].life = "gone"
    BY <1>1, <1>2 DEF ChildrenDropped
  <2>2. pc[r] = "deleteProject"
    BY <1>1, <2>1, StatementCall
       DEF SafeInv, PathTaken, EpicStatement, ProjectStatement, StageStatement
  <2>3. \A i \in Id : View(r)[i] = db[i]
    BY <2>1, <2>2 DEF ChildrenDropped, View
  <2> QED BY <1>1, <1>2, <1>4, <2>2, <2>3, EffectDropsChildren DEF After
<1>9. Orphans(r)'
  <2>1. ASSUME NEW i \in Id
        PROVE  Orphaned(Effect(r), db, i, p)
    BY <1>1, <1>3, EffectOrphans, OrphanedOrphaned DEF Orphans
  <2> QED BY <1>1, <1>2, <2>1 DEF Orphans, Orphaned, Live
<1> QED BY <1>5, <1>6, <1>7, <1>8, <1>9

LEMMA EndDeletion ==
  ASSUME SafeInv, NEW r \in Request, EndTransaction(r)
  PROVE  PathTaken(r)' /\ ParentGone(r)' /\ OthersKept(r)' /\ ChildrenDropped(r)' /\ Orphans(r)'
<1>1. DOMAIN work'[r] = {} /\ pc'[r] = "idle" /\ call'[r] = NoCall
  BY EndViews DEF EndTransaction, SafeInv, TypeInv, TypeOK
<1>2. \A i \in Id : View(r)'[i] = db'[i]
  BY <1>1 DEF View
<1> QED BY <1>1, <1>2 DEF PathTaken, ParentGone, OthersKept, ChildrenDropped, Orphans, Orphaned

\* The rows that a transaction has not locked may change under it, but a row
\* that one of its own rows referred to stays as deleted as it is.
LEMMA UntouchedDeletion ==
  ASSUME SafeInv, NEW r \in Request, Untouched(r),
         PathTaken(r), ParentGone(r), OthersKept(r), ChildrenDropped(r), Orphans(r)
  PROVE  PathTaken(r)' /\ ParentGone(r)' /\ OthersKept(r)' /\ ChildrenDropped(r)' /\ Orphans(r)'
<1> DEFINE p == call[r].id
<1>1. PathTaken(r)' /\ OthersKept(r)' /\ ChildrenDropped(r)'
  BY DEF Untouched, PathTaken, OthersKept, ChildrenDropped
<1>2. ASSUME NEW x \in Id, db[x].life # "new", ~Live(View(r), x)
      PROVE  ~Live(View(r)', x)
  BY <1>2 DEF View, Untouched, Live
<1>3. ParentGone(r)'
  <2>1. SUFFICES ASSUME pc[r] = "commit"
                 PROVE  ~Live(View(r)', p)
    BY DEF ParentGone, Untouched, Live
  <2>2. p \in Id /\ db[p].life # "new"
    BY <2>1 DEF SafeInv, TypeInv, CallGiven, DeleteOp, Id
  <2> QED BY <1>2, <2>1, <2>2 DEF ParentGone
<1>4. ASSUME NEW i \in Id
      PROVE  Orphaned(View(r)', db', i, p)
  <2> DEFINE w == View(r)'
             v == View(r)
  <2>1. CASE i \in DOMAIN work[r]
    <3>1. w[i] = v[i] /\ db'[i] = db[i]
      BY <2>1 DEF View, Untouched
    <3>2. db[i] \in Row /\ Remains(v[i], db[i]) /\ Closed(db)
      BY ViewTyped DEF SafeInv, TypeInv, ViewsClosed, Rows, Shrunk
    <3>3. ASSUME NEW x \in {db[i].epic, db[i].project, db[i].stage}, x # None, ~Live(v, x)
          PROVE  ~Live(w, x)
      <4>1. x \in Id /\ Live(db, x)
        BY <3>2, <3>3 DEF Row, Id, Closed
      <4> QED BY <1>2, <3>3, <4>1 DEF Live
    <3>4. Orphaned(v, db, i, p)
      BY DEF Orphans
    <3> HIDE DEF v, w
    <3>5. Orphaned(w, db', i, p)
      BY <3>1, <3>2, <3>3, <3>4 DEF Orphaned, Remains
    <3> QED BY <3>5 DEF w
  <2>2. CASE i \notin DOMAIN work[r]
    BY <2>2 DEF View, Untouched, Orphaned
  <2> QED BY <2>1, <2>2
<1>5. Orphans(r)'
  BY <1>4 DEF Orphans, Orphaned, Live, Untouched
<1> QED BY <1>1, <1>3, <1>5

LEMMA NextDeletion ==
  ASSUME SafeInv, DeletionInv, [Next]_vars
  PROVE  DeletionInv'
<1> SUFFICES ASSUME NEW r \in Request
             PROVE  PathTaken(r)' /\ ParentGone(r)' /\ OthersKept(r)' /\ ChildrenDropped(r)' /\ Orphans(r)'
  BY DEF DeletionInv
<1>1. PathTaken(r) /\ ParentGone(r) /\ OthersKept(r) /\ ChildrenDropped(r) /\ Orphans(r)
  BY DEF DeletionInv
<1>2. CASE BeginDeleteEpic(r) \/ BeginDeleteProject(r) \/ BeginDeleteStage(r)
  BY <1>1, <1>2, BeginDeletion
<1>3. CASE ExecuteStatement(r)
  BY <1>1, <1>3, StatementDeletion
<1>4. CASE EndTransaction(r)
  BY <1>4, EndDeletion
<1>5. CASE Untouched(r)
  BY <1>1, <1>5, UntouchedDeletion
<1> QED BY <1>2, <1>3, <1>4, <1>5, StepOfRequest

\* The state of every open deletion, in every reachable state.
THEOREM AlwaysDeletion == Spec => [](SafeInv /\ DeletionInv)
<1>1. Init => SafeInv /\ DeletionInv
  BY InitSafe, InitDeletion
<1>2. SafeInv /\ DeletionInv /\ [Next]_vars => (SafeInv /\ DeletionInv)'
  BY NextSafe, NextDeletion
<1> QED BY <1>1, <1>2, PTL DEF Spec

-----------------------------------------------------------------------------
(* What deletions do to children.                                          *)

\* A row that disappears in a commit was written by the transaction.
LEMMA KeepingCommit ==
  ASSUME SafeInv, DeletionInv, NEW r \in Request, Commit(r),
         call[r].op # "deleteProject", KeepsChildren(call[r]),
         NEW i \in Id \ {call[r].id}, db'[i].life = "gone"
  PROVE  db[i].life = "gone"
<1>1. db' = View(r) /\ OthersKept(r)
  BY DEF Commit, DeletionInv
<1>2. CASE i \in DOMAIN work[r]
  BY <1>1, <1>2 DEF OthersKept, View
<1>3. CASE i \notin DOMAIN work[r]
  BY <1>1, <1>3 DEF View
<1> QED BY <1>2, <1>3

\* deleteEpic(id, keepChildren: true) keeps the projects of the epic, those
\* that arrive after the detaching statement included.
THEOREM EpicKeepsChildren == Spec => DeleteEpicKeepsChildren
<1>1. SafeInv /\ DeletionInv /\ [Next]_vars => [KeepingDeletes("deleteEpic")]_vars
  BY KeepingCommit DEF KeepingDeletes
<1> QED BY <1>1, AlwaysDeletion, PTL DEF Spec, DeleteEpicKeepsChildren

\* deleteStage(id, keepChildren: true) keeps the todos of the stage, those
\* that arrive after the detaching statement included.
THEOREM StageKeepsChildren == Spec => DeleteStageKeepsChildren
<1>1. SafeInv /\ DeletionInv /\ [Next]_vars => [KeepingDeletes("deleteStage")]_vars
  BY KeepingCommit DEF KeepingDeletes
<1> QED BY <1>1, AlwaysDeletion, PTL DEF Spec, DeleteStageKeepsChildren

LEMMA DroppingCommit ==
  ASSUME SafeInv, DeletionInv, NEW r \in Request, Commit(r),
         call[r].op = "deleteProject", ~KeepsChildren(call[r]),
         NEW i \in Id, db[i].project = call[r].id
  PROVE  db'[i].life = "gone"
<1> DEFINE p == call[r].id
<1>1. pc[r] = "commit" /\ db' = View(r) /\ ~Live(View(r), p) /\ ChildrenDropped(r)
  BY DEF Commit, DeletionInv, ParentGone
<1>2. p # None
  BY NoneAssumption DEF SafeInv, TypeInv, CallGiven, Id
<1>3. CASE i \in DOMAIN work[r]
  BY <1>1, <1>3 DEF ChildrenDropped, View
<1>4. CASE i \notin DOMAIN work[r]
  <2>1. View(r)[i].project = p
    BY <1>4 DEF View
  <2>2. Closed(View(r))
    BY DEF SafeInv, ViewsClosed
  <2> QED BY <1>1, <1>2, <2>1, <2>2 DEF Closed
<1> QED BY <1>3, <1>4

\* deleteProject without keepChildren leaves nothing of the project, whatever
\* was created in it or moved to it while the transaction ran.
THEOREM ProjectDropsChildren == Spec => DeleteProjectDropsChildren
<1>1. SafeInv /\ DeletionInv /\ [Next]_vars =>
        [\A r \in Request :
           Commit(r) /\ call[r].op = "deleteProject" /\ ~KeepsChildren(call[r])
             => \A i \in Id : db[i].project = call[r].id => db'[i].life = "gone"]_vars
  BY DroppingCommit
<1> QED BY <1>1, AlwaysDeletion, PTL DEF Spec, DeleteProjectDropsChildren

LEMMA DetachingStep ==
  ASSUME SafeInv, DeletionInv, [Next]_vars, NEW i \in Id, db'[i].life = "live"
  PROVE  /\ db[i].epic # None /\ db'[i].epic = None => ~Live(db', db[i].epic)
         /\ db[i].project # None /\ db'[i].project = None => ~Live(db', db[i].project)
         /\ db[i].stage # None /\ db'[i].stage = None => ~Live(db', db[i].stage)
<1>1. CASE UNCHANGED db
  BY <1>1
<1>2. CASE \E r \in Request : Commit(r)
  <2>1. PICK r \in Request : Commit(r)
    BY <1>2
  <2>2. db' = View(r) /\ ~Live(View(r), call[r].id) /\ Orphaned(View(r), db, i, call[r].id)
    BY <2>1 DEF Commit, DeletionInv, ParentGone, Orphans
  <2> QED BY <2>2 DEF Orphaned
<1>3. CASE Mutate
  <2>1. PICK j \in Id, row \in Row : Written1(j, row)
    BY <1>3, MutateWrites DEF SafeInv
  <2>2. db'[i] = IF i = j THEN row ELSE db[i]
    BY <2>1 DEF Written1, Write, SafeInv, TypeInv, TypeOK
  <2> QED BY <2>1, <2>2 DEF Written1, NewRow, GoneRow
<1> QED BY <1>1, <1>2, <1>3, Steps
        DEF BeginDeleteEpic, BeginDeleteProject, BeginDeleteStage, Begin, ExecuteStatement, vars

\* A project loses its epic, a stage or todo its project, a todo its stage
\* only in the step in which that parent disappears: transactions that roll
\* back, or stop half way, leave no child detached.
THEOREM DetachedWithParent == Spec => DetachedOnlyFromDeletedParent
<1>1. SafeInv /\ DeletionInv /\ [Next]_vars =>
        [\A i \in Id : db'[i].life = "live" =>
           /\ db[i].epic # None /\ db'[i].epic = None => ~Live(db', db[i].epic)
           /\ db[i].project # None /\ db'[i].project = None => ~Live(db', db[i].project)
           /\ db[i].stage # None /\ db'[i].stage = None => ~Live(db', db[i].stage)]_vars
  BY DetachingStep
<1> QED BY <1>1, AlwaysDeletion, PTL DEF Spec, DetachedOnlyFromDeletedParent
=============================================================================
