----------------------------- MODULE AiProposals -----------------------------
(***************************************************************************)
(* AI proposals of one user: generateAIProposal reads the tree under an    *)
(* epic or a project, asks the AI service for a plan and stores it as a    *)
(* draft; acceptAIProposal applies a draft to the tree.                    *)
(*                                                                         *)
(* Generating runs statement by statement outside of a transaction, with   *)
(* the call to the AI service in the middle.  Accepting is one transaction *)
(* (READ COMMITTED): it loads the draft, reads the tree again, validates   *)
(* the plan against what it read, applies it row by row and marks the      *)
(* draft.  As in module Hierarchy, db is the committed state, work[r] the  *)
(* rows that the transaction of r has written (and locks), and one SQL     *)
(* statement is one step.                                                  *)
(*                                                                         *)
(* Meanwhile the other mutations of the user move, flag and delete rows:   *)
(* modules Todos and Hierarchy have their statements, here each is what    *)
(* its commit does to the rows.                                            *)
(*                                                                         *)
(* What a plan says about a row (name, description, dates, status, ...) is *)
(* abstracted to the proposal it came from: column text.                   *)
(***************************************************************************)
EXTENDS Naturals, FiniteSets, Sequences

CONSTANTS
  Epic, Project, Stage, Todo,  \* identifiers of rows
  Proposal,                    \* identifiers of rows of ai_proposals
  Request,                     \* goroutines that generate or accept
  Plans,                       \* what the AI service may answer
  BlankRef,                    \* the spellings that mean "no id"
  Tree,                        \* the rows at the start
  Others,                      \* the mutations other requests may commit
  Generating,                  \* the parents that proposals are asked for
  MayAbort,                    \* TRUE: a request may stop at any point
  None                         \* SQL NULL

Id == Epic \cup Project \cup Stage \cup Todo
Parent == Epic \cup Project

Row == [life    : {"new", "live", "gone"},
        epic    : Epic \cup {None},
        project : Project \cup {None},
        stage   : Stage \cup {None},
        next    : BOOLEAN,
        text    : Proposal \cup {None}]

NewRow == [life |-> "new", epic |-> None, project |-> None, stage |-> None,
           next |-> FALSE, text |-> None]
GoneRow == [NewRow EXCEPT !.life = "gone"]

ProposalRow == [status : {"new", "DRAFT", "APPLIED"},
                parent : Parent \cup {None},
                plan   : Plans \cup {None}]

NoProposal == [status |-> "new", parent |-> None, plan |-> None]

\* The snapshot of the tree (ai.Context): projects, stages with their
\* project, todos with their stage and project.
Context == [projects : SUBSET Project,
            stages   : SUBSET (Project \X Stage),
            todos    : SUBSET (Project \X Stage \X Todo)]

NoContext == [projects |-> {}, stages |-> {}, todos |-> {}]

\* meaningfulPlanRef and meaningfulAIRef: both copies of it.
MeaningfulRef(ref) == IF ref \in BlankRef THEN None ELSE ref

\* The changes of a plan, at every level a sequence in the order in which
\* they are applied.  A nil slice is the empty sequence.
Ref(ids) == ids \cup BlankRef
IsSlice(s) == Len(s) \in Nat /\ DOMAIN s = 1..Len(s)
IsTodoChange(c) ==
  /\ DOMAIN c = {"id", "named", "next"}
  /\ c.id \in Ref(Todo) /\ c.named \in BOOLEAN /\ c.next \in {"true", "false", "null"}
IsStageChange(c) ==
  /\ DOMAIN c = {"id", "named", "todos"}
  /\ c.id \in Ref(Stage) /\ c.named \in BOOLEAN /\ IsSlice(c.todos)
  /\ \A i \in DOMAIN c.todos : IsTodoChange(c.todos[i])
IsProjectChange(c) ==
  /\ DOMAIN c = {"id", "named", "stages"}
  /\ c.id \in Ref(Project) /\ c.named \in BOOLEAN /\ IsSlice(c.stages)
  /\ \A i \in DOMAIN c.stages : IsStageChange(c.stages[i])
IsPlan(plan) ==
  /\ DOMAIN plan = {"summary", "projects", "stages"}
  /\ plan.summary \in BOOLEAN /\ IsSlice(plan.projects) /\ IsSlice(plan.stages)
  /\ \A i \in DOMAIN plan.projects : IsProjectChange(plan.projects[i])
  /\ \A i \in DOMAIN plan.stages : IsStageChange(plan.stages[i])

ASSUME NoneAssumption == None \notin Id \cup Proposal \cup BlankRef
ASSUME BlankRefAssumption == BlankRef # {} /\ BlankRef \cap Id = {}
ASSUME KindsAssumption ==
  /\ Epic \cap (Project \cup Stage \cup Todo) = {}
  /\ Project \cap (Stage \cup Todo) = {}
  /\ Stage \cap Todo = {}
ASSUME PlansAssumption == \A plan \in Plans : IsPlan(plan)
ASSUME TreeAssumption ==
  /\ Tree \in [Id -> Row]
  /\ \A i \in Id :
       /\ Tree[i].text = None
       \* tables have their own columns, and rows that are not there have none
       /\ Tree[i].epic # None => i \in Project
       /\ Tree[i].project # None => i \in Stage \cup Todo
       /\ Tree[i].stage # None => i \in Todo
       /\ Tree[i].next => i \in Todo
       /\ Tree[i].life # "live" => Tree[i] \in {NewRow, GoneRow}
       /\ \A parent \in {Tree[i].epic, Tree[i].project, Tree[i].stage} \ {None} :
            Tree[parent].life = "live"
  /\ \A t, u \in Todo :
       Tree[t].next /\ Tree[u].next /\ Tree[t].project = Tree[u].project
         /\ Tree[t].project # None => t = u
ASSUME OthersAssumption ==
  \A c \in Others :
    /\ DOMAIN c = {"op", "id", "project", "stage"}
    /\ c.project \in Project \cup {None} /\ c.stage \in Stage \cup {None}
    /\ \/ c.op \in {"moveTodo", "clearProject", "flagTodo"} /\ c.id \in Todo
       \/ c.op = "delete" /\ c.id \in Project \cup Stage \cup Todo
ASSUME GeneratingAssumption == Generating \subseteq Parent
ASSUME MayAbortAssumption == MayAbort \in BOOLEAN

VARIABLES
  db,         \* the committed rows of the tree
  proposals,  \* the committed rows of ai_proposals
  work,       \* the rows written by the transaction of each request
  pc,         \* the next statement of each request
  local       \* its arguments and local variables

vars == <<db, proposals, work, pc, local>>

\* generateAIProposal has a parent; acceptAIProposal a proposal, from which
\* it takes the parent and the plan.  unread are the projects whose stages
\* and todos have still to be listed, reading is the one being listed; left
\* are the positions of the changes that have still to be applied, project
\* and stage are the variables projectID and stageID.
NoLocal == [proposal |-> None, parent |-> None, plan |-> None,
            unread |-> {}, reading |-> None, context |-> NoContext,
            left |-> {}, project |-> None, stage |-> None]

\* flag: the change of a todo whose project's next actions have been cleared.
Point == {"idle", "parent", "projects", "stages", "todos", "ask", "store",
          "apply", "flag", "mark", "commit"}

TypeOK ==
  /\ db \in [Id -> Row]
  /\ proposals \in [Proposal -> ProposalRow]
  /\ \A r \in Request :
       /\ DOMAIN work[r] \subseteq Id /\ work[r] \in [DOMAIN work[r] -> Row]
       /\ local[r].context \in Context
       /\ local[r].parent \in Parent \cup {None}
       /\ local[r].plan \in Plans \cup {None}
       \* only a transaction that is under way holds rows
       /\ pc[r] \notin {"apply", "flag", "mark", "commit"} => DOMAIN work[r] = {}
  /\ pc \in [Request -> Point]

Nothing == [i \in {} |-> NewRow]

Init ==
  /\ db = Tree
  /\ proposals = [q \in Proposal |-> NoProposal]
  /\ work = [r \in Request |-> Nothing]
  /\ pc = [r \in Request |-> "idle"]
  /\ local = [r \in Request |-> NoLocal]

-----------------------------------------------------------------------------
(* Validation of a plan against a snapshot.                                *)

\* validateTodoNodes for the todos of a stage change; the context of a stage
\* to be created is empty.
ValidTodos(todos, known) ==
  \A i \in DOMAIN todos :
    LET id == MeaningfulRef(todos[i].id) IN
    /\ id # None => id \in known
    /\ todos[i].named

\* validateStageNodes for the stages of a project (None: to be created).
ValidStages(stages, p, context) ==
  \A i \in DOMAIN stages :
    LET s == MeaningfulRef(stages[i].id) IN
    /\ s # None => <<p, s>> \in context.stages
    /\ stages[i].named
    /\ ValidTodos(stages[i].todos, {t \in Todo : <<p, s, t>> \in context.todos})

ValidProject(change, context) ==
  LET p == MeaningfulRef(change.id) IN
  /\ p # None => p \in context.projects
  /\ change.named
  /\ ValidStages(change.stages, p, context)

ValidatePlan(plan, parent, context) ==
  /\ plan.summary
  /\ IF parent \in Epic
     THEN /\ plan.projects # <<>> /\ plan.stages = <<>>
          /\ \A i \in DOMAIN plan.projects : ValidProject(plan.projects[i], context)
     ELSE /\ plan.projects = <<>> /\ plan.stages # <<>>
          /\ ValidStages(plan.stages, parent, context)

-----------------------------------------------------------------------------
(* The changes of a plan, in the order of applyAIPlan.  A change has a      *)
(* position <<i, j, k>>: the k-th todo change of the j-th stage change of   *)
(* the i-th project change, 0 where the change is not that far down.  A     *)
(* plan for a project has no project change: the project is the parent.    *)

StageChanges(plan, parent, i) ==
  IF parent \in Project THEN plan.stages ELSE plan.projects[i].stages

Positions(plan, parent) ==
  LET projects == IF parent \in Project THEN {0} ELSE DOMAIN plan.projects
      stages == UNION {{<<i, j>> : j \in DOMAIN StageChanges(plan, parent, i)} : i \in projects}
      todos(s) == DOMAIN StageChanges(plan, parent, s[1])[s[2]].todos
  IN {<<i, 0, 0>> : i \in projects \ {0}}
       \cup UNION {{<<s[1], s[2], k>> : k \in {0} \cup todos(s)} : s \in stages}

KindAt(at) == IF at[2] = 0 THEN "project" ELSE IF at[3] = 0 THEN "stage" ELSE "todo"

ChangeAt(plan, parent, at) ==
  CASE KindAt(at) = "project" -> plan.projects[at[1]]
    [] KindAt(at) = "stage" -> StageChanges(plan, parent, at[1])[at[2]]
    [] KindAt(at) = "todo" -> StageChanges(plan, parent, at[1])[at[2]].todos[at[3]]

\* A change comes before those below it and those that follow.
Before(a, b) == \E n \in 1..3 : a[n] < b[n] /\ \A m \in 1..(n - 1) : a[m] = b[m]

-----------------------------------------------------------------------------
(* Control and transactions.                                               *)

View(r) == [i \in Id |-> IF i \in DOMAIN work[r] THEN work[r][i] ELSE db[i]]

Live(v, i) == v[i].life = "live"

LockedByOthers(r) == UNION {DOMAIN work[s] : s \in Request \ {r}}

\* Rows that an uncommitted insert refers to: the foreign key check holds a
\* key-share lock on them, which makes a delete wait.
Inserted(r) == {i \in DOMAIN work[r] : db[i] = NewRow}
KeyShared ==
  UNION {UNION {{work[r][i].epic, work[r][i].project, work[r][i].stage} : i \in Inserted(r)} :
           r \in Request}

Goto(r, point, locals) ==
  /\ pc' = [pc EXCEPT ![r] = point]
  /\ local' = [local EXCEPT ![r] = locals]
  /\ UNCHANGED <<db, proposals, work>>

\* Mutant: the transaction is neither committed nor rolled back.
MutantReturn(r) ==
  /\ pc' = [pc EXCEPT ![r] = "idle"]
  /\ local' = [local EXCEPT ![r] = NoLocal]
  /\ UNCHANGED work

\* The resolver returns; what its transaction has not committed is dropped.
Return(r) ==
  /\ work' = [work EXCEPT ![r] = Nothing]
  /\ pc' = [pc EXCEPT ![r] = "idle"]
  /\ local' = [local EXCEPT ![r] = NoLocal]

Fail(r) == Return(r) /\ UNCHANGED <<db, proposals>>

\* The client goes away, the connection breaks, the server stops.
Abort(r) ==
  /\ MayAbort
  /\ pc[r] # "idle"
  /\ Fail(r)

GenerateAIProposal(r) ==
  \E parent \in Generating :
    /\ pc[r] = "idle"
    /\ Goto(r, "parent", [NoLocal EXCEPT !.parent = parent])

\* The draft is read without a lock.  (What is not a draft is refused; the
\* client knows the proposal, so it has been stored.)
AcceptAIProposal(r) ==
  \E q \in Proposal :
    /\ pc[r] = "idle"
    /\ proposals[q].status = "DRAFT"
    /\ Goto(r, "parent", [NoLocal EXCEPT !.proposal = q, !.parent = proposals[q].parent,
                                          !.plan = proposals[q].plan])

-----------------------------------------------------------------------------
(* aiContext: the snapshot, one statement after the other.                 *)

\* The next project to list, or the snapshot is complete: a plan is asked
\* for, or the stored one is validated.
ReadOn(r, locals) ==
  \/ /\ locals.unread # {}
     \* in the order of position and created_at, whichever that is
     /\ LET p == CHOOSE p \in locals.unread : TRUE IN
        Goto(r, "stages", [locals EXCEPT !.unread = @ \ {p}, !.reading = p])
  \/ /\ locals.unread = {}
     /\ LET done == [locals EXCEPT !.reading = None] IN
        IF done.proposal = None THEN Goto(r, "ask", done)
        ELSE IF ValidatePlan(done.plan, done.parent, done.context)
             THEN Goto(r, "apply",
                       [done EXCEPT !.project = IF done.parent \in Project THEN done.parent
                                                                           ELSE None,
                                    !.left = Positions(done.plan, done.parent),
                                    !.context = NoContext])
             ELSE Fail(r)

\* GetEpic or GetProject of the parent.  (The epic of a project parent is
\* read for its name only; that it may be gone by then is an Abort.)
GetParent(r) ==
  LET parent == local[r].parent IN
  /\ pc[r] = "parent"
  /\ IF ~Live(db, parent) THEN Fail(r)
     ELSE IF parent \in Epic THEN Goto(r, "projects", local[r])
     ELSE Goto(r, "stages", [local[r] EXCEPT !.reading = parent,
                                             !.context.projects = {parent}])

ListProjects(r) ==
  LET listed == {p \in Project : Live(db, p) /\ db[p].epic = local[r].parent} IN
  /\ pc[r] = "projects"
  /\ ReadOn(r, [local[r] EXCEPT !.unread = listed, !.context.projects = listed])

ListStages(r) ==
  LET p == local[r].reading
      listed == {s \in Stage : Live(db, s) /\ db[s].project = p}
  IN
  /\ pc[r] = "stages"
  /\ Goto(r, "todos", [local[r] EXCEPT !.context.stages = @ \cup ({p} \X listed)])

\* toProjectContext drops todos that are in no stage of the project.
ListTodos(r) ==
  LET p == local[r].reading
      listed == {t \in Todo : /\ Live(db, t) /\ db[t].project = p
                              /\ <<p, db[t].stage>> \in local[r].context.stages}
  IN
  /\ pc[r] = "todos"
  /\ ReadOn(r, [local[r] EXCEPT !.context.todos =
                  @ \cup {<<p, db[t].stage, t>> : t \in listed}])

-----------------------------------------------------------------------------
(* The AI service and the draft.                                           *)

\* GeneratePlan gets an answer: any plan the schema admits, valid or not.
Answer(r) ==
  /\ pc[r] = "ask"
  /\ \E plan \in Plans :
       IF ValidatePlan(plan, local[r].parent, local[r].context)
       THEN Goto(r, "store", [local[r] EXCEPT !.plan = plan, !.context = NoContext])
       ELSE Fail(r)

\* No answer: a network error, a bad status, an undecodable body, a timeout.
NoAnswer(r) == pc[r] = "ask" /\ Fail(r)

\* No foreign key ties the proposal to its parent.  (Proposal bounds the
\* proposals ever stored: then the insert fails.)
CreateAIProposal(r) ==
  /\ pc[r] = "store"
  /\ \/ \E q \in Proposal :
          /\ proposals[q] = NoProposal
          /\ proposals' = [proposals EXCEPT ![q] = [status |-> "DRAFT",
                                                    parent |-> local[r].parent,
                                                    plan |-> local[r].plan]]
          /\ Return(r)
          /\ UNCHANGED db
     \/ /\ \A q \in Proposal : proposals[q] # NoProposal
        /\ Fail(r)

-----------------------------------------------------------------------------
(* The statements of applyAIPlan.                                          *)

\* The position of the next change, in a set of one element.
Current(r) == {at \in local[r].left : \A b \in local[r].left : ~Before(b, at)}
Change(r, at) == ChangeAt(local[r].plan, local[r].parent, at)

\* The change has been applied: the next one follows, or the mark.
Advance(r, at, locals) ==
  LET left == locals.left \ {at} IN
  /\ local' = [local EXCEPT ![r] = [locals EXCEPT !.left = left]]
  /\ pc' = [pc EXCEPT ![r] = IF left = {} THEN "mark" ELSE "apply"]

\* Writing locks the rows; a statement waits for those that others lock.
WriteRows(r, rows) ==
  /\ DOMAIN rows \cap LockedByOthers(r) = {}
  /\ work' = [work EXCEPT ![r] = [i \in DOMAIN @ \cup DOMAIN rows |->
                                    IF i \in DOMAIN rows THEN rows[i] ELSE @[i]]]
  /\ UNCHANGED <<db, proposals>>

WriteRow(r, i, row) == WriteRows(r, [j \in {i} |-> row])

\* An identifier no transaction has used yet.  (Project, Stage and Todo bound
\* the rows ever created: a plan that needs more of them is refused.)
Fresh(kind) == {i \in kind : db[i] = NewRow /\ \A r \in Request : i \notin DOMAIN work[r]}

\* todos_one_next_action_per_project_idx: another todo of project p has the
\* flag in the rows v; or a transaction other than r has written a row that
\* has it before or after, and r must wait how that ends.
Occupies(row, p) == row.next /\ row.project = p /\ p # None

\* Mutant: the table has no unique index.
MutantNoIndex(v, t, p) == FALSE
IndexConflict(v, t, p) == \E u \in Todo \ {t} : Occupies(v[u], p)
IndexWait(others, t, p) ==
  \E s \in others : \E u \in (Todo \cap DOMAIN work[s]) \ {t} :
    Occupies(db[u], p) \/ Occupies(work[s][u], p)

\* Writes the row of todo t for r, if the index admits it.
WriteTodo(r, at, t, row) ==
  LET flagged == row.next /\ row.project # None
                   /\ ~(Occupies(View(r)[t], row.project))
  IN
  /\ flagged => ~IndexWait(Request \ {r}, t, row.project)
  /\ IF flagged /\ IndexConflict(View(r), t, row.project)
     THEN Fail(r)
     ELSE WriteRow(r, t, row) /\ Advance(r, at, local[r])

\* Mutant: the tables have no foreign keys.
MutantReferable(v, parents) == TRUE

\* The foreign keys let a row refer to these.
Referable(v, parents) == \A i \in parents : Live(v, i)

\* A project change: UPDATE (no row is an error), or INSERT in the epic.
ApplyProject(r, at) ==
  LET p == MeaningfulRef(Change(r, at).id)
      q == local[r].proposal
  IN
  /\ pc[r] = "apply" /\ KindAt(at) = "project"
  /\ IF p # None
     THEN IF Live(View(r), p)
          THEN /\ WriteRow(r, p, [View(r)[p] EXCEPT !.text = q])
               /\ Advance(r, at, [local[r] EXCEPT !.project = p])
          ELSE Fail(r)
     ELSE IF Referable(View(r), {local[r].parent}) /\ Fresh(Project) # {}
          THEN \E i \in Fresh(Project) :
                 /\ WriteRow(r, i, [NewRow EXCEPT !.life = "live", !.text = q,
                                                  !.epic = local[r].parent])
                 /\ Advance(r, at, [local[r] EXCEPT !.project = i])
          ELSE Fail(r)

\* Mutant: an update that finds no row is not an error.
MutantApplyStage(r, at) ==
  LET s == MeaningfulRef(Change(r, at).id)
      q == local[r].proposal
  IN
  /\ pc[r] = "apply" /\ KindAt(at) = "stage"
  /\ IF s # None
     THEN /\ IF Live(View(r), s) THEN WriteRow(r, s, [View(r)[s] EXCEPT !.text = q])
                                 ELSE UNCHANGED <<db, proposals, work>>
          /\ Advance(r, at, [local[r] EXCEPT !.stage = s])
     ELSE IF Referable(View(r), {local[r].project}) /\ Fresh(Stage) # {}
          THEN \E i \in Fresh(Stage) :
                 /\ WriteRow(r, i, [NewRow EXCEPT !.life = "live", !.text = q,
                                                  !.project = local[r].project])
                 /\ Advance(r, at, [local[r] EXCEPT !.stage = i])
          ELSE Fail(r)

\* A stage change: UPDATE, which leaves the stage in the project it is in,
\* or INSERT in the project of the enclosing change.
ApplyStage(r, at) ==
  LET s == MeaningfulRef(Change(r, at).id)
      q == local[r].proposal
  IN
  /\ pc[r] = "apply" /\ KindAt(at) = "stage"
  /\ IF s # None
     THEN IF Live(View(r), s)
          THEN /\ WriteRow(r, s, [View(r)[s] EXCEPT !.text = q])
               /\ Advance(r, at, [local[r] EXCEPT !.stage = s])
          ELSE Fail(r)
     ELSE IF Referable(View(r), {local[r].project}) /\ Fresh(Stage) # {}
          THEN \E i \in Fresh(Stage) :
                 /\ WriteRow(r, i, [NewRow EXCEPT !.life = "live", !.text = q,
                                                  !.project = local[r].project])
                 /\ Advance(r, at, [local[r] EXCEPT !.stage = i])
          ELSE Fail(r)

\* ClearProjectNextActions for a todo change with nextAction: it writes, and
\* locks, every todo of the project but the one to be flagged (uuid.Nil for
\* one to be created).
Cleared(r, at) ==
  {t \in Todo : /\ Live(View(r), t) /\ View(r)[t].project = local[r].project
                /\ t # MeaningfulRef(Change(r, at).id)}

ApplyClear(r, at) ==
  /\ pc[r] = "apply" /\ KindAt(at) = "todo" /\ Change(r, at).next = "true"
  /\ WriteRows(r, [t \in Cleared(r, at) |-> [View(r)[t] EXCEPT !.next = FALSE]])
  /\ pc' = [pc EXCEPT ![r] = "flag"]
  /\ UNCHANGED local

\* A todo change: UPDATE, which leaves the todo where it is, or INSERT in the
\* project and stage of the enclosing changes.
ApplyTodo(r, at) ==
  LET next == Change(r, at).next
      t == MeaningfulRef(Change(r, at).id)
      q == local[r].proposal
      flag(old) == next = "true" \/ (next = "null" /\ old)
  IN
  /\ KindAt(at) = "todo" /\ pc[r] = (IF next = "true" THEN "flag" ELSE "apply")
  /\ IF t # None
     THEN IF Live(View(r), t)
          THEN WriteTodo(r, at, t, [View(r)[t] EXCEPT !.text = q, !.next = flag(@)])
          ELSE Fail(r)
     ELSE IF Referable(View(r), {local[r].project, local[r].stage}) /\ Fresh(Todo) # {}
          THEN \E i \in Fresh(Todo) :
                 WriteTodo(r, at, i, [NewRow EXCEPT !.life = "live", !.text = q,
                                                    !.project = local[r].project,
                                                    !.stage = local[r].stage, !.next = flag(FALSE)])
          ELSE Fail(r)

\* Another transaction has marked the proposal and not ended yet.
Marked(r) == \E s \in Request \ {r} :
  pc[s] = "commit" /\ local[s].proposal = local[r].proposal

\* Mutant: the UPDATE has no status condition.
MutantMarkAIProposalApplied(r) ==
  /\ pc[r] = "mark"
  /\ ~Marked(r)
  /\ Goto(r, "commit", local[r])

\* UPDATE ... WHERE status = 'DRAFT': waits for a concurrent mark, and finds
\* no row when that one commits.
MarkAIProposalApplied(r) ==
  /\ pc[r] = "mark"
  /\ ~Marked(r)
  /\ IF proposals[local[r].proposal].status = "DRAFT"
     THEN Goto(r, "commit", local[r])
     ELSE Fail(r)

Commit(r) ==
  /\ pc[r] = "commit"
  /\ db' = View(r)
  /\ proposals' = [proposals EXCEPT ![local[r].proposal].status = "APPLIED"]
  /\ Return(r)

\* The rows that the next statement of r waits for.
Targets(r) ==
  UNION {LET change == Change(r, at)
             t == MeaningfulRef(change.id)
             project == IF t = None THEN local[r].project ELSE View(r)[t].project
         IN CASE pc[r] = "apply" /\ KindAt(at) = "todo" /\ change.next = "true" -> Cleared(r, at)
              [] pc[r] = "flag" ->
                   ({t} \ {None}) \cup
                   {u \in Todo : \E s \in Request \ {r} :
                                   /\ u \in DOMAIN work[s] /\ u # t
                                   /\ Occupies(db[u], project) \/ Occupies(work[s][u], project)}
              [] OTHER -> {t} \ {None} : at \in Current(r)}

WaitsFor(r, s) ==
  r # s /\ (Targets(r) \cap DOMAIN work[s] # {}
              \/ (pc[r] = "mark" /\ pc[s] = "commit" /\ local[r].proposal = local[s].proposal))

\* PostgreSQL detects that transactions wait for each other and fails one.
DeadlockVictim(r) ==
  /\ \E group \in SUBSET Request :
       r \in group /\ \A q \in group : \E s \in group : WaitsFor(q, s)
  /\ Fail(r)

-----------------------------------------------------------------------------
(* Other mutations of the user, each the statement or transaction of its   *)
(* own that module Todos or Hierarchy describes, at the step in which it   *)
(* commits; it waits for rows locked by an accepting transaction.          *)

OtherCommit(rows) ==
  /\ \A r \in Request : DOMAIN rows \cap DOMAIN work[r] = {}
  /\ db' = [i \in Id |-> IF i \in DOMAIN rows THEN rows[i] ELSE db[i]]
  /\ UNCHANGED <<proposals, work, pc, local>>

\* The index lets todo t have this row.
Admitted(t, row) ==
  row.next => ~IndexConflict(db, t, row.project) /\ ~IndexWait(Request, t, row.project)

MoveTodo ==
  \E c \in Others :
    LET t == c.id
        row == [db[t] EXCEPT !.project = IF c.project = None THEN @ ELSE c.project,
                             !.stage = IF c.stage = None THEN @ ELSE c.stage]
    IN
    /\ c.op = "moveTodo"
    /\ Live(db, t) /\ row # db[t]
    /\ \A parent \in {c.project, c.stage} \ {None} : Live(db, parent)
    /\ Admitted(t, row)
    /\ OtherCommit([u \in {t} |-> row])

\* The statement that clears the project, and the one that sets the flag.
ClearProjectNextActions ==
  \E c \in Others :
    /\ c.op = "clearProject"
    /\ OtherCommit([u \in {v \in Todo \ {c.id} : Live(db, v) /\ db[v].project = c.project} |->
                      [db[u] EXCEPT !.next = FALSE]])

SetTodoNextAction ==
  \E c \in Others :
    LET row == [db[c.id] EXCEPT !.next = TRUE] IN
    /\ c.op = "flagTodo"
    /\ Live(db, c.id) /\ row # db[c.id]
    /\ Admitted(c.id, row)
    /\ OtherCommit([u \in {c.id} |-> row])

\* deleteTodo, deleteStage, deleteProject: the rows below the deleted one are
\* detached or deleted; todos of other projects only leave a deleted stage.
DeleteRow ==
  \E c \in Others, keep \in BOOLEAN :
    LET i == c.id
        stages == {s \in Stage : db[s].project = i}
        todos == {t \in Todo : db[t].project = i \/ db[t].stage = i}
        strays == {t \in Todo \ todos : ~keep /\ db[t].stage \in stages}
        detached(j) == [db[j] EXCEPT !.project = IF @ = i THEN None ELSE @,
                                     !.stage = IF @ = i THEN None ELSE @]
    IN
    /\ c.op = "delete"
    /\ Live(db, i) /\ ({i} \cup stages) \cap KeyShared = {}
    /\ OtherCommit([j \in {i} \cup stages \cup todos \cup strays |->
                      IF j \in strays THEN [db[j] EXCEPT !.stage = None]
                      ELSE IF keep /\ j # i THEN detached(j)
                      ELSE GoneRow])

-----------------------------------------------------------------------------

Apply(r) ==
  \E at \in Current(r) :
    ApplyProject(r, at) \/ ApplyStage(r, at) \/ ApplyClear(r, at) \/ ApplyTodo(r, at)

\* The steps of the server itself; the AI service answers or does not.
Execute(r) ==
  \/ GetParent(r)
  \/ ListProjects(r)
  \/ ListStages(r)
  \/ ListTodos(r)
  \/ CreateAIProposal(r)
  \/ Apply(r)
  \/ MarkAIProposalApplied(r)
  \/ Commit(r)

Next ==
  \/ \E r \in Request :
       \/ GenerateAIProposal(r)
       \/ AcceptAIProposal(r)
       \/ Execute(r)
       \/ Answer(r)
       \/ NoAnswer(r)
       \/ DeadlockVictim(r)
       \/ Abort(r)
  \/ MoveTodo
  \/ ClearProjectNextActions
  \/ SetTodoNextAction
  \/ DeleteRow

Spec == Init /\ [][Next]_vars

-----------------------------------------------------------------------------
(* Properties.                                                             *)

\* The plan of a proposal reaches the tree in the very step in which the
\* proposal goes from DRAFT to APPLIED, and in no other: it is applied at
\* most once however many requests accept it, and never in part, whichever
\* statement fails, is cancelled or loses a deadlock.
AppliedOnce ==
  [][\A q \in Proposal :
       (\E i \in Id : db'[i].text = q /\ db[i].text # q)
         => proposals[q].status = "DRAFT" /\ proposals'[q].status = "APPLIED"]_vars

\* The changes of the plan of a proposal by their kind, the id each has, the
\* ids the plan names, and how many rows of a kind it creates.
ChangesOf(q, kind) ==
  {at \in Positions(proposals[q].plan, proposals[q].parent) : KindAt(at) = kind}
IdAt(q, at) == MeaningfulRef(ChangeAt(proposals[q].plan, proposals[q].parent, at).id)
Named(q, kind) == {IdAt(q, at) : at \in ChangesOf(q, kind)} \ {None}
Created(q, kind) == Cardinality({at \in ChangesOf(q, kind) : IdAt(q, at) = None})

\* A proposal that becomes APPLIED has been applied entirely: every row the
\* plan names has been written, although others delete rows meanwhile, and
\* every row it leaves out the id of has been created.
AppliedEntirely ==
  [][\A q \in Proposal :
       proposals[q].status = "DRAFT" /\ proposals'[q].status = "APPLIED" =>
         \A k \in {<<"project", Project>>, <<"stage", Stage>>, <<"todo", Todo>>} :
           /\ \A i \in Named(q, k[1]) : db'[i].life = "live" /\ db'[i].text = q
           /\ Cardinality({i \in k[2] : db[i] = NewRow /\ db'[i].text = q})
                = Created(q, k[1])]_vars

\* README.md: "Next action uniqueness per project", also while plans that
\* set next actions are applied next to each other and to the mutations.
OneNextActionPerProject ==
  \A t, u \in Todo :
    db[t].next /\ db[u].next /\ db[t].project = db[u].project /\ db[t].project # None => t = u

\* What accepting creates hangs together with the tree at the time of the
\* commit, while others delete stages and projects.
NoDanglingReference ==
  \A i \in Id :
    \A parent \in {db[i].epic, db[i].project, db[i].stage} \ {None} : Live(db, parent)

\* The rows under a parent; a todo belongs to the project it names.
InTree(v, i, parent) ==
  LET projects == IF parent \in Epic THEN {p \in Project : v[p].epic = parent} ELSE {parent}
  IN i \in projects \/ (i \in Stage \cup Todo /\ v[i].project \in projects)

\* README.md: AI proposals are rejected before applying if they reference
\* projects, stages or todos outside the provided parent context.
AcceptStaysInParent ==
  [][\A q \in Proposal, i \in Id :
       db[i].life = "live" /\ db'[i].text = q /\ db[i].text # q
         => InTree(db, i, proposals[q].parent)]_vars
=============================================================================
