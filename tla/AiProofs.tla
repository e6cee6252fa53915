------------------------------ MODULE AiProofs ------------------------------
(***************************************************************************)
(* Proofs about module AiProposals, for every tree, every set of plans and *)
(* of other mutations, and any number of requests that generate and accept *)
(* proposals.                                                              *)
(*                                                                         *)
(* The invariant behind all of them says what an accepting transaction has *)
(* written so far: rows that are live, that no other transaction has       *)
(* written, that say what the plan says, and that are either updates which *)
(* leave the row where it is or inserts whose parents are held.  On it     *)
(* rest an invariant about next actions (what two transactions have        *)
(* flagged together) and one about progress (the changes already applied   *)
(* and the rows they have reached).                                        *)
(***************************************************************************)
EXTENDS AiProposals, FiniteSetTheorems, TLAPS

-----------------------------------------------------------------------------
(* The inductive invariant.                                                *)

\* A row has only the columns of its kind, and none when it is not there.
RowOf(i, row) ==
  /\ row \in Row
  /\ row.epic # None => i \in Project
  /\ row.project # None => i \in Stage \cup Todo
  /\ row.stage # None => i \in Todo
  /\ row.next => i \in Todo
  /\ row.life # "live" => row \in {NewRow, GoneRow}

Rows(v) == v \in [Id -> Row] /\ \A i \in Id : RowOf(i, v[i])

\* The references of a row lead to rows of v.
RefsLive(v, row) ==
  /\ row.epic # None => Live(v, row.epic)
  /\ row.project # None => Live(v, row.project)
  /\ row.stage # None => Live(v, row.stage)

Closed(v) == \A i \in Id : RefsLive(v, v[i])

SameRefs(a, b) == a.epic = b.epic /\ a.project = b.project /\ a.stage = b.stage

Applying == {"apply", "flag", "mark", "commit"}

Locals == [proposal : Proposal \cup {None}, parent : Parent \cup {None},
           plan : Plans \cup {None}, unread : SUBSET Project,
           reading : Project \cup {None}, context : Context,
           left : SUBSET (Nat \X Nat \X Nat),
           project : Project \cup {None}, stage : Stage \cup {None}]

\* What a request at this point knows of its proposal, its parent and the
\* changes still to be applied.
LocalOK(point, l) ==
  /\ l \in Locals
  /\ point # "idle" => l.parent \in Parent
  /\ point \in {"stages", "todos"} => l.reading \in Project
  /\ point \in {"ask", "store"} => l.proposal = None
  /\ point = "store" => l.plan \in Plans
  /\ point \in Applying => l.proposal # None /\ l.left \subseteq Positions(l.plan, l.parent)
  /\ point \in {"mark", "commit"} => l.left = {}
  /\ l.proposal # None =>
       /\ proposals[l.proposal].status # "new"
       /\ proposals[l.proposal].plan = l.plan /\ proposals[l.proposal].parent = l.parent

ProposalsOK ==
  /\ proposals \in [Proposal -> ProposalRow]
  /\ \A q \in Proposal : proposals[q].status # "new" =>
       proposals[q].parent \in Parent /\ proposals[q].plan \in Plans

RequestsOK ==
  /\ pc \in [Request -> Point]
  /\ local = [r \in Request |-> local[r]]
  /\ \A r \in Request : LocalOK(pc[r], local[r])

\* The transaction of proposal q sees row i as old and writes it as row: it
\* updates it where it is, or inserts it.
Update(q, i, old, row) ==
  /\ RowOf(i, row) /\ row.life = "live" /\ row.text \in {old.text, q}
  /\ old.life = "live" /\ SameRefs(row, old)
Insert(q, i, old, row) ==
  /\ RowOf(i, row) /\ row.life = "live" /\ row.text = q
  /\ old = NewRow

WorkOK ==
  /\ work = [r \in Request |-> work[r]]
  /\ \A r \in Request :
       /\ DOMAIN work[r] \subseteq Id /\ work[r] \in [DOMAIN work[r] -> Row]
       /\ pc[r] \notin Applying => DOMAIN work[r] = {}
       /\ \A i \in DOMAIN work[r] :
            /\ \/ Update(local[r].proposal, i, db[i], work[r][i])
               \/ Insert(local[r].proposal, i, db[i], work[r][i])
            /\ RefsLive(View(r), work[r][i])

\* No row is written by two transactions.
Locks == \A r, s \in Request : r # s => DOMAIN work[r] \cap DOMAIN work[s] = {}

\* Of the requests that accept one proposal one at most has marked it.
Marks ==
  \A r \in Request : pc[r] = "commit" =>
    /\ proposals[local[r].proposal].status = "DRAFT"
    /\ \A s \in Request : pc[s] = "commit" /\ local[s].proposal = local[r].proposal => s = r

AcceptInv == Rows(db) /\ Closed(db) /\ ProposalsOK /\ RequestsOK /\ WorkOK /\ Locks /\ Marks

-----------------------------------------------------------------------------
(* Next actions.                                                           *)

OneNext(v) ==
  \A t, u \in Todo : \A p \in Project : Occupies(v[t], p) /\ Occupies(v[u], p) => t = u

\* Two transactions have not flagged todos of one project.
NextApart ==
  \A r, s \in Request : r # s =>
    \A t \in Todo \cap DOMAIN work[r], u \in Todo \cap DOMAIN work[s] : \A p \in Project :
      ~(Occupies(work[r][t], p) /\ Occupies(work[s][u], p))

NextInv == OneNext(db) /\ (\A r \in Request : OneNext(View(r))) /\ NextApart

-----------------------------------------------------------------------------
(* Progress.                                                               *)

IdOf(l, at) == MeaningfulRef(ChangeAt(l.plan, l.parent, at).id)
Applied(l) == Positions(l.plan, l.parent) \ l.left
KindSet == [project |-> Project, stage |-> Stage, todo |-> Todo]

\* The changes applied that create a row of a kind, and the rows inserted.
Creates(l, kind) == {at \in Applied(l) : KindAt(at) = kind /\ IdOf(l, at) = None}
Inserts(r, kind) == {i \in KindSet[kind] \cap DOMAIN work[r] : db[i] = NewRow}

SameNumber(S, T) == IsFiniteSet(S) /\ IsFiniteSet(T) /\ Cardinality(S) = Cardinality(T)

\* Every change applied so far has reached its row, and every one without an
\* id has inserted one.
Progress(r) ==
  /\ \A at \in Applied(local[r]) : IdOf(local[r], at) # None =>
       /\ IdOf(local[r], at) \in DOMAIN work[r]
       /\ work[r][IdOf(local[r], at)].text = local[r].proposal
  /\ \A kind \in DOMAIN KindSet : SameNumber(Inserts(r, kind), Creates(local[r], kind))

ProgressInv == \A r \in Request : pc[r] \in Applying => Progress(r)

-----------------------------------------------------------------------------
(* The changes of a plan.                                                  *)

\* A plan has the changes its positions name, each of its kind, and only a
\* plan for an epic changes projects.
LEMMA ChangesOfPlan ==
  ASSUME NEW plan \in Plans, NEW parent \in Parent, NEW at \in Positions(plan, parent)
  PROVE  /\ at \in Nat \X Nat \X Nat
         /\ KindAt(at) = "project" => parent \in Epic /\ IsProjectChange(ChangeAt(plan, parent, at))
         /\ KindAt(at) = "stage" => IsStageChange(ChangeAt(plan, parent, at))
         /\ KindAt(at) = "todo" => IsTodoChange(ChangeAt(plan, parent, at))
<1> DEFINE projects == IF parent \in Project THEN {0} ELSE DOMAIN plan.projects
           changes(i) == StageChanges(plan, parent, i)
<1>1. IsPlan(plan)
  BY PlansAssumption
<1>2. projects \subseteq Nat
  BY <1>1 DEF IsPlan, IsSlice
<1>3. ASSUME NEW i \in projects
      PROVE  /\ DOMAIN changes(i) \subseteq Nat \ {0}
             /\ \A j \in DOMAIN changes(i) : IsStageChange(changes(i)[j])
  <2>1. CASE parent \in Project
    BY <1>1, <2>1 DEF IsPlan, IsSlice, StageChanges
  <2>2. CASE parent \notin Project
    <3>1. IsProjectChange(plan.projects[i])
      BY <1>1, <2>2 DEF IsPlan
    <3> QED BY <2>2, <3>1 DEF IsProjectChange, IsSlice, StageChanges
  <2> QED BY <2>1, <2>2
<1>4. CASE \E i \in projects \ {0} : at = <<i, 0, 0>>
  <2>1. PICK i \in projects \ {0} : at = <<i, 0, 0>>
    BY <1>4
  <2>2. parent \in Epic /\ IsProjectChange(plan.projects[i])
    BY <1>1, <2>1, KindsAssumption DEF IsPlan, Parent
  <2>3. KindAt(at) = "project" /\ ChangeAt(plan, parent, at) = plan.projects[i]
    BY <2>1 DEF KindAt, ChangeAt
  <2> QED BY <1>2, <2>1, <2>2, <2>3
<1>5. CASE \E i \in projects : \E j \in DOMAIN changes(i) :
             \E k \in {0} \cup DOMAIN changes(i)[j].todos : at = <<i, j, k>>
  <2>1. PICK i \in projects : \E j \in DOMAIN changes(i) :
               \E k \in {0} \cup DOMAIN changes(i)[j].todos : at = <<i, j, k>>
    BY <1>5
  <2>2. PICK j \in DOMAIN changes(i) :
                \E k \in {0} \cup DOMAIN changes(i)[j].todos : at = <<i, j, k>>
    BY <2>1
  <2>3. PICK k \in {0} \cup DOMAIN changes(i)[j].todos : at = <<i, j, k>>
    BY <2>2
  <2>4. IsStageChange(changes(i)[j]) /\ i \in Nat /\ j \in Nat \ {0}
    BY <1>2, <1>3, <2>3
  <2>5. CASE k = 0
    <3>1. KindAt(at) = "stage" /\ ChangeAt(plan, parent, at) = changes(i)[j]
      BY <2>3, <2>4, <2>5 DEF KindAt, ChangeAt
    <3> QED BY <2>3, <2>4, <2>5, <3>1
  <2>6. CASE k # 0
    <3>1. k \in Nat /\ IsTodoChange(changes(i)[j].todos[k])
      BY <2>3, <2>4, <2>6 DEF IsStageChange, IsSlice
    <3>2. KindAt(at) = "todo" /\ ChangeAt(plan, parent, at) = changes(i)[j].todos[k]
      BY <2>3, <2>4, <2>6, <3>1 DEF KindAt, ChangeAt
    <3> QED BY <2>3, <2>4, <3>1, <3>2
  <2> QED BY <2>5, <2>6
<1>6. CASE ~ \E i \in projects \ {0} : at = <<i, 0, 0>>
  <2> DEFINE stages == UNION {{<<i, j>> : j \in DOMAIN changes(i)} : i \in projects}
  <2>1. PICK s \in stages : \E k \in {0} \cup DOMAIN changes(s[1])[s[2]].todos : at = <<s[1], s[2], k>>
    BY <1>6 DEF Positions
  <2>2. PICK i \in projects : \E j \in DOMAIN changes(i) : s = <<i, j>>
    BY <2>1
  <2>3. PICK j \in DOMAIN changes(i) : s = <<i, j>>
    BY <2>2
  <2>4. s[1] = i /\ s[2] = j
    BY <2>3
  <2>5. \E k \in {0} \cup DOMAIN changes(i)[j].todos : at = <<i, j, k>>
    BY <2>1, <2>4
  <2> QED BY <1>5, <2>5
<1> QED BY <1>4, <1>6

LEMMA IdsOfPlan ==
  ASSUME NEW plan \in Plans, NEW parent \in Parent, NEW at \in Positions(plan, parent)
  PROVE  LET id == MeaningfulRef(ChangeAt(plan, parent, at).id) IN
         /\ KindAt(at) \in {"project", "stage", "todo"}
         /\ KindAt(at) = "project" => id \in Project \cup {None}
         /\ KindAt(at) = "stage" => id \in Stage \cup {None}
         /\ KindAt(at) = "todo" => id \in Todo \cup {None}
BY ChangesOfPlan DEF KindAt, MeaningfulRef, IsProjectChange, IsStageChange, IsTodoChange, Ref

-----------------------------------------------------------------------------
(* What a transaction sees.                                                *)

LEMMA ViewIs ==
  ASSUME NEW r \in Request, NEW i \in Id
  PROVE  /\ i \in DOMAIN work[r] => View(r)[i] = work[r][i]
         /\ i \notin DOMAIN work[r] => View(r)[i] = db[i]
BY DEF View

\* No written row is gone, so a transaction sees all rows that are there.
LEMMA ViewLive ==
  ASSUME WorkOK, NEW r \in Request, NEW i \in Id, Live(db, i)
  PROVE  Live(View(r), i)
BY ViewIs DEF WorkOK, Update, Insert, Live

LEMMA ViewRows ==
  ASSUME AcceptInv, NEW r \in Request
  PROVE  Rows(View(r)) /\ Closed(View(r))
<1>1. ASSUME NEW i \in Id
      PROVE  RowOf(i, View(r)[i]) /\ RefsLive(View(r), View(r)[i])
  <2>1. CASE i \in DOMAIN work[r]
    BY <2>1, ViewIs DEF AcceptInv, WorkOK, Update, Insert
  <2>2. CASE i \notin DOMAIN work[r]
    <3>1. RowOf(i, db[i]) /\ RefsLive(db, db[i]) /\ View(r)[i] = db[i] /\ db[i] \in Row
      BY <2>2, ViewIs DEF AcceptInv, Rows, Closed
    <3> QED BY <3>1, ViewLive DEF AcceptInv, RefsLive, Row, Id
  <2> QED BY <2>1, <2>2
<1>2. View(r) \in [Id -> Row]
  BY <1>1 DEF View, RowOf
<1> QED BY <1>1, <1>2 DEF Rows, Closed

-----------------------------------------------------------------------------
(* The invariant of accepting, for every form that a step can have.        *)

LEMMA InitAccept == Init => AcceptInv
<1> SUFFICES ASSUME Init
             PROVE  AcceptInv
  OBVIOUS
<1>1. \A i \in Id : RowOf(i, Tree[i]) /\ RefsLive(Tree, Tree[i])
  BY TreeAssumption DEF RowOf, RefsLive, Live
<1>2. Rows(db) /\ Closed(db)
  BY <1>1, TreeAssumption DEF Init, Rows, Closed
<1>3. NoProposal \in ProposalRow
  BY DEF NoProposal, ProposalRow
<1>4. NoLocal \in Locals
  BY DEF NoLocal, Locals, NoContext, Context
<1>5. ProposalsOK
  BY <1>3 DEF Init, ProposalsOK, NoProposal
<1>6. ASSUME NEW r \in Request
      PROVE  LocalOK(pc[r], local[r])
  BY <1>4 DEF Init, LocalOK, NoLocal, Applying
<1>7. RequestsOK
  BY <1>6 DEF Init, RequestsOK, Point
<1>8. \A r \in Request : DOMAIN work[r] = {} /\ work[r] \in [{} -> Row]
  BY DEF Init, Nothing
<1>9. WorkOK /\ Locks
  BY <1>8 DEF Init, WorkOK, Locks
<1>10. Marks
  BY DEF Init, Marks
<1> QED BY <1>2, <1>5, <1>7, <1>9, <1>10 DEF AcceptInv

\* Only r goes on, and writes nothing.  It begins to apply when no change has
\* been applied, and marks a draft that no other request has marked.
Moves(r, point, l) ==
  /\ point \in Point /\ Goto(r, point, l) /\ LocalOK(point, l)
  /\ pc[r] \in Applying => point \in Applying /\ l = local[r]
  /\ pc[r] \notin Applying /\ point \in Applying => point = "apply" /\ Applied(l) = {}
  /\ point = "commit" =>
       /\ proposals[l.proposal].status = "DRAFT"
       /\ \A s \in Request \ {r} : pc[s] = "commit" => local[s].proposal # l.proposal

LEMMA GotoAccept ==
  ASSUME AcceptInv, NEW r \in Request, NEW point, NEW l, Moves(r, point, l)
  PROVE  AcceptInv'
<1>1. UNCHANGED <<db, proposals, work>>
  BY DEF Moves, Goto
<1>2. /\ pc' \in [Request -> Point] /\ pc'[r] = point
      /\ \A s \in Request \ {r} : pc'[s] = pc[s]
      /\ local' = [s \in Request |-> local'[s]] /\ local'[r] = l
      /\ \A s \in Request \ {r} : local'[s] = local[s]
  BY DEF Moves, Goto, AcceptInv, RequestsOK
<1>3. \A s \in Request : LocalOK(pc[s], local[s])'
  BY <1>1, <1>2 DEF Moves, AcceptInv, RequestsOK, LocalOK
<1>4. RequestsOK'
  BY <1>2, <1>3 DEF RequestsOK
<1>5. \A s \in Request : View(s)' = View(s)
  BY <1>1 DEF View
<1>6. WorkOK'
  <2>1. \A s \in Request : DOMAIN work[s] # {} => local'[s].proposal = local[s].proposal
    BY <1>2 DEF Moves, AcceptInv, WorkOK
  <2>2. \A s \in Request : pc'[s] \notin Applying => DOMAIN work[s] = {}
    BY <1>2 DEF Moves, AcceptInv, WorkOK
  <2> QED BY <1>1, <1>5, <2>1, <2>2 DEF AcceptInv, WorkOK, RefsLive, Live
<1>7. Locks'
  BY <1>1 DEF AcceptInv, Locks
<1>8. Marks'
  BY <1>1, <1>2 DEF Moves, AcceptInv, Marks
<1> QED BY <1>1, <1>4, <1>6, <1>7, <1>8 DEF AcceptInv, Rows, Closed, RefsLive, Live, ProposalsOK

\* What ends is forgotten, and the others keep what they have.
LEMMA ReturnKeeps ==
  ASSUME AcceptInv, NEW r \in Request, Return(r)
  PROVE  /\ work' = [s \in Request |-> work'[s]] /\ DOMAIN work'[r] = {} /\ work'[r] \in [{} -> Row]
         /\ pc' \in [Request -> Point] /\ pc'[r] = "idle"
         /\ local' = [s \in Request |-> local'[s]] /\ local'[r] = NoLocal
         /\ \A s \in Request \ {r} :
              work'[s] = work[s] /\ pc'[s] = pc[s] /\ local'[s] = local[s]
<1>1. Nothing \in [{} -> Row] /\ DOMAIN Nothing = {}
  BY DEF Nothing
<1>2. /\ work' = [s \in Request |-> work'[s]] /\ work'[r] = Nothing
      /\ \A s \in Request \ {r} : work'[s] = work[s]
  BY DEF Return, AcceptInv, WorkOK
<1>3. /\ pc' \in [Request -> Point] /\ pc'[r] = "idle"
      /\ \A s \in Request \ {r} : pc'[s] = pc[s]
  BY DEF Return, AcceptInv, RequestsOK, Point
<1>4. /\ local' = [s \in Request |-> local'[s]] /\ local'[r] = NoLocal
      /\ \A s \in Request \ {r} : local'[s] = local[s]
  BY DEF Return, AcceptInv, RequestsOK
<1> QED BY <1>1, <1>2, <1>3, <1>4

\* A proposal is stored or marked, and every one that had been stored keeps
\* its parent and its plan: what requests know of it stays true.
LEMMA ReturnRequests ==
  ASSUME AcceptInv, NEW r \in Request, Return(r),
         \A q \in Proposal : proposals[q].status # "new" =>
           /\ proposals'[q].status # "new"
           /\ proposals'[q].plan = proposals[q].plan /\ proposals'[q].parent = proposals[q].parent
  PROVE  RequestsOK'
<1>1. NoLocal \in Locals /\ NoLocal.proposal = None
  BY DEF NoLocal, Locals, NoContext, Context
<1>2. LocalOK("idle", NoLocal)'
  BY <1>1 DEF LocalOK, Applying
<1>3. ASSUME NEW s \in Request \ {r}
      PROVE  LocalOK(pc[s], local[s])'
  BY <1>3, ReturnKeeps DEF AcceptInv, RequestsOK, LocalOK, Locals
<1> QED BY <1>2, <1>3, ReturnKeeps DEF RequestsOK

LEMMA FailAccept ==
  ASSUME AcceptInv, NEW r \in Request, Fail(r)
  PROVE  AcceptInv'
<1>1. Return(r) /\ UNCHANGED <<db, proposals>>
  BY DEF Fail
<1>2. RequestsOK'
  BY <1>1, ReturnRequests
<1>3. \A s \in Request \ {r} : View(s)' = View(s)
  BY <1>1, ReturnKeeps DEF View
<1>4. WorkOK'
  BY <1>1, <1>3, ReturnKeeps DEF AcceptInv, WorkOK, RefsLive, Live
<1>5. Locks'
  BY <1>1, ReturnKeeps DEF AcceptInv, Locks
<1>6. Marks'
  BY <1>1, ReturnKeeps DEF AcceptInv, Marks
<1> QED BY <1>1, <1>2, <1>4, <1>5, <1>6 DEF AcceptInv, Rows, Closed, RefsLive, Live, ProposalsOK

\* What stays live in db stays live for every transaction.
LEMMA LiveKept ==
  ASSUME NEW s \in Request, NEW row \in Row, RefsLive(View(s), row),
         \A p \in Id : Live(View(s), p) => Live(View(s), p)'
  PROVE  RefsLive(View(s), row)'
BY DEF RefsLive, Row, Id

\* A row that r may write, as it sees it: an update of a row that is there, or
\* an insert below rows that are there.
Fits(r, i, row) ==
  /\ i \in Id
  /\ \/ Update(local[r].proposal, i, View(r)[i], row)
     \/ Insert(local[r].proposal, i, View(r)[i], row) /\ RefsLive(View(r), row)

\* What r writes: the other transactions see nothing of it.
LEMMA WriteKeeps ==
  ASSUME AcceptInv, NEW r \in Request, NEW rows, WriteRows(r, rows),
         \A i \in DOMAIN rows : Fits(r, i, rows[i])
  PROVE  /\ UNCHANGED <<db, proposals>>
         /\ work' = [s \in Request |-> work'[s]]
         /\ \A s \in Request \ {r} : work'[s] = work[s] /\ View(s)' = View(s)
         /\ DOMAIN work'[r] = DOMAIN work[r] \cup DOMAIN rows
         /\ \A i \in DOMAIN rows : work'[r][i] = rows[i]
         /\ \A i \in DOMAIN work[r] \ DOMAIN rows : work'[r][i] = work[r][i]
         /\ \A i \in Id : View(r)'[i] = IF i \in DOMAIN rows THEN rows[i] ELSE View(r)[i]
         /\ \A s \in Request \ {r} : DOMAIN rows \cap DOMAIN work[s] = {}
<1>1. UNCHANGED <<db, proposals>>
  BY DEF WriteRows
<1>2. /\ work' = [s \in Request |-> work'[s]]
      /\ work'[r] = [i \in DOMAIN work[r] \cup DOMAIN rows |->
                       IF i \in DOMAIN rows THEN rows[i] ELSE work[r][i]]
      /\ \A s \in Request \ {r} : work'[s] = work[s]
  BY DEF WriteRows, AcceptInv, WorkOK
<1>3. \A s \in Request \ {r} : View(s)' = View(s)
  BY <1>1, <1>2 DEF View
<1>4. \A i \in Id : View(r)'[i] = IF i \in DOMAIN rows THEN rows[i] ELSE View(r)[i]
  BY <1>1, <1>2 DEF View
<1>5. \A s \in Request \ {r} : DOMAIN rows \cap DOMAIN work[s] = {}
  BY DEF WriteRows, LockedByOthers
<1> QED BY <1>1, <1>2, <1>3, <1>4, <1>5

\* Writing over a row of one's own, or over a committed row.
LEMMA WrittenOver ==
  ASSUME NEW q, NEW i, NEW a, NEW b, NEW c, Update(q, i, b, c)
  PROVE  /\ Update(q, i, a, b) => Update(q, i, a, c)
         /\ Insert(q, i, a, b) => Insert(q, i, a, c)
BY DEF Update, Insert, SameRefs

LEMMA WriteAccept ==
  ASSUME AcceptInv, NEW r \in Request, pc[r] \in Applying, NEW rows, WriteRows(r, rows),
         \A i \in DOMAIN rows : Fits(r, i, rows[i]),
         NEW point \in {"apply", "flag", "mark"}, NEW l, LocalOK(point, l),
         l.proposal = local[r].proposal,
         pc' = [pc EXCEPT ![r] = point], local' = [local EXCEPT ![r] = l]
  PROVE  AcceptInv'
<1>1. /\ UNCHANGED <<db, proposals>>
      /\ work' = [s \in Request |-> work'[s]]
      /\ \A s \in Request \ {r} : work'[s] = work[s] /\ View(s)' = View(s)
      /\ DOMAIN work'[r] = DOMAIN work[r] \cup DOMAIN rows
      /\ \A i \in DOMAIN rows : work'[r][i] = rows[i]
      /\ \A i \in DOMAIN work[r] \ DOMAIN rows : work'[r][i] = work[r][i]
      /\ \A i \in Id : View(r)'[i] = IF i \in DOMAIN rows THEN rows[i] ELSE View(r)[i]
      /\ \A s \in Request \ {r} : DOMAIN rows \cap DOMAIN work[s] = {}
  BY WriteKeeps
<1>2. /\ pc' \in [Request -> Point] /\ pc'[r] = point
      /\ \A s \in Request \ {r} : pc'[s] = pc[s]
      /\ local' = [s \in Request |-> local'[s]] /\ local'[r] = l
      /\ \A s \in Request \ {r} : local'[s] = local[s]
  BY DEF AcceptInv, RequestsOK, Point
<1>3. RequestsOK'
  <2>1. \A s \in Request : LocalOK(pc[s], local[s])'
    BY <1>1, <1>2 DEF AcceptInv, RequestsOK, LocalOK
  <2> QED BY <1>2, <2>1 DEF RequestsOK
<1>4. \A p \in Id : Live(View(r), p) => Live(View(r), p)'
  BY <1>1 DEF Fits, Update, Insert, Live
<1>5. ASSUME NEW i \in DOMAIN work'[r]
      PROVE  /\ i \in Id
             /\ \/ Update(l.proposal, i, db[i], work'[r][i])
                \/ Insert(l.proposal, i, db[i], work'[r][i])
             /\ RefsLive(View(r), work'[r][i])
  <2>1. CASE i \in DOMAIN rows
    <3>1. Fits(r, i, rows[i]) /\ work'[r][i] = rows[i] /\ i \in Id
      BY <1>1, <2>1 DEF Fits
    <3>2. RefsLive(View(r), View(r)[i]) /\ RowOf(i, db[i])
      BY <3>1, ViewRows DEF AcceptInv, Rows, Closed
    <3>3. RefsLive(View(r), rows[i])
      BY <3>1, <3>2 DEF Fits, Update, SameRefs, RefsLive
    <3>4. CASE i \in DOMAIN work[r]
      <4>1. View(r)[i] = work[r][i]
        BY <3>1, <3>4, ViewIs
      <4>2. \/ Update(l.proposal, i, db[i], work[r][i])
            \/ Insert(l.proposal, i, db[i], work[r][i])
        BY <3>4 DEF AcceptInv, WorkOK
      <4>3. work[r][i] # NewRow
        BY <4>2 DEF Update, Insert, NewRow
      <4>4. Update(l.proposal, i, work[r][i], rows[i])
        BY <3>1, <4>1, <4>3 DEF Fits, Insert
      <4> QED BY <3>1, <3>3, <4>2, <4>4, WrittenOver
    <3>5. CASE i \notin DOMAIN work[r]
      BY <3>1, <3>3, <3>5, ViewIs DEF Fits
    <3> QED BY <3>4, <3>5
  <2>2. CASE i \notin DOMAIN rows
    BY <1>1, <2>2 DEF AcceptInv, WorkOK
  <2> QED BY <2>1, <2>2
<1>6. WorkOK'
  <2>1. ASSUME NEW i \in DOMAIN work'[r]
        PROVE  /\ i \in Id /\ work'[r][i] \in Row
               /\ \/ Update(local'[r].proposal, i, db'[i], work'[r][i])
                  \/ Insert(local'[r].proposal, i, db'[i], work'[r][i])
               /\ RefsLive(View(r)', work'[r][i])
    <3>1. work'[r][i] \in Row
      BY <1>5 DEF Update, Insert, RowOf
    <3> QED BY <1>1, <1>2, <1>4, <1>5, <3>1 DEF RefsLive, Row, Id, Live
  <2>2. DOMAIN work'[r] \subseteq Id /\ work'[r] \in [DOMAIN work'[r] -> Row]
    <3>1. work'[r] = [i \in DOMAIN work'[r] |-> work'[r][i]]
      BY DEF WriteRows, AcceptInv, WorkOK
    <3> QED BY <2>1, <3>1
  <2>3. ASSUME NEW s \in Request \ {r}
        PROVE  /\ DOMAIN work'[s] \subseteq Id /\ work'[s] \in [DOMAIN work'[s] -> Row]
               /\ pc'[s] \notin Applying => DOMAIN work'[s] = {}
               /\ \A i \in DOMAIN work'[s] :
                    /\ \/ Update(local'[s].proposal, i, db'[i], work'[s][i])
                       \/ Insert(local'[s].proposal, i, db'[i], work'[s][i])
                    /\ RefsLive(View(s)', work'[s][i])
    BY <1>1, <1>2 DEF AcceptInv, WorkOK
  <2>4. pc'[r] \in Applying
    BY <1>2 DEF Applying
  <2> QED BY <1>1, <2>1, <2>2, <2>3, <2>4 DEF WorkOK, RefsLive, Live
<1>7. Locks'
  BY <1>1 DEF AcceptInv, Locks
<1>8. Marks'
  BY <1>1, <1>2 DEF AcceptInv, Marks
<1> QED BY <1>1, <1>3, <1>6, <1>7, <1>8 DEF AcceptInv, Rows, Closed, RefsLive, Live, ProposalsOK

\* The draft is stored under an identifier that no request knows.
LEMMA StoreAccept ==
  ASSUME AcceptInv, NEW r \in Request, CreateAIProposal(r)
  PROVE  AcceptInv'
<1>1. CASE Fail(r)
  BY <1>1, FailAccept
<1>2. CASE ~Fail(r)
  <2>1. PICK q \in Proposal :
          /\ proposals[q] = NoProposal
          /\ proposals' = [proposals EXCEPT ![q] = [status |-> "DRAFT", parent |-> local[r].parent,
                                                    plan |-> local[r].plan]]
          /\ Return(r)
          /\ UNCHANGED db
    BY <1>2 DEF CreateAIProposal
  <2>2. local[r].parent \in Parent /\ local[r].plan \in Plans
    BY DEF CreateAIProposal, AcceptInv, RequestsOK, LocalOK
  <2>3. proposals[q].status = "new"
    BY <2>1 DEF NoProposal
  <2>4. PICK x : x = [status |-> "DRAFT", parent |-> local[r].parent, plan |-> local[r].plan]
    OBVIOUS
  <2>5. /\ x \in ProposalRow /\ x.status = "DRAFT" /\ x.parent \in Parent /\ x.plan \in Plans
        /\ proposals' = [proposals EXCEPT ![q] = x]
    BY <2>1, <2>2, <2>4 DEF ProposalRow
  <2>6. ProposalsOK'
    BY <2>5 DEF AcceptInv, ProposalsOK
  <2>7. \A a \in Proposal : proposals[a].status # "new" => proposals'[a] = proposals[a]
    BY <2>3, <2>5 DEF AcceptInv, ProposalsOK
  <2>8. RequestsOK'
    <3>1. \A a \in Proposal : proposals[a].status # "new" =>
            /\ proposals'[a].status # "new"
            /\ proposals'[a].plan = proposals[a].plan
            /\ proposals'[a].parent = proposals[a].parent
      BY <2>7
    <3> QED BY <2>1, <3>1, ReturnRequests
  <2>9. \A s \in Request \ {r} : View(s)' = View(s)
    BY <2>1, ReturnKeeps DEF View
  <2>10. WorkOK'
    BY <2>1, <2>9, ReturnKeeps DEF AcceptInv, WorkOK, RefsLive, Live
  <2>11. Locks'
    BY <2>1, ReturnKeeps DEF AcceptInv, Locks
  <2>12. Marks'
    <3>1. ASSUME NEW s \in Request, pc'[s] = "commit"
          PROVE  s # r /\ pc[s] = "commit" /\ local[s].proposal \in Proposal
                 /\ proposals'[local[s].proposal] = proposals[local[s].proposal]
      <4>1. s # r /\ pc[s] = "commit"
        BY <2>1, <3>1, ReturnKeeps
      <4> QED BY <2>7, <4>1 DEF AcceptInv, RequestsOK, LocalOK, Applying, Locals
    <3> QED BY <2>1, <3>1, ReturnKeeps DEF AcceptInv, Marks
  <2> QED BY <2>1, <2>6, <2>8, <2>10, <2>11, <2>12 DEF AcceptInv, Rows, Closed, RefsLive, Live
<1> QED BY <1>1, <1>2

\* What r has written becomes what everybody sees.
LEMMA CommitAccept ==
  ASSUME AcceptInv, NEW r \in Request, Commit(r)
  PROVE  AcceptInv'
<1> DEFINE q == local[r].proposal
<1>1. /\ pc[r] = "commit" /\ db' = View(r) /\ Return(r)
      /\ proposals' = [proposals EXCEPT ![q].status = "APPLIED"]
  BY DEF Commit
<1>2. q \in Proposal /\ proposals[q].status = "DRAFT"
  BY <1>1 DEF AcceptInv, RequestsOK, LocalOK, Applying, Locals, Marks
<1>3. /\ proposals' \in [Proposal -> ProposalRow]
      /\ \A a \in Proposal \ {q} : proposals'[a] = proposals[a]
      /\ proposals'[q].status = "APPLIED" /\ proposals'[q].plan = proposals[q].plan
      /\ proposals'[q].parent = proposals[q].parent
  BY <1>1, <1>2 DEF AcceptInv, ProposalsOK, ProposalRow
<1>4. ProposalsOK'
  BY <1>2, <1>3 DEF AcceptInv, ProposalsOK
<1>5. RequestsOK'
  BY <1>1, <1>2, <1>3, ReturnRequests
<1>6. Rows(db)' /\ Closed(db)'
  BY <1>1, ViewRows DEF Rows, Closed, RefsLive, Live
<1>7. ASSUME NEW s \in Request \ {r}, NEW i \in DOMAIN work[s]
      PROVE  /\ i \in Id /\ db'[i] = db[i]
             /\ RefsLive(View(s), work[s][i])'
  <2>1. i \in Id /\ i \notin DOMAIN work[r]
    BY <1>7 DEF AcceptInv, WorkOK, Locks
  <2>2. db'[i] = db[i]
    BY <1>1, <2>1, ViewIs
  <2>3. \A p \in Id : Live(View(s), p) => Live(View(s), p)'
    <3>1. \A p \in Id : View(s)'[p] = IF p \in DOMAIN work[s] THEN work[s][p] ELSE View(r)[p]
      BY <1>1, <1>7, ReturnKeeps DEF View
    <3>2. \A p \in Id : Live(db, p) => Live(View(r), p)
      BY ViewLive DEF AcceptInv
    <3> QED BY <3>1, <3>2, ViewIs DEF Live
  <2>4. RefsLive(View(s), work[s][i]) /\ work[s][i] \in Row
    BY <1>7 DEF AcceptInv, WorkOK
  <2>5. work'[s] = work[s]
    BY <1>1, <1>7, ReturnKeeps
  <2> QED BY <2>1, <2>2, <2>3, <2>4, <2>5, LiveKept DEF RefsLive, Live
<1>8. WorkOK'
  BY <1>1, <1>7, ReturnKeeps DEF AcceptInv, WorkOK
<1>9. Locks'
  BY <1>1, ReturnKeeps DEF AcceptInv, Locks
<1>10. Marks'
  BY <1>1, <1>2, <1>3, ReturnKeeps DEF AcceptInv, Marks, RequestsOK, LocalOK, Applying, Locals
<1> QED BY <1>4, <1>5, <1>6, <1>8, <1>9, <1>10 DEF AcceptInv

\* The rows after another mutation has written some.
After(rows) == [i \in Id |-> IF i \in DOMAIN rows THEN rows[i] ELSE db[i]]

\* What another mutation may write: rows that are there and get no text; what
\* it removes is held by no insert, and what refers to it is written as well.
OtherFits(rows) ==
  /\ DOMAIN rows \subseteq Id
  /\ \A i \in DOMAIN rows :
       RowOf(i, rows[i]) /\ rows[i].text \in {db[i].text, None} /\ Live(db, i)
  /\ \A p \in Id : Live(db, p) /\ ~Live(After(rows), p) =>
       /\ p \notin KeyShared
       /\ \A i \in Id : p \in {db[i].epic, db[i].project, db[i].stage} => i \in DOMAIN rows

LEMMA OtherAccept ==
  ASSUME AcceptInv, NEW rows, OtherCommit(rows), OtherFits(rows), Closed(After(rows))
  PROVE  AcceptInv'
<1>1. /\ db' = After(rows) /\ UNCHANGED <<proposals, work, pc, local>>
      /\ \A r \in Request : DOMAIN rows \cap DOMAIN work[r] = {}
  BY DEF OtherCommit, After
<1>2. Rows(db')
  BY <1>1 DEF After, OtherFits, AcceptInv, Rows, RowOf
<1>3. ASSUME NEW r \in Request, NEW i \in DOMAIN work[r]
      PROVE  /\ i \in Id /\ db'[i] = db[i]
             /\ RefsLive(View(r), work[r][i])'
  <2>1. i \in Id /\ i \notin DOMAIN rows /\ work[r][i] \in Row /\ RefsLive(View(r), work[r][i])
    BY <1>1 DEF AcceptInv, WorkOK
  <2>2. db'[i] = db[i]
    BY <1>1, <2>1 DEF After
  <2>3. ASSUME NEW p \in Id, p \in {work[r][i].epic, work[r][i].project, work[r][i].stage},
               Live(View(r), p)
        PROVE  Live(View(r)', p)
    <3>1. View(r)'[p] = IF p \in DOMAIN work[r] THEN work[r][p] ELSE db'[p]
      BY <1>1 DEF View
    <3>2. CASE p \in DOMAIN work[r]
      BY <2>3, <3>1, <3>2, ViewIs DEF Live
    <3>3. CASE p \notin DOMAIN work[r]
      <4>1. Live(db, p)
        BY <2>3, <3>3, ViewIs DEF Live
      <4>2. CASE db[i] = NewRow
        <5>1. i \in Inserted(r)
          BY <4>2 DEF Inserted
        <5>2. p \in KeyShared
          BY <2>3, <5>1 DEF KeyShared
        <5> QED BY <1>1, <3>1, <3>3, <4>1, <5>2 DEF OtherFits, Live
      <4>3. CASE db[i] # NewRow
        <5>1. SameRefs(work[r][i], db[i])
          BY <4>3 DEF AcceptInv, WorkOK, Update, Insert
        <5> QED BY <1>1, <2>1, <2>3, <3>1, <3>3, <4>1, <5>1 DEF OtherFits, SameRefs, Live
      <4> QED BY <4>2, <4>3
    <3> QED BY <3>2, <3>3
  <2> QED BY <1>1, <2>1, <2>2, <2>3 DEF RefsLive, Row, Id, Live
<1>4. WorkOK'
  BY <1>1, <1>3 DEF AcceptInv, WorkOK
<1>5. RequestsOK' /\ ProposalsOK' /\ Locks' /\ Marks'
  BY <1>1 DEF AcceptInv, RequestsOK, LocalOK, ProposalsOK, Locks, Marks
<1> QED BY <1>1, <1>2, <1>4, <1>5 DEF AcceptInv, Closed, RefsLive, Live, Rows

-----------------------------------------------------------------------------
(* Reading the tree, asking for a plan, marking.                           *)

LEMMA GenerateMoves ==
  ASSUME AcceptInv, NEW r \in Request, GenerateAIProposal(r)
  PROVE  \E point, l : Moves(r, point, l)
<1>1. PICK parent \in Generating :
        pc[r] = "idle" /\ Goto(r, "parent", [NoLocal EXCEPT !.parent = parent])
  BY DEF GenerateAIProposal
<1>2. PICK l : l = [NoLocal EXCEPT !.parent = parent]
  OBVIOUS
<1>3. LocalOK("parent", l)
  BY <1>1, <1>2, GeneratingAssumption DEF LocalOK, NoLocal, Locals, NoContext, Context, Applying
<1> QED BY <1>1, <1>2, <1>3 DEF Moves, Point, Applying

LEMMA AcceptMoves ==
  ASSUME AcceptInv, NEW r \in Request, AcceptAIProposal(r)
  PROVE  \E point, l : Moves(r, point, l)
<1>1. PICK q \in Proposal :
        /\ pc[r] = "idle" /\ proposals[q].status = "DRAFT"
        /\ Goto(r, "parent", [NoLocal EXCEPT !.proposal = q, !.parent = proposals[q].parent,
                                             !.plan = proposals[q].plan])
  BY DEF AcceptAIProposal
<1>2. PICK l : l = [NoLocal EXCEPT !.proposal = q, !.parent = proposals[q].parent,
                                   !.plan = proposals[q].plan]
  OBVIOUS
<1>3. proposals[q].parent \in Parent /\ proposals[q].plan \in Plans
  BY <1>1 DEF AcceptInv, ProposalsOK
<1>4. LocalOK("parent", l)
  BY <1>1, <1>2, <1>3 DEF LocalOK, NoLocal, Locals, NoContext, Context, Applying
<1> QED BY <1>1, <1>2, <1>4 DEF Moves, Point, Applying

\* What the snapshot reads is typed, and the positions of a stored plan are.
LEMMA ReadOnMoves ==
  ASSUME AcceptInv, NEW r \in Request, pc[r] \notin Applying,
         NEW l, LocalOK("parent", l), ReadOn(r, l)
  PROVE  Fail(r) \/ \E point, x : Moves(r, point, x)
<1>1. CASE Fail(r)
  BY <1>1
<1>2. CASE l.unread # {} /\ ~Fail(r)
  <2>1. PICK p : p = CHOOSE x \in l.unread : TRUE
    OBVIOUS
  <2>2. PICK x : x = [l EXCEPT !.unread = @ \ {p}, !.reading = p]
    OBVIOUS
  <2>3. p \in l.unread
    BY <1>2, <2>1
  <2>4. Goto(r, "stages", x)
    BY <1>2, <2>1, <2>2 DEF ReadOn
  <2>5. LocalOK("stages", x)
    BY <2>2, <2>3 DEF LocalOK, Locals, Applying
  <2> QED BY <2>4, <2>5 DEF Moves, Point, Applying
<1>3. CASE l.unread = {} /\ ~Fail(r)
  <2>1. PICK done : done = [l EXCEPT !.reading = None]
    OBVIOUS
  <2>2. LocalOK("parent", done) /\ done \in Locals
    BY <2>1 DEF LocalOK, Locals, Applying
  <2>3. CASE done.proposal = None
    <3>1. Goto(r, "ask", done)
      BY <1>3, <2>1, <2>3 DEF ReadOn
    <3>2. LocalOK("ask", done)
      BY <2>2, <2>3 DEF LocalOK, Applying
    <3> QED BY <3>1, <3>2 DEF Moves, Point, Applying
  <2>4. CASE done.proposal # None
    <3>1. PICK x : x = [done EXCEPT !.project = IF done.parent \in Project THEN done.parent
                                                                           ELSE None,
                                    !.left = Positions(done.plan, done.parent),
                                    !.context = NoContext]
      OBVIOUS
    <3>2. Goto(r, "apply", x)
      BY <1>3, <2>1, <2>4, <3>1 DEF ReadOn
    <3>3. done.plan \in Plans /\ done.parent \in Parent
      BY <2>2, <2>4 DEF LocalOK, Locals, AcceptInv, ProposalsOK
    <3>4. Positions(done.plan, done.parent) \in SUBSET (Nat \X Nat \X Nat)
      BY <3>3, ChangesOfPlan
    <3>5. x \in Locals
      BY <2>2, <3>1, <3>4 DEF Locals, NoContext, Context
    <3>6. /\ x.proposal = done.proposal /\ x.plan = done.plan /\ x.parent = done.parent
          /\ x.left = Positions(done.plan, done.parent)
      BY <2>2, <3>1 DEF Locals
    <3>7. LocalOK("apply", x)
      BY <2>2, <2>4, <3>5, <3>6 DEF LocalOK
    <3>8. Applied(x) = {}
      BY <3>6 DEF Applied
    <3> QED BY <3>2, <3>7, <3>8 DEF Moves, Point, Applying
  <2> QED BY <2>3, <2>4
<1> QED BY <1>1, <1>2, <1>3

LEMMA GetParentMoves ==
  ASSUME AcceptInv, NEW r \in Request, GetParent(r)
  PROVE  Fail(r) \/ \E point, l : Moves(r, point, l)
<1>1. LocalOK("parent", local[r]) /\ local[r] \in Locals /\ local[r].parent \in Parent
      /\ pc[r] = "parent"
  BY DEF GetParent, AcceptInv, RequestsOK, LocalOK
<1>2. CASE Fail(r)
  BY <1>2
<1>3. CASE Goto(r, "projects", local[r])
  <2>1. LocalOK("projects", local[r])
    BY <1>1 DEF LocalOK, Applying
  <2> QED BY <1>1, <1>3, <2>1 DEF Moves, Point, Applying
<1>4. CASE /\ local[r].parent \in Project
           /\ Goto(r, "stages", [local[r] EXCEPT !.reading = local[r].parent,
                                                 !.context.projects = {local[r].parent}])
  <2>1. PICK l : l = [local[r] EXCEPT !.reading = local[r].parent,
                                      !.context.projects = {local[r].parent}]
    OBVIOUS
  <2>2. PICK context : context = [local[r].context EXCEPT !.projects = {local[r].parent}]
    OBVIOUS
  <2>3. l = [local[r] EXCEPT !.reading = local[r].parent, !.context = context]
    BY <1>1, <2>1, <2>2 DEF Locals
  <2>4. context \in Context
    BY <1>1, <1>4, <2>2 DEF Locals, Context
  <2>5. LocalOK("stages", l)
    BY <1>1, <1>4, <2>3, <2>4 DEF LocalOK, Locals, Applying
  <2> QED BY <1>1, <1>4, <2>1, <2>5 DEF Moves, Point, Applying
<1> QED BY <1>1, <1>2, <1>3, <1>4 DEF GetParent, Parent

LEMMA ListMoves ==
  ASSUME AcceptInv, NEW r \in Request, ListProjects(r) \/ ListStages(r) \/ ListTodos(r)
  PROVE  Fail(r) \/ \E point, l : Moves(r, point, l)
<1>1. local[r] \in Locals /\ LocalOK(pc[r], local[r])
  BY DEF AcceptInv, RequestsOK, LocalOK
<1>2. CASE ListProjects(r)
  <2>1. PICK listed : listed = {p \in Project : Live(db, p) /\ db[p].epic = local[r].parent}
    OBVIOUS
  <2>2. PICK l : l = [local[r] EXCEPT !.unread = listed, !.context.projects = listed]
    OBVIOUS
  <2>3. ReadOn(r, l) /\ pc[r] = "projects"
    BY <1>2, <2>1, <2>2 DEF ListProjects
  <2>4. LocalOK("parent", l)
    BY <1>1, <2>1, <2>2, <2>3 DEF LocalOK, Locals, Context, Applying
  <2> QED BY <2>3, <2>4, ReadOnMoves DEF Applying
<1>3. CASE ListStages(r)
  <2>1. PICK listed : listed = {s \in Stage : Live(db, s) /\ db[s].project = local[r].reading}
    OBVIOUS
  <2>2. PICK l : l = [local[r] EXCEPT !.context.stages = @ \cup ({local[r].reading} \X listed)]
    OBVIOUS
  <2>3. Goto(r, "todos", l) /\ pc[r] = "stages" /\ local[r].reading \in Project
    BY <1>1, <1>3, <2>1, <2>2 DEF ListStages, LocalOK
  <2>4. LocalOK("todos", l)
    BY <1>1, <2>1, <2>2, <2>3 DEF LocalOK, Locals, Context, Applying
  <2> QED BY <2>3, <2>4 DEF Moves, Point, Applying
<1>4. CASE ListTodos(r)
  <2>1. PICK p : p = local[r].reading
    OBVIOUS
  <2>2. PICK listed : listed = {t \in Todo : /\ Live(db, t) /\ db[t].project = p
                                             /\ <<p, db[t].stage>> \in local[r].context.stages}
    OBVIOUS
  <2>3. PICK read : read = {<<p, db[t].stage, t>> : t \in listed}
    OBVIOUS
  <2>4. PICK l : l = [local[r] EXCEPT !.context.todos = @ \cup read]
    OBVIOUS
  <2>5. ReadOn(r, l) /\ pc[r] = "todos"
    BY <1>4, <2>1, <2>2, <2>3, <2>4 DEF ListTodos
  <2>6. read \subseteq Project \X Stage \X Todo
    <3>1. local[r].context.stages \subseteq Project \X Stage
      BY <1>1 DEF Locals, Context
    <3>2. ASSUME NEW t \in listed
          PROVE  <<p, db[t].stage, t>> \in Project \X Stage \X Todo
      BY <2>2, <3>1
    <3> QED BY <2>3, <3>2
  <2>7. LocalOK("parent", l)
    BY <1>1, <2>4, <2>5, <2>6 DEF LocalOK, Locals, Context, Applying
  <2> QED BY <2>5, <2>7, ReadOnMoves DEF Applying
<1> QED BY <1>2, <1>3, <1>4

LEMMA AnswerMoves ==
  ASSUME AcceptInv, NEW r \in Request, Answer(r)
  PROVE  Fail(r) \/ \E point, l : Moves(r, point, l)
<1>1. local[r] \in Locals /\ LocalOK("ask", local[r]) /\ pc[r] = "ask"
  BY DEF Answer, AcceptInv, RequestsOK, LocalOK
<1>2. CASE Fail(r)
  BY <1>2
<1>3. CASE ~Fail(r)
  <2>1. PICK plan \in Plans :
          Goto(r, "store", [local[r] EXCEPT !.plan = plan, !.context = NoContext])
    BY <1>3 DEF Answer
  <2>2. PICK l : l = [local[r] EXCEPT !.plan = plan, !.context = NoContext]
    OBVIOUS
  <2>3. LocalOK("store", l)
    BY <1>1, <2>2 DEF LocalOK, Locals, NoContext, Context, Applying
  <2> QED BY <1>1, <2>1, <2>2, <2>3 DEF Moves, Point, Applying
<1> QED BY <1>2, <1>3

LEMMA MarkMoves ==
  ASSUME AcceptInv, NEW r \in Request, MarkAIProposalApplied(r)
  PROVE  Fail(r) \/ \E point, l : Moves(r, point, l)
<1>1. LocalOK("mark", local[r]) /\ pc[r] = "mark"
  BY DEF MarkAIProposalApplied, AcceptInv, RequestsOK
<1>2. CASE Fail(r)
  BY <1>2
<1>3. CASE ~Fail(r)
  <2>1. /\ Goto(r, "commit", local[r]) /\ proposals[local[r].proposal].status = "DRAFT"
        /\ \A s \in Request \ {r} : pc[s] = "commit" => local[s].proposal # local[r].proposal
    BY <1>3 DEF MarkAIProposalApplied, Marked
  <2>2. LocalOK("commit", local[r])
    BY <1>1 DEF LocalOK, Applying
  <2>3. pc[r] \in Applying
    BY <1>1 DEF Applying
  <2>4. Moves(r, "commit", local[r])
    BY <2>1, <2>2, <2>3 DEF Moves, Point, Applying
  <2> QED BY <2>4
<1> QED BY <1>2, <1>3

-----------------------------------------------------------------------------
(* Applying a change.                                                      *)

LEMMA ApplyingKnows ==
  ASSUME AcceptInv, NEW r \in Request, pc[r] \in Applying
  PROVE  /\ local[r] \in Locals /\ local[r].proposal \in Proposal
         /\ local[r].plan \in Plans /\ local[r].parent \in Parent
         /\ local[r].left \subseteq Positions(local[r].plan, local[r].parent)
         /\ proposals[local[r].proposal].plan = local[r].plan
         /\ proposals[local[r].proposal].parent = local[r].parent
BY DEF AcceptInv, RequestsOK, LocalOK, Locals, ProposalsOK

\* The change at this position has been applied, and l is what r knows then.
AdvancesTo(r, at, l) ==
  LET point == IF l.left = {} THEN "mark" ELSE "apply" IN
  /\ l.left = local[r].left \ {at}
  /\ l.proposal = local[r].proposal /\ l.plan = local[r].plan /\ l.parent = local[r].parent
  /\ LocalOK(point, l)
  /\ pc' = [pc EXCEPT ![r] = point] /\ local' = [local EXCEPT ![r] = l]

LEMMA AdvanceForm ==
  ASSUME AcceptInv, NEW r \in Request, pc[r] \in Applying, NEW at, NEW locals \in Locals,
         locals.proposal = local[r].proposal, locals.plan = local[r].plan,
         locals.parent = local[r].parent, locals.left = local[r].left,
         Advance(r, at, locals)
  PROVE  \E l : AdvancesTo(r, at, l)
<1>1. PICK left : left = locals.left \ {at}
  OBVIOUS
<1>2. PICK l : l = [locals EXCEPT !.left = left]
  OBVIOUS
<1>3. /\ l \in Locals /\ l.left = left /\ l.proposal = locals.proposal
      /\ l.plan = locals.plan /\ l.parent = locals.parent
  BY <1>1, <1>2 DEF Locals
<1>4. /\ local' = [local EXCEPT ![r] = l]
      /\ pc' = [pc EXCEPT ![r] = IF left = {} THEN "mark" ELSE "apply"]
  BY <1>1, <1>2 DEF Advance
<1>5. LocalOK("mark", local[r]) \/ LocalOK("apply", local[r])
  BY DEF AcceptInv, RequestsOK, LocalOK, Applying
<1>6. LocalOK(IF left = {} THEN "mark" ELSE "apply", l)
  BY <1>1, <1>3, <1>5, ApplyingKnows DEF LocalOK, Applying
<1> QED BY <1>1, <1>3, <1>4, <1>6 DEF AdvancesTo

\* The change at this position reaches row i: the row it names, or a new one
\* of its kind; and the index admits the flag it sets.
Executes(r, at, i, row) ==
  /\ Fits(r, i, row) /\ row.text = local[r].proposal
  /\ \/ IdOf(local[r], at) = i /\ Live(View(r), i)
     \/ IdOf(local[r], at) = None /\ i \in Fresh(KindSet[KindAt(at)])
  /\ \A p \in Project : Occupies(row, p) /\ ~Occupies(View(r)[i], p) =>
       ~IndexWait(Request \ {r}, i, p) /\ ~IndexConflict(View(r), i, p)
  /\ WriteRow(r, i, row)
  /\ \E l : AdvancesTo(r, at, l)

\* A new row, of the kind of i, below rows that are there.
LEMMA InsertFits ==
  ASSUME AcceptInv, NEW r \in Request, NEW i \in Id, NEW row,
         db[i] = NewRow, i \notin DOMAIN work[r],
         RowOf(i, row), row.life = "live", row.text = local[r].proposal, RefsLive(View(r), row)
  PROVE  Fits(r, i, row)
BY ViewIs DEF Fits, Insert

\* A row that is there gets a flag and the text of the proposal, or keeps its
\* text, and stays where it is.
Rewritten(r, i, text, next) == [View(r)[i] EXCEPT !.text = text, !.next = next]

LEMMA UpdateFits ==
  ASSUME AcceptInv, NEW r \in Request, pc[r] \in Applying, NEW i \in Id, Live(View(r), i),
         NEW next \in BOOLEAN, next => i \in Todo,
         NEW text, text \in {View(r)[i].text, local[r].proposal}
  PROVE  LET row == Rewritten(r, i, text, next) IN
         Fits(r, i, row) /\ row.text = text /\ row.next = next /\ row.project = View(r)[i].project
<1>1. View(r)[i] \in Row /\ RowOf(i, View(r)[i]) /\ local[r].proposal \in Proposal
  BY ViewRows, ApplyingKnows DEF Rows, RowOf
<1>2. PICK row : row = [View(r)[i] EXCEPT !.text = text, !.next = next]
  OBVIOUS
<1>3. Fits(r, i, row) /\ row.text = text /\ row.next = next /\ row.project = View(r)[i].project
  BY <1>1, <1>2 DEF Fits, Update, RowOf, Row, SameRefs, Live
<1> QED BY <1>2, <1>3, Zenon DEF Rewritten

LEMMA ProjectExecutes ==
  ASSUME AcceptInv, NEW r \in Request, NEW at \in local[r].left, ApplyProject(r, at), ~Fail(r)
  PROVE  \E i, row : Executes(r, at, i, row)
<1> DEFINE q == local[r].proposal
           p == IdOf(local[r], at)
<1>1. /\ pc[r] = "apply" /\ KindAt(at) = "project" /\ pc[r] \in Applying
      /\ p = MeaningfulRef(Change(r, at).id)
  BY DEF ApplyProject, Applying, IdOf, Change
<1>2. local[r] \in Locals /\ q \in Proposal /\ p \in Project \cup {None} /\ local[r].parent \in Epic
  BY <1>1, ApplyingKnows, IdsOfPlan, ChangesOfPlan DEF IdOf
<1>3. CASE p # None
  <2>1. PICK row : row = [View(r)[p] EXCEPT !.text = q]
    OBVIOUS
  <2>2. PICK locals : locals = [local[r] EXCEPT !.project = p]
    OBVIOUS
  <2>3. Live(View(r), p) /\ WriteRow(r, p, row) /\ Advance(r, at, locals)
    BY <1>1, <1>3, <2>1, <2>2 DEF ApplyProject
  <2>4. p \in Id /\ View(r)[p] \in Row /\ RowOf(p, View(r)[p])
    BY <1>2, <1>3, ViewRows DEF Rows, RowOf, Id
  <2>5. ~View(r)[p].next
    BY <1>2, <1>3, <2>4, KindsAssumption DEF RowOf
  <2>6. Fits(r, p, row) /\ row.text = q /\ ~row.next
    BY <1>2, <2>1, <2>3, <2>4, <2>5 DEF Fits, Update, RowOf, Row, SameRefs, Live
  <2>7. \E l : AdvancesTo(r, at, l)
    BY <1>1, <1>2, <1>3, <2>2, <2>3, AdvanceForm DEF Locals
  <2>8. Executes(r, at, p, row)
    BY <2>3, <2>6, <2>7 DEF Executes, Occupies
  <2> QED BY <2>8
<1>4. CASE p = None
  <2>1. PICK i \in Fresh(Project) :
          /\ WriteRow(r, i, [NewRow EXCEPT !.life = "live", !.text = q, !.epic = local[r].parent])
          /\ Advance(r, at, [local[r] EXCEPT !.project = i])
          /\ Referable(View(r), {local[r].parent})
    BY <1>1, <1>4 DEF ApplyProject
  <2>2. PICK row : row = [NewRow EXCEPT !.life = "live", !.text = q, !.epic = local[r].parent]
    OBVIOUS
  <2>3. PICK locals : locals = [local[r] EXCEPT !.project = i]
    OBVIOUS
  <2>4. i \in Project /\ i \in Id /\ db[i] = NewRow /\ i \notin DOMAIN work[r]
    BY <2>1 DEF Fresh, Id
  <2>5. /\ row \in Row /\ row.life = "live" /\ row.text = q /\ row.next = FALSE
        /\ row.epic = local[r].parent /\ row.project = None /\ row.stage = None
    BY <1>2, <2>2 DEF Row, NewRow
  <2>6. RowOf(i, row) /\ RefsLive(View(r), row)
    BY <2>1, <2>4, <2>5 DEF RowOf, RefsLive, Referable
  <2>7. Fits(r, i, row)
    BY <2>4, <2>5, <2>6, InsertFits
  <2>8. \E l : AdvancesTo(r, at, l)
    BY <1>1, <1>2, <2>1, <2>3, <2>4, AdvanceForm DEF Locals
  <2>9. KindSet[KindAt(at)] = Project
    BY <1>1 DEF KindSet
  <2>10. Executes(r, at, i, row)
    BY <1>4, <2>1, <2>2, <2>5, <2>7, <2>8, <2>9 DEF Executes, Occupies
  <2> QED BY <2>10
<1> QED BY <1>3, <1>4

LEMMA StageExecutes ==
  ASSUME AcceptInv, NEW r \in Request, NEW at \in local[r].left, ApplyStage(r, at), ~Fail(r)
  PROVE  \E i, row : Executes(r, at, i, row)
<1> DEFINE q == local[r].proposal
           s == IdOf(local[r], at)
<1>1. /\ pc[r] = "apply" /\ KindAt(at) = "stage" /\ pc[r] \in Applying
      /\ s = MeaningfulRef(Change(r, at).id)
  BY DEF ApplyStage, Applying, IdOf, Change
<1>2. local[r] \in Locals /\ q \in Proposal /\ s \in Stage \cup {None}
  BY <1>1, ApplyingKnows, IdsOfPlan DEF IdOf
<1>3. CASE s # None
  <2>1. PICK row : row = [View(r)[s] EXCEPT !.text = q]
    OBVIOUS
  <2>2. PICK locals : locals = [local[r] EXCEPT !.stage = s]
    OBVIOUS
  <2>3. Live(View(r), s) /\ WriteRow(r, s, row) /\ Advance(r, at, locals)
    BY <1>1, <1>3, <2>1, <2>2 DEF ApplyStage
  <2>4. s \in Id /\ View(r)[s] \in Row /\ RowOf(s, View(r)[s])
    BY <1>2, <1>3, ViewRows DEF Rows, RowOf, Id
  <2>5. ~View(r)[s].next
    BY <1>2, <1>3, <2>4, KindsAssumption DEF RowOf
  <2>6. Fits(r, s, row) /\ row.text = q /\ ~row.next
    BY <1>2, <2>1, <2>3, <2>4, <2>5 DEF Fits, Update, RowOf, Row, SameRefs, Live
  <2>7. \E l : AdvancesTo(r, at, l)
    BY <1>1, <1>2, <1>3, <2>2, <2>3, AdvanceForm DEF Locals
  <2>8. Executes(r, at, s, row)
    BY <2>3, <2>6, <2>7 DEF Executes, Occupies
  <2> QED BY <2>8
<1>4. CASE s = None
  <2>1. PICK i \in Fresh(Stage) :
          /\ WriteRow(r, i, [NewRow EXCEPT !.life = "live", !.text = q, !.project = local[r].project])
          /\ Advance(r, at, [local[r] EXCEPT !.stage = i])
          /\ Referable(View(r), {local[r].project})
    BY <1>1, <1>4 DEF ApplyStage
  <2>2. PICK row : row = [NewRow EXCEPT !.life = "live", !.text = q, !.project = local[r].project]
    OBVIOUS
  <2>3. PICK locals : locals = [local[r] EXCEPT !.stage = i]
    OBVIOUS
  <2>4. i \in Stage /\ i \in Id /\ db[i] = NewRow /\ i \notin DOMAIN work[r]
    BY <2>1 DEF Fresh, Id
  <2>5. /\ row \in Row /\ row.life = "live" /\ row.text = q /\ row.next = FALSE
        /\ row.epic = None /\ row.project = local[r].project /\ row.stage = None
    BY <1>2, <2>2 DEF Row, NewRow, Locals
  <2>6. RowOf(i, row) /\ RefsLive(View(r), row)
    BY <2>1, <2>4, <2>5 DEF RowOf, RefsLive, Referable
  <2>7. Fits(r, i, row)
    BY <2>4, <2>5, <2>6, InsertFits
  <2>8. \E l : AdvancesTo(r, at, l)
    BY <1>1, <1>2, <2>1, <2>3, <2>4, AdvanceForm DEF Locals
  <2>9. KindSet[KindAt(at)] = Stage
    BY <1>1 DEF KindSet
  <2>10. Executes(r, at, i, row)
    BY <1>4, <2>1, <2>2, <2>5, <2>7, <2>8, <2>9 DEF Executes, Occupies
  <2> QED BY <2>10
<1> QED BY <1>3, <1>4

\* The index admits what WriteTodo writes.
LEMMA WriteTodoForm ==
  ASSUME NEW r \in Request, NEW at, NEW t, NEW row, WriteTodo(r, at, t, row), ~Fail(r)
  PROVE  /\ WriteRow(r, t, row) /\ Advance(r, at, local[r])
         /\ \A p \in Project : Occupies(row, p) /\ ~Occupies(View(r)[t], p) =>
              ~IndexWait(Request \ {r}, t, p) /\ ~IndexConflict(View(r), t, p)
BY DEF WriteTodo, Occupies

LEMMA TodoExecutes ==
  ASSUME AcceptInv, NEW r \in Request, NEW at \in local[r].left, ApplyTodo(r, at), ~Fail(r)
  PROVE  \E i, row : Executes(r, at, i, row)
<1> DEFINE q == local[r].proposal
           t == IdOf(local[r], at)
           next == Change(r, at).next
<1>1. /\ pc[r] \in Applying /\ KindAt(at) = "todo"
      /\ t = MeaningfulRef(Change(r, at).id)
  BY DEF ApplyTodo, Applying, IdOf, Change
<1>2. local[r] \in Locals /\ q \in Proposal /\ t \in Todo \cup {None}
  BY <1>1, ApplyingKnows, IdsOfPlan DEF IdOf
<1>3. Advance(r, at, local[r]) => \E l : AdvancesTo(r, at, l)
  BY <1>1, <1>2, AdvanceForm
<1>4. CASE t # None
  <2>1. PICK b \in BOOLEAN : b = (next = "true" \/ (next = "null" /\ View(r)[t].next))
    OBVIOUS
  <2>2. PICK row : row = [View(r)[t] EXCEPT !.text = q, !.next = b]
    OBVIOUS
  <2>3. Live(View(r), t)
    BY <1>1, <1>4 DEF ApplyTodo
  <2>4. WriteTodo(r, at, t, [View(r)[t] EXCEPT !.text = q,
                                              !.next = next = "true" \/ (next = "null" /\ @)])
    BY <1>1, <1>4, <2>3, Zenon DEF ApplyTodo
  <2>5. t \in Id /\ View(r)[t] \in Row
    BY <1>2, <1>4, ViewRows DEF Rows, Id
  <2>6. WriteTodo(r, at, t, row)
    BY <2>1, <2>2, <2>4, Zenon
  <2>7. Fits(r, t, row) /\ row.text = q
    <3>1. row = Rewritten(r, t, q, b)
      BY <2>2 DEF Rewritten
    <3> QED BY <1>1, <1>2, <1>4, <2>3, <2>5, <3>1, UpdateFits
  <2>8. Executes(r, at, t, row)
    BY <1>3, <2>3, <2>6, <2>7, WriteTodoForm DEF Executes
  <2> QED BY <2>8
<1>5. CASE t = None
  <2>1. PICK b \in BOOLEAN : b = (next = "true" \/ (next = "null" /\ FALSE))
    OBVIOUS
  <2>2. Referable(View(r), {local[r].project, local[r].stage}) /\ Fresh(Todo) # {}
    BY <1>1, <1>5 DEF ApplyTodo
  <2>3. PICK i \in Fresh(Todo) :
          WriteTodo(r, at, i, [NewRow EXCEPT !.life = "live", !.text = q,
                                             !.project = local[r].project,
                                             !.stage = local[r].stage,
                                             !.next = next = "true" \/ (next = "null" /\ FALSE)])
    BY <1>1, <1>5, <2>2, Zenon DEF ApplyTodo
  <2>4. PICK row : row = [NewRow EXCEPT !.life = "live", !.text = q, !.project = local[r].project,
                                        !.stage = local[r].stage, !.next = b]
    OBVIOUS
  <2>5. WriteTodo(r, at, i, row)
    BY <2>1, <2>3, <2>4, Zenon
  <2>6. i \in Todo /\ i \in Id /\ db[i] = NewRow /\ i \notin DOMAIN work[r]
    BY <2>3 DEF Fresh, Id
  <2>7. /\ row \in Row /\ row.life = "live" /\ row.text = q
        /\ row.epic = None /\ row.project = local[r].project /\ row.stage = local[r].stage
    BY <1>2, <2>4 DEF Row, NewRow, Locals
  <2>8. RowOf(i, row) /\ RefsLive(View(r), row)
    BY <2>2, <2>6, <2>7 DEF RowOf, RefsLive, Referable
  <2>9. Fits(r, i, row)
    BY <2>6, <2>7, <2>8, InsertFits
  <2>10. KindSet[KindAt(at)] = Todo
    BY <1>1 DEF KindSet
  <2>11. Executes(r, at, i, row)
    BY <1>3, <1>5, <2>3, <2>5, <2>7, <2>9, <2>10, WriteTodoForm DEF Executes
  <2> QED BY <2>11
<1> QED BY <1>4, <1>5

\* The rows that the clear statement leaves.
ClearedRows(r, at) == [t \in Cleared(r, at) |-> [View(r)[t] EXCEPT !.next = FALSE]]

\* It takes flags away, and nothing else.
LEMMA ClearFits ==
  ASSUME AcceptInv, NEW r \in Request, NEW at, ApplyClear(r, at)
  PROVE  /\ pc[r] \in Applying /\ pc[r] # "commit"
         /\ WriteRows(r, ClearedRows(r, at))
         /\ pc' = [pc EXCEPT ![r] = "flag"] /\ local' = [local EXCEPT ![r] = local[r]]
         /\ DOMAIN ClearedRows(r, at) \subseteq Todo
         /\ \A t \in DOMAIN ClearedRows(r, at) :
              /\ Fits(r, t, ClearedRows(r, at)[t])
              /\ Live(View(r), t)
              /\ ~ClearedRows(r, at)[t].next
              /\ ClearedRows(r, at)[t].text = View(r)[t].text
<1>1. ASSUME NEW t \in Cleared(r, at)
      PROVE  /\ Fits(r, t, ClearedRows(r, at)[t]) /\ Live(View(r), t)
             /\ ~ClearedRows(r, at)[t].next /\ ClearedRows(r, at)[t].text = View(r)[t].text
  <2>1. t \in Id /\ Live(View(r), t) /\ pc[r] \in Applying
    BY DEF Cleared, ApplyClear, Applying, Id
  <2>2. PICK row : row = [View(r)[t] EXCEPT !.next = FALSE]
    OBVIOUS
  <2>3. ClearedRows(r, at)[t] = row
    BY <2>2 DEF ClearedRows
  <2>4. View(r)[t] \in Row
    BY <2>1, ViewRows DEF Rows
  <2>5. row = [View(r)[t] EXCEPT !.text = View(r)[t].text, !.next = FALSE]
    BY <2>2, <2>4 DEF Row
  <2>6. row = Rewritten(r, t, View(r)[t].text, FALSE)
    BY <2>5 DEF Rewritten
  <2>7. Fits(r, t, row) /\ row.text = View(r)[t].text /\ row.next = FALSE
    BY <2>1, <2>6, UpdateFits
  <2> QED BY <2>1, <2>3, <2>7
<1>2. DOMAIN ClearedRows(r, at) = Cleared(r, at) /\ Cleared(r, at) \subseteq Todo
  BY DEF ClearedRows, Cleared
<1>3. pc[r] = "apply" /\ WriteRows(r, ClearedRows(r, at)) /\ pc' = [pc EXCEPT ![r] = "flag"]
      /\ UNCHANGED local
  BY DEF ApplyClear, ClearedRows
<1>4. local' = [local EXCEPT ![r] = local[r]]
  BY <1>3 DEF AcceptInv, RequestsOK
<1> QED BY <1>1, <1>2, <1>3, <1>4 DEF Applying

\* A step of applying: it fails, it clears, or it executes the next change.
LEMMA ApplySteps ==
  ASSUME AcceptInv, NEW r \in Request, Apply(r), ~Fail(r)
  PROVE  \E at \in local[r].left :
           ApplyClear(r, at) \/ (pc[r] \in {"apply", "flag"} /\ \E i, row : Executes(r, at, i, row))
<1>1. PICK at \in local[r].left :
        ApplyProject(r, at) \/ ApplyStage(r, at) \/ ApplyClear(r, at) \/ ApplyTodo(r, at)
  BY DEF Apply, Current
<1>2. ApplyProject(r, at) \/ ApplyStage(r, at) \/ ApplyTodo(r, at) => pc[r] \in {"apply", "flag"}
  BY DEF ApplyProject, ApplyStage, ApplyTodo
<1> QED BY <1>1, <1>2, ProjectExecutes, StageExecutes, TodoExecutes

LEMMA ApplyAccept ==
  ASSUME AcceptInv, NEW r \in Request, Apply(r)
  PROVE  AcceptInv'
<1>1. CASE Fail(r)
  BY <1>1, FailAccept
<1>2. CASE ~Fail(r)
  <2>1. PICK at \in local[r].left :
          ApplyClear(r, at) \/ (pc[r] \in {"apply", "flag"} /\ \E i, row : Executes(r, at, i, row))
    BY <1>2, ApplySteps
  <2>2. CASE ApplyClear(r, at)
    <3>1. LocalOK("apply", local[r])
      BY <2>2 DEF ApplyClear, AcceptInv, RequestsOK
    <3>2. LocalOK("flag", local[r])
      BY <3>1 DEF LocalOK, Applying
    <3> QED BY <2>2, <3>2, ClearFits, WriteAccept
  <2>3. CASE pc[r] \in {"apply", "flag"} /\ \E i, row : Executes(r, at, i, row)
    <3>1. PICK i, row : Executes(r, at, i, row)
      BY <2>3
    <3>2. PICK l : AdvancesTo(r, at, l)
      BY <3>1 DEF Executes
    <3>3. PICK rows : rows = [j \in {i} |-> row]
      OBVIOUS
    <3>4. WriteRows(r, rows) /\ \A j \in DOMAIN rows : Fits(r, j, rows[j])
      BY <3>1, <3>3 DEF Executes, WriteRow
    <3>5. PICK point \in {"apply", "flag", "mark"} :
            /\ LocalOK(point, l) /\ l.proposal = local[r].proposal
            /\ pc' = [pc EXCEPT ![r] = point] /\ local' = [local EXCEPT ![r] = l]
      BY <3>2 DEF AdvancesTo
    <3>6. pc[r] \in Applying
      BY <2>3 DEF Applying
    <3> QED BY <3>4, <3>5, <3>6, WriteAccept
  <2> QED BY <2>1, <2>2, <2>3
<1> QED BY <1>1, <1>2

-----------------------------------------------------------------------------
(* The mutations of other requests.                                        *)

\* None of the rows takes a flag it did not have, or one row does and the
\* index admits it.
OtherFlags(rows) ==
  \/ \A t \in Todo \cap DOMAIN rows : \A p \in Project : Occupies(rows[t], p) => Occupies(db[t], p)
  \/ \E t \in Todo :
       /\ DOMAIN rows = {t}
       /\ \A p \in Project : Occupies(rows[t], p) => ~IndexConflict(db, t, p) /\ ~IndexWait(Request, t, p)

OtherStep(rows) == OtherCommit(rows) /\ OtherFits(rows) /\ Closed(After(rows)) /\ OtherFlags(rows)

\* A mutation that removes no row leaves the references of the others.
LEMMA OtherKeeps ==
  ASSUME AcceptInv, NEW rows, DOMAIN rows \subseteq Id,
         \A i \in DOMAIN rows :
           /\ RowOf(i, rows[i]) /\ rows[i].life = "live" /\ rows[i].text = db[i].text
           /\ Live(db, i) /\ RefsLive(db, rows[i])
  PROVE  OtherFits(rows) /\ Closed(After(rows))
<1>1. \A p \in Id : Live(db, p) => Live(After(rows), p)
  BY DEF After, Live
<1>2. \A i \in Id : After(rows)[i] \in Row /\ RefsLive(db, After(rows)[i])
  BY DEF After, AcceptInv, Rows, Closed, RowOf
<1>3. Closed(After(rows))
  BY <1>1, <1>2 DEF Closed, RefsLive, Row, Id
<1> QED BY <1>1, <1>3 DEF OtherFits

LEMMA MoveForm ==
  ASSUME AcceptInv, MoveTodo
  PROVE  \E rows : OtherStep(rows)
<1>1. PICK c \in Others :
        LET t == c.id
            row == [db[t] EXCEPT !.project = IF c.project = None THEN @ ELSE c.project,
                                 !.stage = IF c.stage = None THEN @ ELSE c.stage]
        IN /\ c.op = "moveTodo"
           /\ Live(db, t) /\ row # db[t]
           /\ \A parent \in {c.project, c.stage} \ {None} : Live(db, parent)
           /\ Admitted(t, row)
           /\ OtherCommit([u \in {t} |-> row])
  BY DEF MoveTodo
<1>2. PICK t : t = c.id
  OBVIOUS
<1>3. PICK project : project = IF c.project = None THEN db[t].project ELSE c.project
  OBVIOUS
<1>4. PICK stage : stage = IF c.stage = None THEN db[t].stage ELSE c.stage
  OBVIOUS
<1>5. t \in Todo /\ t \in Id /\ db[t] \in Row /\ RowOf(t, db[t]) /\ RefsLive(db, db[t])
  BY <1>1, <1>2, OthersAssumption DEF AcceptInv, Rows, Closed, Id
<1>6. PICK row : row = [db[t] EXCEPT !.project = project, !.stage = stage]
  OBVIOUS
<1>7. row = [db[t] EXCEPT !.project = IF c.project = None THEN @ ELSE c.project,
                          !.stage = IF c.stage = None THEN @ ELSE c.stage]
  BY <1>3, <1>4, <1>5, <1>6 DEF Row
<1>8. Live(db, t) /\ Admitted(t, row) /\ OtherCommit([u \in {t} |-> row])
      /\ \A parent \in {c.project, c.stage} \ {None} : Live(db, parent)
  BY <1>1, <1>2, <1>7
<1>9. project \in Project \cup {None} /\ stage \in Stage \cup {None}
  BY <1>3, <1>4, <1>5, OthersAssumption DEF Row
<1>10. /\ row.life = "live" /\ row.text = db[t].text /\ row.next = db[t].next /\ row \in Row
       /\ row.epic = db[t].epic /\ row.project = project /\ row.stage = stage
  BY <1>5, <1>6, <1>8, <1>9 DEF Row, Live
<1>11. RowOf(t, row) /\ RefsLive(db, row)
  BY <1>3, <1>4, <1>5, <1>8, <1>10 DEF RowOf, RefsLive
<1>12. PICK rows : rows = [u \in {t} |-> row]
  OBVIOUS
<1>13. DOMAIN rows = {t} /\ rows[t] = row
  BY <1>12
<1>14. OtherFits(rows) /\ Closed(After(rows))
  BY <1>5, <1>8, <1>10, <1>11, <1>13, OtherKeeps
<1>15. OtherFlags(rows)
  BY <1>5, <1>8, <1>13 DEF OtherFlags, Admitted, Occupies
<1> QED BY <1>8, <1>12, <1>14, <1>15 DEF OtherStep

LEMMA SetForm ==
  ASSUME AcceptInv, SetTodoNextAction
  PROVE  \E rows : OtherStep(rows)
<1>1. PICK c \in Others :
        LET row == [db[c.id] EXCEPT !.next = TRUE] IN
        /\ c.op = "flagTodo"
        /\ Live(db, c.id) /\ row # db[c.id]
        /\ Admitted(c.id, row)
        /\ OtherCommit([u \in {c.id} |-> row])
  BY DEF SetTodoNextAction
<1>2. PICK t : t = c.id
  OBVIOUS
<1>3. PICK row : row = [db[t] EXCEPT !.next = TRUE]
  OBVIOUS
<1>4. Live(db, t) /\ Admitted(t, row) /\ OtherCommit([u \in {t} |-> row])
  BY <1>1, <1>2, <1>3
<1>5. t \in Todo /\ t \in Id /\ db[t] \in Row /\ RowOf(t, db[t]) /\ RefsLive(db, db[t])
  BY <1>1, <1>2, OthersAssumption DEF AcceptInv, Rows, Closed, Id
<1>6. RowOf(t, row) /\ row.life = "live" /\ row.text = db[t].text /\ RefsLive(db, row)
  BY <1>3, <1>4, <1>5 DEF Row, RowOf, Live, RefsLive
<1>7. PICK rows : rows = [u \in {t} |-> row]
  OBVIOUS
<1>8. DOMAIN rows = {t} /\ rows[t] = row
  BY <1>7
<1>9. OtherFits(rows) /\ Closed(After(rows))
  BY <1>4, <1>5, <1>6, <1>8, OtherKeeps
<1>10. OtherFlags(rows)
  BY <1>4, <1>5, <1>8 DEF OtherFlags, Admitted, Occupies
<1> QED BY <1>4, <1>7, <1>9, <1>10 DEF OtherStep

LEMMA ClearForm ==
  ASSUME AcceptInv, ClearProjectNextActions
  PROVE  \E rows : OtherStep(rows)
<1>1. PICK c \in Others :
        OtherCommit([u \in {v \in Todo \ {c.id} : Live(db, v) /\ db[v].project = c.project} |->
                       [db[u] EXCEPT !.next = FALSE]])
  BY DEF ClearProjectNextActions
<1>2. PICK cleared : cleared = {v \in Todo \ {c.id} : Live(db, v) /\ db[v].project = c.project}
  OBVIOUS
<1>3. PICK rows : rows = [u \in cleared |-> [db[u] EXCEPT !.next = FALSE]]
  OBVIOUS
<1>4. OtherCommit(rows)
  BY <1>1, <1>2, <1>3
<1>5. ASSUME NEW t \in DOMAIN rows
      PROVE  /\ t \in Id /\ RowOf(t, rows[t]) /\ rows[t].life = "live" /\ rows[t].text = db[t].text
             /\ Live(db, t) /\ RefsLive(db, rows[t]) /\ rows[t].next = FALSE
  <2>1. t \in Id /\ Live(db, t) /\ rows[t] = [db[t] EXCEPT !.next = FALSE]
    BY <1>2, <1>3, <1>5 DEF Id
  <2>2. db[t] \in Row /\ RowOf(t, db[t]) /\ RefsLive(db, db[t])
    BY <2>1 DEF AcceptInv, Rows, Closed
  <2> QED BY <2>1, <2>2 DEF Row, RowOf, Live, RefsLive
<1>6. OtherFits(rows) /\ Closed(After(rows))
  BY <1>5, OtherKeeps
<1>7. OtherFlags(rows)
  BY <1>5 DEF OtherFlags, Occupies
<1> QED BY <1>4, <1>6, <1>7 DEF OtherStep

\* A deleted row is in no insert of an open transaction, and every row that
\* refers to it is deleted, detached or taken out of its stage.
LEMMA DeleteForm ==
  ASSUME AcceptInv, DeleteRow
  PROVE  \E rows : OtherStep(rows)
<1>1. PICK c \in Others, keep \in BOOLEAN :
        LET i == c.id
            stages == {s \in Stage : db[s].project = i}
            todos == {t \in Todo : db[t].project = i \/ db[t].stage = i}
            strays == {t \in Todo \ todos : ~keep /\ db[t].stage \in stages}
            detached(j) == [db[j] EXCEPT !.project = IF @ = i THEN None ELSE @,
                                         !.stage = IF @ = i THEN None ELSE @]
        IN
        /\ c.op = "delete"
        /\ Live(db, i) /\ ({i} \cup stages) \cap KeyShared = {}
        /\ OtherCommit([j \in {i} \cup stages \cup todos \cup strays |->
                          IF j \in strays THEN [db[j] EXCEPT !.stage = None]
                          ELSE IF keep /\ j # i THEN detached(j)
                          ELSE GoneRow])
  BY DEF DeleteRow
<1>2. PICK i : i = c.id
  OBVIOUS
<1>3. PICK stages : stages = {s \in Stage : db[s].project = i}
  OBVIOUS
<1>4. PICK todos : todos = {t \in Todo : db[t].project = i \/ db[t].stage = i}
  OBVIOUS
<1>5. PICK strays : strays = {t \in Todo \ todos : ~keep /\ db[t].stage \in stages}
  OBVIOUS
<1> DEFINE detached(j) == [db[j] EXCEPT !.project = IF @ = i THEN None ELSE @,
                                        !.stage = IF @ = i THEN None ELSE @]
<1>6. PICK rows : rows = [j \in {i} \cup stages \cup todos \cup strays |->
                            IF j \in strays THEN [db[j] EXCEPT !.stage = None]
                            ELSE IF keep /\ j # i THEN detached(j)
                            ELSE GoneRow]
  OBVIOUS
<1>7. Live(db, i) /\ ({i} \cup stages) \cap KeyShared = {} /\ OtherCommit(rows)
  BY <1>1, <1>2, <1>3, <1>4, <1>5, <1>6
<1>8. i \in Project \cup Stage \cup Todo /\ i \in Id /\ i # None
  BY <1>1, <1>2, KindsAssumption, OthersAssumption, NoneAssumption DEF Id
<1>9. \A j \in Id : RowOf(j, db[j]) /\ db[j] \in Row /\ RefsLive(db, db[j])
  BY DEF AcceptInv, Rows, Closed
<1>10. DOMAIN rows = {i} \cup stages \cup todos \cup strays /\ DOMAIN rows \subseteq Id
  BY <1>3, <1>4, <1>5, <1>6, <1>8 DEF Id
<1>11. i \notin strays
  BY <1>3, <1>5, <1>8, <1>9, KindsAssumption DEF Row, Id
<1>12. ASSUME NEW j \in DOMAIN rows
       PROVE  /\ RowOf(j, rows[j]) /\ rows[j].text \in {db[j].text, None} /\ Live(db, j)
              /\ \A p \in Project : Occupies(rows[j], p) => Occupies(db[j], p)
              /\ \/ rows[j] = GoneRow /\ (j = i \/ (~keep /\ j \in stages \cup todos))
                 \/ /\ j # i /\ rows[j].life = "live" /\ rows[j].epic = None
                    /\ rows[j].project \in {None, db[j].project} \ {i}
                    /\ rows[j].stage \in {None, db[j].stage} \ {i}
                    /\ ~keep => rows[j].stage = None
  <2>1. j \in Id /\ db[j] \in Row /\ RowOf(j, db[j])
    BY <1>9, <1>10
  <2>2. Live(db, j)
    <3>1. CASE j = i
      BY <1>7, <3>1
    <3>2. CASE j # i
      <4>1. db[j].project # None \/ db[j].stage # None
        BY <1>3, <1>4, <1>5, <1>8, <1>10, <3>2, NoneAssumption DEF Id
      <4> QED BY <2>1, <4>1 DEF RowOf, NewRow, GoneRow, Live
    <3> QED BY <3>1, <3>2
  <2>3. CASE j \in strays
    <3>1. rows[j] = [db[j] EXCEPT !.stage = None]
      BY <1>6, <1>10, <2>3
    <3>2. j \in Todo /\ db[j].project # i /\ j # i /\ ~keep /\ db[j].epic = None
      BY <1>4, <1>5, <1>11, <2>1, <2>3, KindsAssumption DEF RowOf
    <3>3. /\ rows[j] \in Row /\ rows[j].life = "live" /\ rows[j].epic = None /\ rows[j].stage = None
          /\ rows[j].project = db[j].project /\ rows[j].next = db[j].next /\ rows[j].text = db[j].text
      BY <2>1, <2>2, <3>1, <3>2 DEF Row, Live
    <3>4. RowOf(j, rows[j])
      BY <2>1, <3>2, <3>3 DEF RowOf
    <3> QED BY <1>8, <2>2, <3>2, <3>3, <3>4 DEF Occupies
  <2>4. CASE j \notin strays /\ keep /\ j # i
    <3>1. PICK project : project = IF db[j].project = i THEN None ELSE db[j].project
      OBVIOUS
    <3>2. PICK stage : stage = IF db[j].stage = i THEN None ELSE db[j].stage
      OBVIOUS
    <3>3. rows[j] = [db[j] EXCEPT !.project = project, !.stage = stage]
      BY <1>6, <1>10, <2>1, <2>4, <3>1, <3>2 DEF Row
    <3>4. db[j].epic = None
      BY <1>3, <1>4, <1>10, <2>1, <2>4, KindsAssumption DEF RowOf
    <3>5. /\ rows[j] \in Row /\ rows[j].life = "live" /\ rows[j].epic = None
          /\ rows[j].stage = stage /\ rows[j].project = project /\ rows[j].next = db[j].next
          /\ rows[j].text = db[j].text
      BY <2>1, <2>2, <3>1, <3>2, <3>3, <3>4 DEF Row, Live
    <3>6. RowOf(j, rows[j])
      BY <2>1, <3>1, <3>2, <3>5 DEF RowOf
    <3> QED BY <1>8, <2>2, <2>4, <3>1, <3>2, <3>5, <3>6 DEF Occupies
  <2>5. CASE j \notin strays /\ ~(keep /\ j # i)
    <3>1. rows[j] = GoneRow
      BY <1>6, <1>10, <2>5
    <3>2. GoneRow \in Row /\ RowOf(j, GoneRow) /\ GoneRow.text = None /\ ~GoneRow.next
      BY DEF GoneRow, NewRow, Row, RowOf
    <3> QED BY <1>10, <2>2, <2>5, <3>1, <3>2 DEF Occupies
  <2> QED BY <2>3, <2>4, <2>5
<1>13. ASSUME NEW p \in Id, Live(db, p), ~Live(After(rows), p)
       PROVE  p = i \/ (~keep /\ p \in stages \cup todos)
  BY <1>12, <1>13 DEF After, Live
<1>14. ASSUME NEW p \in Id, Live(db, p), ~Live(After(rows), p)
       PROVE  /\ p \notin KeyShared
              /\ \A j \in Id : p \in {db[j].epic, db[j].project, db[j].stage} => j \in DOMAIN rows
  <2>1. p = i \/ (~keep /\ p \in stages \cup todos)
    BY <1>13, <1>14
  <2>2. p \in Project \cup Stage \cup Todo
    BY <1>3, <1>4, <1>8, <2>1
  <2>3. p \notin KeyShared
    <3>1. CASE p \in {i} \cup stages
      BY <1>7, <3>1
    <3>2. CASE p \in Todo
      <4>1. \A r \in Request : \A j \in Inserted(r) : work[r][j] \in Row
        BY DEF Inserted, AcceptInv, WorkOK
      <4> QED BY <3>2, <4>1, KindsAssumption, NoneAssumption DEF KeyShared, Row, Id
    <3> QED BY <1>4, <2>1, <3>1, <3>2
  <2>4. ASSUME NEW j \in Id, p \in {db[j].epic, db[j].project, db[j].stage}
        PROVE  j \in DOMAIN rows
    <3>1. db[j] \in Row /\ RowOf(j, db[j]) /\ p # None
      BY <1>9, <1>14, NoneAssumption
    <3>2. \/ p \in Project /\ db[j].project = p /\ j \in Stage \cup Todo
          \/ p \in Stage /\ db[j].stage = p /\ j \in Todo
      BY <2>2, <2>4, <3>1, KindsAssumption DEF RowOf, Row
    <3>3. CASE p = i
      BY <1>3, <1>4, <1>10, <3>2, <3>3
    <3>4. CASE ~keep /\ p \in stages
      BY <1>3, <1>4, <1>5, <1>10, <3>2, <3>4, KindsAssumption
    <3>5. p \notin todos
      BY <1>4, <3>2, KindsAssumption
    <3> QED BY <2>1, <3>3, <3>4, <3>5
  <2> QED BY <2>3, <2>4
<1>15. OtherFits(rows)
  BY <1>10, <1>12, <1>14 DEF OtherFits
<1>16. ASSUME NEW j \in Id
       PROVE  RefsLive(After(rows), After(rows)[j])
  <2>1. db[j] \in Row /\ RefsLive(db, db[j])
    BY <1>9
  <2>2. CASE j \notin DOMAIN rows
    <3>1. After(rows)[j] = db[j]
      BY <2>2 DEF After
    <3> QED BY <1>14, <2>1, <2>2, <3>1 DEF RefsLive, Row, Id
  <2>3. CASE j \in DOMAIN rows
    <3>1. After(rows)[j] = rows[j]
      BY <2>3 DEF After
    <3>2. CASE rows[j] = GoneRow
      BY <3>1, <3>2 DEF GoneRow, NewRow, RefsLive
    <3>3. CASE rows[j] # GoneRow
      <4>1. /\ rows[j].epic = None
            /\ rows[j].project \in {None, db[j].project} \ {i}
            /\ rows[j].stage \in {None, db[j].stage} \ {i}
            /\ ~keep => rows[j].stage = None
        BY <1>12, <2>3, <3>3
      <4>2. rows[j].project # None => Live(After(rows), rows[j].project)
        <5>1. rows[j].project # None =>
                rows[j].project \in Project \ (stages \cup todos) /\ rows[j].project \in Id
                  /\ Live(db, rows[j].project)
          BY <1>3, <1>4, <2>1, <4>1, KindsAssumption DEF RefsLive, Row, Id
        <5> QED BY <1>13, <4>1, <5>1
      <4>3. rows[j].stage # None => Live(After(rows), rows[j].stage)
        <5>1. rows[j].stage # None => keep /\ rows[j].stage \in Id /\ Live(db, rows[j].stage)
          BY <2>1, <4>1 DEF RefsLive, Row, Id
        <5> QED BY <1>13, <4>1, <5>1
      <4> QED BY <3>1, <4>1, <4>2, <4>3 DEF RefsLive
    <3> QED BY <3>2, <3>3
  <2> QED BY <2>2, <2>3
<1>17. Closed(After(rows))
  BY <1>16 DEF Closed
<1>18. OtherFlags(rows)
  BY <1>12 DEF OtherFlags
<1> QED BY <1>7, <1>15, <1>17, <1>18 DEF OtherStep

LEMMA OtherForm ==
  ASSUME AcceptInv, MoveTodo \/ ClearProjectNextActions \/ SetTodoNextAction \/ DeleteRow
  PROVE  \E rows : OtherStep(rows)
BY MoveForm, ClearForm, SetForm, DeleteForm

-----------------------------------------------------------------------------
(* Every step keeps the invariant.                                         *)

\* A request ends without a commit; at most a draft has been stored.
Ends(r) ==
  /\ Return(r) /\ UNCHANGED db
  /\ \A q \in Proposal : proposals[q].status = "DRAFT" => proposals'[q].status = "DRAFT"

LEMMA StoreEnds ==
  ASSUME AcceptInv, NEW r \in Request, CreateAIProposal(r)
  PROVE  Ends(r)
<1>1. CASE Fail(r)
  BY <1>1 DEF Fail, Ends
<1>2. CASE ~Fail(r)
  <2>1. PICK q \in Proposal :
          /\ proposals[q] = NoProposal /\ Return(r) /\ UNCHANGED db
          /\ \E x : proposals' = [proposals EXCEPT ![q] = x]
    BY <1>2 DEF CreateAIProposal
  <2>2. PICK x : proposals' = [proposals EXCEPT ![q] = x]
    BY <2>1
  <2>3. \A a \in Proposal \ {q} : proposals'[a] = proposals[a]
    BY <2>1, <2>2 DEF AcceptInv, ProposalsOK
  <2> QED BY <2>1, <2>3 DEF Ends, NoProposal
<1> QED BY <1>1, <1>2

\* The forms that a step can have.
LEMMA StepForms ==
  ASSUME AcceptInv, Next
  PROVE  \/ \E r \in Request : \E point, l : Moves(r, point, l)
         \/ \E r \in Request : CreateAIProposal(r) \/ Fail(r) \/ (Apply(r) /\ ~Fail(r)) \/ Commit(r)
         \/ \E rows : OtherStep(rows)
<1>1. ASSUME NEW r \in Request, NoAnswer(r) \/ DeadlockVictim(r) \/ Abort(r)
      PROVE  Fail(r)
  BY <1>1 DEF NoAnswer, DeadlockVictim, Abort
<1>2. ASSUME NEW r \in Request, Execute(r)
      PROVE  \/ \E point, l : Moves(r, point, l)
             \/ CreateAIProposal(r) \/ Fail(r) \/ (Apply(r) /\ ~Fail(r)) \/ Commit(r)
  BY <1>2, GetParentMoves, ListMoves, MarkMoves DEF Execute
<1> QED BY <1>1, <1>2, GenerateMoves, AcceptMoves, AnswerMoves, OtherForm DEF Next

LEMMA NextAccept == AcceptInv /\ [Next]_vars => AcceptInv'
<1> SUFFICES ASSUME AcceptInv, [Next]_vars
             PROVE  AcceptInv'
  OBVIOUS
<1>1. CASE Next
  <2>1. ASSUME NEW r \in Request, NEW point, NEW l, Moves(r, point, l)
        PROVE  AcceptInv'
    BY <2>1, GotoAccept
  <2>2. ASSUME NEW r \in Request,
               CreateAIProposal(r) \/ Fail(r) \/ (Apply(r) /\ ~Fail(r)) \/ Commit(r)
        PROVE  AcceptInv'
    BY <2>2, StoreAccept, FailAccept, ApplyAccept, CommitAccept
  <2>3. ASSUME NEW rows, OtherStep(rows)
        PROVE  AcceptInv'
    BY <2>3, OtherAccept DEF OtherStep
  <2> QED BY <1>1, <2>1, <2>2, <2>3, StepForms
<1>2. CASE UNCHANGED vars
  <2>1. \A r \in Request : View(r)' = View(r)
    BY <1>2 DEF vars, View
  <2> QED BY <1>2, <2>1 DEF vars, AcceptInv, Rows, Closed, RefsLive, Live, ProposalsOK, RequestsOK,
                            LocalOK, WorkOK, Locks, Marks
<1> QED BY <1>1, <1>2

\* The inductive invariant about rows, locks and what requests know holds in
\* every reachable state.
THEOREM AlwaysAccept == Spec => []AcceptInv
BY InitAccept, NextAccept, PTL DEF Spec

\* Whatever plans the AI service answers with, and whatever the user changes
\* while they are applied: the rows, the proposals and what the requests know
\* keep their types, and only a transaction under way holds rows.
THEOREM TypeCorrect == Spec => []TypeOK
<1>1. AcceptInv => TypeOK
  BY DEF AcceptInv, Rows, ProposalsOK, RequestsOK, LocalOK, Locals, WorkOK, Applying, TypeOK
<1> QED BY <1>1, AlwaysAccept, PTL

\* What an accepted plan creates lies below rows that are there at the commit,
\* although the stages and the projects it was made for may be deleted while
\* it is applied.
THEOREM NoReferenceDangles == Spec => []NoDanglingReference
<1>1. AcceptInv => NoDanglingReference
  BY DEF AcceptInv, Closed, RefsLive, NoDanglingReference
<1> QED BY <1>1, AlwaysAccept, PTL

-----------------------------------------------------------------------------
(* A plan reaches the tree once.                                           *)

\* Only a commit and another mutation change what is committed.
LEMMA ApplyWrites ==
  ASSUME AcceptInv, NEW r \in Request, Apply(r), ~Fail(r)
  PROVE  UNCHANGED <<db, proposals>>
<1>1. PICK at \in local[r].left :
        ApplyClear(r, at) \/ (pc[r] \in {"apply", "flag"} /\ \E i, row : Executes(r, at, i, row))
  BY ApplySteps
<1>2. \E rows : WriteRows(r, rows)
  BY <1>1 DEF ApplyClear, Executes, WriteRow
<1> QED BY <1>2 DEF WriteRows

LEMMA PlanStep ==
  ASSUME AcceptInv, [Next]_vars, NEW q \in Proposal, NEW i \in Id, db'[i].text = q, db[i].text # q
  PROVE  proposals[q].status = "DRAFT" /\ proposals'[q].status = "APPLIED"
<1>1. Next /\ db' # db
  BY DEF vars
<1>2. ASSUME NEW r \in Request, Commit(r)
      PROVE  proposals[q].status = "DRAFT" /\ proposals'[q].status = "APPLIED"
  <2>1. i \in DOMAIN work[r] /\ db'[i] = work[r][i]
    BY <1>2, ViewIs DEF Commit
  <2>2. q = local[r].proposal
    BY <2>1 DEF AcceptInv, WorkOK, Update, Insert
  <2>3. proposals[q].status = "DRAFT" /\ q \in Proposal
    BY <1>2, <2>2 DEF Commit, AcceptInv, Marks
  <2>4. proposals' = [proposals EXCEPT ![q].status = "APPLIED"]
    BY <1>2, <2>2 DEF Commit
  <2> QED BY <2>3, <2>4 DEF AcceptInv, ProposalsOK, ProposalRow
<1>3. ASSUME NEW rows, OtherStep(rows)
      PROVE  FALSE
  <2>1. db'[i] = IF i \in DOMAIN rows THEN rows[i] ELSE db[i]
    BY <1>3 DEF OtherStep, OtherCommit
  <2> QED BY <1>3, <2>1, NoneAssumption DEF OtherStep, OtherFits
<1>4. ASSUME NEW r \in Request, CreateAIProposal(r) \/ Fail(r) \/ (Apply(r) /\ ~Fail(r))
      PROVE  UNCHANGED db
  BY <1>4, StoreEnds, ApplyWrites DEF Ends, Fail
<1>5. ASSUME NEW r \in Request, NEW point, NEW l, Moves(r, point, l)
      PROVE  UNCHANGED db
  BY <1>5 DEF Moves, Goto
<1> QED BY <1>1, <1>2, <1>3, <1>4, <1>5, StepForms

\* However many requests accept a proposal, and whichever of their statements
\* fail: rows take what its plan says only in the step that makes the draft
\* APPLIED.
THEOREM AppliesOnce == Spec => AppliedOnce
<1>1. AcceptInv /\ [Next]_vars =>
        [\A q \in Proposal :
           (\E i \in Id : db'[i].text = q /\ db[i].text # q)
             => proposals[q].status = "DRAFT" /\ proposals'[q].status = "APPLIED"]_vars
  BY PlanStep
<1> QED BY <1>1, AlwaysAccept, PTL DEF Spec, AppliedOnce

-----------------------------------------------------------------------------
(* One next action per project.                                            *)

LEMMA InitNext == Init => NextInv
<1> SUFFICES ASSUME Init
             PROVE  NextInv
  OBVIOUS
<1>1. OneNext(db)
  BY TreeAssumption DEF Init, OneNext, Occupies
<1>2. \A r \in Request : DOMAIN work[r] = {}
  BY DEF Init, Nothing
<1>3. \A r \in Request : \A i \in Todo : View(r)[i] = db[i]
  BY <1>2 DEF View, Id
<1> QED BY <1>1, <1>2, <1>3 DEF NextInv, OneNext, NextApart

LEMMA EndsNext ==
  ASSUME AcceptInv, NextInv, NEW r \in Request, Ends(r)
  PROVE  NextInv'
<1>1. UNCHANGED db /\ Return(r)
  BY DEF Ends
<1>2. \A s \in Request \ {r} : View(s)' = View(s)
  BY <1>1, ReturnKeeps DEF View
<1>3. \A i \in Todo : View(r)'[i] = db[i]
  BY <1>1, ReturnKeeps DEF View, Id
<1>4. \A s \in Request : OneNext(View(s))'
  BY <1>2, <1>3 DEF NextInv, OneNext
<1> QED BY <1>1, <1>4, ReturnKeeps DEF NextInv, OneNext, NextApart

\* Clearing takes flags away; a flag that is set finds no other in the rows
\* its transaction sees, and none in the rows of the others.
LEMMA ApplyNext ==
  ASSUME AcceptInv, NextInv, NEW r \in Request, Apply(r), ~Fail(r)
  PROVE  NextInv'
<1>1. PICK rows :
        /\ WriteRows(r, rows) /\ \A i \in DOMAIN rows : Fits(r, i, rows[i])
        /\ \/ \A i \in DOMAIN rows : ~rows[i].next
           \/ \E i : /\ DOMAIN rows = {i}
                     /\ \A p \in Project : Occupies(rows[i], p) /\ ~Occupies(View(r)[i], p) =>
                          ~IndexWait(Request \ {r}, i, p) /\ ~IndexConflict(View(r), i, p)
  <2>1. PICK at \in local[r].left :
          ApplyClear(r, at) \/ (pc[r] \in {"apply", "flag"} /\ \E i, row : Executes(r, at, i, row))
    BY ApplySteps
  <2>2. CASE ApplyClear(r, at)
    BY <2>2, ClearFits
  <2>3. CASE \E i, row : Executes(r, at, i, row)
    <3>1. PICK i, row : Executes(r, at, i, row)
      BY <2>3
    <3>2. PICK rows : rows = [j \in {i} |-> row]
      OBVIOUS
    <3>3. DOMAIN rows = {i} /\ rows[i] = row
      BY <3>2
    <3>4. WriteRows(r, rows) /\ \A j \in DOMAIN rows : Fits(r, j, rows[j])
      BY <3>1, <3>2, <3>3 DEF Executes, WriteRow
    <3>5. \A p \in Project : Occupies(rows[i], p) /\ ~Occupies(View(r)[i], p) =>
            ~IndexWait(Request \ {r}, i, p) /\ ~IndexConflict(View(r), i, p)
      BY <3>1, <3>3 DEF Executes
    <3> QED BY <3>3, <3>4, <3>5
  <2> QED BY <2>1, <2>2, <2>3
<1>2. /\ UNCHANGED <<db, proposals>>
      /\ work' = [s \in Request |-> work'[s]]
      /\ \A s \in Request \ {r} : work'[s] = work[s] /\ View(s)' = View(s)
      /\ DOMAIN work'[r] = DOMAIN work[r] \cup DOMAIN rows
      /\ \A i \in DOMAIN rows : work'[r][i] = rows[i]
      /\ \A i \in DOMAIN work[r] \ DOMAIN rows : work'[r][i] = work[r][i]
      /\ \A i \in Id : View(r)'[i] = IF i \in DOMAIN rows THEN rows[i] ELSE View(r)[i]
      /\ \A s \in Request \ {r} : DOMAIN rows \cap DOMAIN work[s] = {}
  BY <1>1, WriteKeeps
<1>3. Todo \subseteq Id
  BY DEF Id
<1>4. OneNext(View(r))'
  <2>1. ASSUME NEW t \in Todo, NEW u \in Todo, NEW p \in Project,
               Occupies(View(r)'[t], p), Occupies(View(r)'[u], p), t # u
        PROVE  FALSE
    <3>1. CASE \A i \in DOMAIN rows : ~rows[i].next
      BY <1>2, <1>3, <2>1, <3>1 DEF NextInv, OneNext, Occupies
    <3>2. CASE \E i : /\ DOMAIN rows = {i}
                      /\ \A o \in Project : Occupies(rows[i], o) /\ ~Occupies(View(r)[i], o) =>
                           ~IndexWait(Request \ {r}, i, o) /\ ~IndexConflict(View(r), i, o)
      <4>1. \A a \in Todo : \A b \in Todo \ {a} : DOMAIN rows = {a} =>
              ~(Occupies(View(r)'[a], p) /\ Occupies(View(r)'[b], p))
        BY <1>2, <1>3, <3>2 DEF NextInv, OneNext, IndexConflict
      <4> QED BY <1>2, <1>3, <2>1, <3>2, <4>1 DEF NextInv, OneNext
    <3> QED BY <1>1, <3>1, <3>2
  <2> QED BY <2>1 DEF OneNext
<1>5. ASSUME NEW s \in Request \ {r}, NEW t \in Todo \cap DOMAIN work'[r],
             NEW u \in Todo \cap DOMAIN work[s], NEW p \in Project,
             Occupies(work'[r][t], p), Occupies(work[s][u], p)
      PROVE  FALSE
  <2>1. CASE t \notin DOMAIN rows
    BY <1>2, <1>5, <2>1 DEF NextInv, NextApart
  <2>2. CASE t \in DOMAIN rows /\ ~Occupies(View(r)[t], p)
    <3>1. t # u /\ Occupies(rows[t], p)
      BY <1>2, <1>5, <2>2
    <3>2. ~IndexWait(Request \ {r}, t, p)
      <4>1. rows[t].next
        BY <3>1 DEF Occupies
      <4>2. PICK i : /\ DOMAIN rows = {i}
                     /\ \A o \in Project : Occupies(rows[i], o) /\ ~Occupies(View(r)[i], o) =>
                          ~IndexWait(Request \ {r}, i, o) /\ ~IndexConflict(View(r), i, o)
        BY <1>1, <2>2, <4>1
      <4>3. i = t
        BY <2>2, <4>2
      <4> QED BY <2>2, <3>1, <4>2, <4>3, Zenon
    <3> QED BY <1>5, <3>1, <3>2 DEF IndexWait
  <2>3. CASE t \in DOMAIN rows /\ Occupies(View(r)[t], p)
    <3>1. t # u /\ t \in Id /\ u \in Id /\ t \notin DOMAIN work[s]
      BY <1>2, <1>3, <1>5, <2>3
    <3>2. CASE t \in DOMAIN work[r]
      BY <1>5, <2>3, <3>1, <3>2, ViewIs DEF NextInv, NextApart
    <3>3. CASE t \notin DOMAIN work[r]
      <4>1. Occupies(View(s)[t], p) /\ Occupies(View(s)[u], p)
        BY <1>5, <2>3, <3>1, <3>3, ViewIs
      <4> QED BY <1>5, <3>1, <4>1 DEF NextInv, OneNext
    <3> QED BY <3>2, <3>3
  <2> QED BY <2>1, <2>2, <2>3
<1>6. NextApart'
  BY <1>2, <1>5 DEF NextInv, NextApart
<1> QED BY <1>2, <1>4, <1>6 DEF NextInv, OneNext

\* What two transactions see and have written agrees when one commits.
LEMMA CommitNext ==
  ASSUME AcceptInv, NextInv, NEW r \in Request, Commit(r)
  PROVE  NextInv'
<1>1. db' = View(r) /\ Return(r)
  BY DEF Commit
<1>2. OneNext(db)'
  BY <1>1 DEF NextInv, OneNext
<1>3. \A i \in Todo : View(r)'[i] = View(r)[i]
  BY <1>1, ReturnKeeps DEF View, Id
<1>4. ASSUME NEW s \in Request \ {r}, NEW t \in Todo, NEW u \in Todo, NEW p \in Project,
             Occupies(View(s)'[t], p), Occupies(View(s)'[u], p), t # u
      PROVE  FALSE
  <2>1. \A i \in Todo : View(s)'[i] = IF i \in DOMAIN work[s] THEN work[s][i] ELSE View(r)[i]
    BY <1>1, ReturnKeeps DEF View, Id
  <2>2. \A i \in Todo : /\ i \in DOMAIN work[s] => View(s)[i] = work[s][i]
                        /\ i \notin DOMAIN work[s] => View(s)[i] = db[i]
                        /\ i \in DOMAIN work[r] => View(r)[i] = work[r][i]
                        /\ i \notin DOMAIN work[r] => View(r)[i] = db[i]
    BY ViewIs DEF Id
  <2>3. ASSUME NEW a \in Todo, NEW b \in Todo \ {a}, Occupies(work[s][a], p), a \in DOMAIN work[s],
               Occupies(View(r)[b], p), b \notin DOMAIN work[s]
        PROVE  FALSE
    <3>1. CASE b \in DOMAIN work[r]
      BY <2>2, <2>3, <3>1 DEF NextInv, NextApart
    <3>2. CASE b \notin DOMAIN work[r]
      BY <2>2, <2>3, <3>2 DEF NextInv, OneNext
    <3> QED BY <3>1, <3>2
  <2>4. CASE t \in DOMAIN work[s] /\ u \in DOMAIN work[s]
    BY <1>4, <2>1, <2>2, <2>4 DEF NextInv, OneNext
  <2>5. CASE t \notin DOMAIN work[s] /\ u \notin DOMAIN work[s]
    BY <1>4, <2>1, <2>5 DEF NextInv, OneNext
  <2> QED BY <1>4, <2>1, <2>3, <2>4, <2>5
<1>5. \A s \in Request : OneNext(View(s))'
  BY <1>1, <1>3, <1>4 DEF NextInv, OneNext
<1>6. NextApart'
  BY <1>1, ReturnKeeps DEF NextInv, NextApart
<1> QED BY <1>2, <1>5, <1>6 DEF NextInv

\* A flag that another mutation sets has been checked against what is
\* committed and against what every transaction has written.
LEMMA OtherNext ==
  ASSUME AcceptInv, NextInv, NEW rows, OtherStep(rows)
  PROVE  NextInv'
<1>1. /\ UNCHANGED work /\ \A r \in Request : DOMAIN rows \cap DOMAIN work[r] = {}
      /\ \A i \in Id : db'[i] = IF i \in DOMAIN rows THEN rows[i] ELSE db[i]
  BY DEF OtherStep, OtherCommit
<1>2. \A r \in Request : \A i \in Todo :
        /\ i \in DOMAIN work[r] => View(r)'[i] = work[r][i] /\ View(r)[i] = work[r][i]
        /\ i \notin DOMAIN work[r] => View(r)'[i] = db'[i] /\ View(r)[i] = db[i]
  BY <1>1 DEF View, Id
<1>3. Todo \subseteq Id
  BY DEF Id
<1>4. CASE \A t \in Todo \cap DOMAIN rows : \A p \in Project : Occupies(rows[t], p) => Occupies(db[t], p)
  <2>1. \A t \in Todo : \A p \in Project : Occupies(db'[t], p) => Occupies(db[t], p)
    BY <1>1, <1>3, <1>4
  <2>2. \A r \in Request : \A t \in Todo : \A p \in Project :
          Occupies(View(r)'[t], p) => Occupies(View(r)[t], p)
    BY <1>2, <2>1
  <2> QED BY <1>1, <2>1, <2>2 DEF NextInv, OneNext, NextApart
<1>5. CASE \E t \in Todo :
             /\ DOMAIN rows = {t}
             /\ \A p \in Project :
                  Occupies(rows[t], p) => ~IndexConflict(db, t, p) /\ ~IndexWait(Request, t, p)
  <2>1. PICK t \in Todo :
          /\ DOMAIN rows = {t}
          /\ \A p \in Project :
               Occupies(rows[t], p) => ~IndexConflict(db, t, p) /\ ~IndexWait(Request, t, p)
    BY <1>5
  <2>2. db'[t] = rows[t] /\ \A u \in Todo \ {t} : db'[u] = db[u]
    BY <1>1, <1>3, <2>1
  <2>3. \A p \in Project : Occupies(rows[t], p) => \A u \in Todo \ {t} :
          /\ ~Occupies(db[u], p)
          /\ \A r \in Request : u \in DOMAIN work[r] => ~Occupies(work[r][u], p)
    BY <2>1 DEF IndexConflict, IndexWait
  <2>4. OneNext(db)'
    BY <2>2, <2>3 DEF NextInv, OneNext
  <2>5. \A r \in Request : /\ View(r)'[t] = rows[t]
                           /\ \A u \in Todo \ {t} : View(r)'[u] = View(r)[u]
    BY <1>1, <1>2, <2>1, <2>2
  <2>6. \A r \in Request : OneNext(View(r))'
    BY <1>2, <2>3, <2>5 DEF NextInv, OneNext
  <2> QED BY <1>1, <2>4, <2>6 DEF NextInv, NextApart
<1> QED BY <1>4, <1>5 DEF OtherStep, OtherFlags

LEMMA NextNext == AcceptInv /\ NextInv /\ [Next]_vars => NextInv'
<1> SUFFICES ASSUME AcceptInv, NextInv, [Next]_vars
             PROVE  NextInv'
  OBVIOUS
<1>1. UNCHANGED <<db, work>> => NextInv'
  <2> SUFFICES ASSUME UNCHANGED <<db, work>>
               PROVE  NextInv'
    OBVIOUS
  <2>1. \A r \in Request : View(r)' = View(r)
    BY DEF View
  <2> QED BY <2>1 DEF NextInv, OneNext, NextApart
<1>2. CASE Next
  <2>1. ASSUME NEW r \in Request, NEW point, NEW l, Moves(r, point, l)
        PROVE  NextInv'
    BY <1>1, <2>1 DEF Moves, Goto
  <2>2. ASSUME NEW r \in Request, CreateAIProposal(r) \/ Fail(r)
        PROVE  NextInv'
    <3>1. Ends(r)
      BY <2>2, StoreEnds DEF Fail, Ends
    <3> QED BY <3>1, EndsNext
  <2> QED BY <1>2, <2>1, <2>2, StepForms, ApplyNext, CommitNext, OtherNext
<1> QED BY <1>1, <1>2 DEF vars

\* What transactions under way have flagged is, in every reachable state, apart
\* from what is committed and from what the others have flagged.
THEOREM AlwaysNext == Spec => []NextInv
BY InitNext, NextNext, AlwaysAccept, PTL DEF Spec

\* A project has one next action at most, also while plans that set next
\* actions are applied next to each other and to the mutations: what one
\* transaction flags is apart from what the others have flagged, before they
\* see each other's rows.
THEOREM OneNextAction == Spec => []OneNextActionPerProject
<1>1. AcceptInv /\ NextInv => OneNextActionPerProject
  <2> SUFFICES ASSUME AcceptInv, NextInv, NEW t \in Todo, NEW u \in Todo,
                      db[t].next, db[u].next, db[t].project = db[u].project, db[t].project # None
               PROVE  t = u
    BY DEF OneNextActionPerProject
  <2>1. db[t].project \in Project
    BY DEF AcceptInv, Rows, Row, Id
  <2> QED BY <2>1 DEF NextInv, OneNext, Occupies
<1> QED BY <1>1, AlwaysAccept, AlwaysNext, PTL

-----------------------------------------------------------------------------
(* A plan that is applied is applied entirely.                             *)

LEMMA SameNumberAdded ==
  ASSUME NEW S, NEW T, SameNumber(S, T), NEW x, x \notin S, NEW y, y \notin T
  PROVE  SameNumber(S \cup {x}, T \cup {y})
BY FS_AddElement DEF SameNumber

\* What nobody else has locked counts as before.
LEMMA ProgressKept ==
  ASSUME NEW r \in Request, Progress(r), work'[r] = work[r], local'[r] = local[r],
         \A i \in DOMAIN work[r] : (db'[i] = NewRow) = (db[i] = NewRow)
  PROVE  Progress(r)'
<1>1. \A kind \in DOMAIN KindSet : Inserts(r, kind)' = Inserts(r, kind)
  BY DEF Inserts
<1> QED BY <1>1 DEF Progress

LEMMA MovesProgress ==
  ASSUME AcceptInv, ProgressInv, NEW r \in Request, NEW point, NEW l, Moves(r, point, l)
  PROVE  ProgressInv'
<1>1. /\ UNCHANGED <<db, work>> /\ pc'[r] = point /\ local'[r] = l
      /\ \A s \in Request \ {r} : pc'[s] = pc[s] /\ local'[s] = local[s]
  BY DEF Moves, Goto, AcceptInv, RequestsOK
<1>2. ASSUME NEW s \in Request, pc'[s] \in Applying, pc[s] \in Applying
      PROVE  Progress(s)'
  <2>1. local'[s] = local[s] /\ work'[s] = work[s] /\ Progress(s)
    BY <1>1, <1>2 DEF Moves, ProgressInv
  <2> QED BY <1>1, <2>1, ProgressKept
<1>3. ASSUME pc[r] \notin Applying, point \in Applying
      PROVE  Progress(r)'
  <2>1. Applied(l) = {} /\ DOMAIN work[r] = {}
    BY <1>3 DEF Moves, AcceptInv, WorkOK
  <2>2. \A kind \in DOMAIN KindSet : Inserts(r, kind)' = {} /\ Creates(l, kind) = {}
    BY <1>1, <2>1 DEF Inserts, Creates
  <2>3. SameNumber({}, {})
    BY FS_EmptySet DEF SameNumber
  <2> QED BY <1>1, <2>1, <2>2, <2>3 DEF Progress
<1> QED BY <1>1, <1>2, <1>3 DEF ProgressInv

LEMMA EndsProgress ==
  ASSUME AcceptInv, ProgressInv, NEW r \in Request, Ends(r)
  PROVE  ProgressInv'
<1>1. UNCHANGED db /\ Return(r)
  BY DEF Ends
<1>2. ASSUME NEW s \in Request, pc'[s] \in Applying
      PROVE  Progress(s)'
  <2>1. s # r /\ pc[s] \in Applying /\ work'[s] = work[s] /\ local'[s] = local[s]
    BY <1>1, <1>2, ReturnKeeps DEF Applying
  <2> QED BY <1>1, <2>1, ProgressKept DEF ProgressInv
<1> QED BY <1>2 DEF ProgressInv

\* A commit and the other mutations leave the rows that a transaction has
\* written as they are.
LEMMA CommitProgress ==
  ASSUME AcceptInv, ProgressInv, NEW r \in Request, Commit(r)
  PROVE  ProgressInv'
<1>1. db' = View(r) /\ Return(r)
  BY DEF Commit
<1>2. ASSUME NEW s \in Request, pc'[s] \in Applying
      PROVE  Progress(s)'
  <2>1. s # r /\ pc[s] \in Applying /\ work'[s] = work[s] /\ local'[s] = local[s]
    BY <1>1, <1>2, ReturnKeeps DEF Applying
  <2>2. \A i \in DOMAIN work[s] : db'[i] = db[i]
    <3>1. ASSUME NEW i \in DOMAIN work[s]
          PROVE  i \in Id /\ i \notin DOMAIN work[r]
      BY <2>1 DEF AcceptInv, WorkOK, Locks
    <3> QED BY <1>1, <3>1, ViewIs
  <2> QED BY <2>1, <2>2, ProgressKept DEF ProgressInv
<1> QED BY <1>2 DEF ProgressInv

LEMMA OtherProgress ==
  ASSUME AcceptInv, ProgressInv, NEW rows, OtherStep(rows)
  PROVE  ProgressInv'
<1>1. /\ UNCHANGED <<work, pc, local>>
      /\ \A s \in Request : \A i \in DOMAIN work[s] : i \in Id /\ i \notin DOMAIN rows
      /\ \A i \in Id : db'[i] = IF i \in DOMAIN rows THEN rows[i] ELSE db[i]
  BY DEF OtherStep, OtherCommit, AcceptInv, WorkOK
<1>2. \A s \in Request : pc[s] \in Applying => Progress(s)'
  BY <1>1, ProgressKept DEF ProgressInv
<1> QED BY <1>1, <1>2 DEF ProgressInv

\* Clearing inserts nothing and keeps the texts.
LEMMA ClearProgress ==
  ASSUME AcceptInv, ProgressInv, NEW r \in Request, NEW at, ApplyClear(r, at)
  PROVE  Progress(r)'
<1>1. PICK rows : rows = ClearedRows(r, at)
  OBVIOUS
<1>2. /\ WriteRows(r, rows) /\ pc[r] \in Applying /\ local' = [local EXCEPT ![r] = local[r]]
      /\ \A t \in DOMAIN rows : /\ Fits(r, t, rows[t]) /\ Live(View(r), t)
                                /\ rows[t].text = View(r)[t].text /\ t \in Id
  BY <1>1, ClearFits DEF Fits
<1>3. /\ UNCHANGED db
      /\ DOMAIN work'[r] = DOMAIN work[r] \cup DOMAIN rows
      /\ \A i \in DOMAIN rows : work'[r][i] = rows[i]
      /\ \A i \in DOMAIN work[r] \ DOMAIN rows : work'[r][i] = work[r][i]
  BY <1>2, WriteKeeps
<1>4. local'[r] = local[r]
  BY <1>2 DEF AcceptInv, RequestsOK
<1>5. \A i \in DOMAIN work[r] : work'[r][i].text = work[r][i].text
  BY <1>2, <1>3, ViewIs
<1>6. \A kind \in DOMAIN KindSet : Inserts(r, kind)' = Inserts(r, kind)
  <2>1. \A i \in DOMAIN rows : i \notin DOMAIN work[r] => db[i] # NewRow
    BY <1>2, ViewIs DEF Live, NewRow
  <2> QED BY <1>3, <2>1 DEF Inserts
<1> QED BY <1>2, <1>3, <1>4, <1>5, <1>6 DEF ProgressInv, Progress

\* A change reaches the row it names, or inserts one row of its kind.
LEMMA ExecutesProgress ==
  ASSUME AcceptInv, ProgressInv, NEW r \in Request, pc[r] \in Applying,
         NEW at \in local[r].left, NEW i, NEW row, Executes(r, at, i, row)
  PROVE  Progress(r)'
<1>1. PICK l : AdvancesTo(r, at, l)
  BY DEF Executes
<1>2. local'[r] = l /\ l.proposal = local[r].proposal /\ l.plan = local[r].plan
      /\ l.parent = local[r].parent /\ l.left = local[r].left \ {at}
  BY <1>1 DEF AdvancesTo, AcceptInv, RequestsOK
<1>3. /\ Applied(l) = Applied(local[r]) \cup {at} /\ at \notin Applied(local[r])
      /\ \A a : IdOf(l, a) = IdOf(local[r], a)
  BY <1>2, ApplyingKnows DEF Applied, IdOf
<1>4. PICK rows : rows = [j \in {i} |-> row]
  OBVIOUS
<1>5. DOMAIN rows = {i} /\ rows[i] = row
  BY <1>4
<1>6. WriteRows(r, rows) /\ \A j \in DOMAIN rows : Fits(r, j, rows[j])
  BY <1>4, <1>5 DEF Executes, WriteRow
<1>7. /\ UNCHANGED db
      /\ DOMAIN work'[r] = DOMAIN work[r] \cup {i}
      /\ work'[r][i] = row
      /\ \A j \in DOMAIN work[r] \ {i} : work'[r][j] = work[r][j]
  BY <1>5, <1>6, WriteKeeps
<1>8. i \in Id /\ row.text = local[r].proposal /\ Progress(r)
  BY DEF Executes, Fits, ProgressInv
<1>9. CASE IdOf(local[r], at) = i /\ Live(View(r), i) /\ i # None
  <2>1. \A a \in Applied(l) : IdOf(l, a) # None =>
          IdOf(l, a) \in DOMAIN work'[r] /\ work'[r][IdOf(l, a)].text = l.proposal
    BY <1>2, <1>3, <1>7, <1>8, <1>9 DEF Progress
  <2>2. i \notin DOMAIN work[r] => db[i] # NewRow
    BY <1>8, <1>9, ViewIs DEF Live, NewRow
  <2>3. \A kind \in DOMAIN KindSet : /\ Inserts(r, kind)' = Inserts(r, kind)
                                     /\ Creates(l, kind) = Creates(local[r], kind)
    BY <1>3, <1>7, <1>9, <2>2 DEF Inserts, Creates
  <2> QED BY <1>2, <1>8, <2>1, <2>3 DEF Progress
<1>10. CASE IdOf(local[r], at) = None /\ i \in Fresh(KindSet[KindAt(at)])
  <2>1. db[i] = NewRow /\ i \notin DOMAIN work[r] /\ i \in KindSet[KindAt(at)]
    BY <1>10 DEF Fresh
  <2>2. \A a \in Applied(l) : IdOf(l, a) # None =>
          IdOf(l, a) \in DOMAIN work'[r] /\ work'[r][IdOf(l, a)].text = l.proposal
    BY <1>2, <1>3, <1>7, <1>8, <1>10, <2>1 DEF Progress
  <2>3. ASSUME NEW kind \in DOMAIN KindSet
        PROVE  SameNumber(Inserts(r, kind), Creates(local[r], kind))'
    <3>1. SameNumber(Inserts(r, kind), Creates(local[r], kind))
      BY <1>8 DEF Progress
    <3>2. CASE kind = KindAt(at)
      <4>1. Inserts(r, kind)' = Inserts(r, kind) \cup {i} /\ i \notin Inserts(r, kind)
        BY <1>7, <2>1, <3>2 DEF Inserts
      <4>2. Creates(l, kind) = Creates(local[r], kind) \cup {at} /\ at \notin Creates(local[r], kind)
        BY <1>3, <1>10, <3>2 DEF Creates
      <4> QED BY <1>2, <3>1, <4>1, <4>2, SameNumberAdded
    <3>3. CASE kind # KindAt(at)
      <4>1. i \notin KindSet[kind]
        BY <2>1, <3>3, KindsAssumption DEF KindSet, KindAt
      <4>2. Inserts(r, kind)' = Inserts(r, kind) /\ Creates(l, kind) = Creates(local[r], kind)
        BY <1>3, <1>7, <3>3, <4>1 DEF Inserts, Creates
      <4> QED BY <1>2, <3>1, <4>2
    <3> QED BY <3>2, <3>3
  <2> QED BY <1>2, <2>2, <2>3 DEF Progress
<1>11. i # None
  BY <1>8, NoneAssumption
<1> QED BY <1>9, <1>10, <1>11 DEF Executes

LEMMA ApplyProgress ==
  ASSUME AcceptInv, ProgressInv, NEW r \in Request, Apply(r), ~Fail(r)
  PROVE  ProgressInv'
<1>1. PICK at \in local[r].left :
        ApplyClear(r, at) \/ (pc[r] \in {"apply", "flag"} /\ \E i, row : Executes(r, at, i, row))
  BY ApplySteps
<1>2. Progress(r)'
  BY <1>1, ClearProgress, ExecutesProgress DEF Applying
<1>3. /\ UNCHANGED db
      /\ \A s \in Request \ {r} : pc'[s] = pc[s] /\ local'[s] = local[s] /\ work'[s] = work[s]
  <2>1. CASE ApplyClear(r, at)
    BY <2>1 DEF ApplyClear, WriteRows, AcceptInv, RequestsOK, WorkOK
  <2>2. CASE \E i, row : Executes(r, at, i, row)
    <3>1. PICK i, row, l : AdvancesTo(r, at, l) /\ WriteRow(r, i, row)
      BY <2>2 DEF Executes
    <3> QED BY <3>1 DEF AdvancesTo, WriteRow, WriteRows, AcceptInv, RequestsOK, WorkOK
  <2> QED BY <1>1, <2>1, <2>2
<1>4. ASSUME NEW s \in Request \ {r}, pc'[s] \in Applying
      PROVE  Progress(s)'
  BY <1>3, <1>4, ProgressKept DEF ProgressInv
<1> QED BY <1>2, <1>4 DEF ProgressInv

LEMMA NextProgress == AcceptInv /\ ProgressInv /\ [Next]_vars => ProgressInv'
<1> SUFFICES ASSUME AcceptInv, ProgressInv, [Next]_vars
             PROVE  ProgressInv'
  OBVIOUS
<1>1. CASE UNCHANGED vars
  <2>1. \A s \in Request : pc[s] \in Applying => Progress(s)'
    BY <1>1, ProgressKept DEF vars, ProgressInv
  <2> QED BY <1>1, <2>1 DEF vars, ProgressInv
<1>2. CASE Next
  <2>1. ASSUME NEW r \in Request, CreateAIProposal(r) \/ Fail(r)
        PROVE  ProgressInv'
    <3>1. Ends(r)
      BY <2>1, StoreEnds DEF Fail, Ends
    <3> QED BY <3>1, EndsProgress
  <2> QED BY <1>2, <2>1, StepForms, MovesProgress, ApplyProgress, CommitProgress, OtherProgress
<1> QED BY <1>1, <1>2

\* In every reachable state a transaction has written what the changes it has
\* applied say, and has inserted a row for each of them that names none.
THEOREM AlwaysProgress == Spec => []ProgressInv
<1>1. Init => ProgressInv
  BY DEF Init, ProgressInv, Applying
<1> QED BY <1>1, NextProgress, AlwaysAccept, PTL DEF Spec

\* At a commit every change of the plan has been applied.
LEMMA EntirelyStep ==
  ASSUME AcceptInv, ProgressInv, [Next]_vars, NEW q \in Proposal,
         proposals[q].status = "DRAFT", proposals'[q].status = "APPLIED",
         NEW kind \in DOMAIN KindSet
  PROVE  /\ \A i \in Named(q, kind) : db'[i].life = "live" /\ db'[i].text = q
         /\ Cardinality({i \in KindSet[kind] : db[i] = NewRow /\ db'[i].text = q}) = Created(q, kind)
<1>1. PICK r \in Request : Commit(r) /\ q = local[r].proposal
  <2>1. Next /\ proposals'[q] # proposals[q]
    BY DEF vars
  <2>2. ASSUME NEW r \in Request, CreateAIProposal(r) \/ Fail(r) \/ (Apply(r) /\ ~Fail(r))
        PROVE  proposals'[q].status = "DRAFT"
    BY <2>2, StoreEnds, ApplyWrites DEF Ends, Fail
  <2>3. ASSUME NEW r \in Request, NEW point, NEW l, Moves(r, point, l)
        PROVE  UNCHANGED proposals
    BY <2>3 DEF Moves, Goto
  <2>4. ASSUME NEW rows, OtherStep(rows)
        PROVE  UNCHANGED proposals
    BY <2>4 DEF OtherStep, OtherCommit
  <2>5. PICK r \in Request : Commit(r)
    BY <2>1, <2>2, <2>3, <2>4, StepForms
  <2>6. q = local[r].proposal
    BY <2>1, <2>5 DEF Commit, AcceptInv, ProposalsOK
  <2> QED BY <2>5, <2>6
<1>2. /\ pc[r] = "commit" /\ db' = View(r) /\ local[r].left = {} /\ Progress(r)
      /\ proposals[q].plan = local[r].plan /\ proposals[q].parent = local[r].parent
  BY <1>1, ApplyingKnows DEF Commit, Applying, AcceptInv, RequestsOK, LocalOK, ProgressInv
<1>3. /\ ChangesOf(q, kind) = {at \in Applied(local[r]) : KindAt(at) = kind}
      /\ \A at : IdAt(q, at) = IdOf(local[r], at)
  BY <1>2 DEF ChangesOf, IdAt, IdOf, Applied
<1>4. ASSUME NEW i \in DOMAIN work[r]
      PROVE  i \in Id /\ db'[i] = work[r][i] /\ work[r][i].life = "live"
  BY <1>2, ViewIs DEF AcceptInv, WorkOK, Update, Insert
<1>5. ASSUME NEW i \in Named(q, kind)
      PROVE  db'[i].life = "live" /\ db'[i].text = q
  <2>1. PICK at \in Applied(local[r]) : i = IdOf(local[r], at) /\ i # None
    BY <1>3 DEF Named
  <2>2. i \in DOMAIN work[r] /\ work[r][i].text = q
    BY <1>1, <1>2, <2>1 DEF Progress
  <2> QED BY <1>4, <2>2
<1>6. {i \in KindSet[kind] : db[i] = NewRow /\ db'[i].text = q} = Inserts(r, kind)
  <2>1. \A i \in Inserts(r, kind) : db'[i].text = q
    BY <1>1, <1>4 DEF Inserts, AcceptInv, WorkOK, Update, Insert, NewRow
  <2>2. \A i \in KindSet[kind] : db[i] = NewRow /\ i \notin DOMAIN work[r] => db'[i].text # q
    <3>1. KindSet[kind] \subseteq Id
      BY DEF KindSet, Id
    <3> QED BY <1>2, <3>1, ViewIs, NoneAssumption DEF NewRow
  <2> QED BY <2>1, <2>2 DEF Inserts
<1>7. Creates(local[r], kind) = {at \in ChangesOf(q, kind) : IdAt(q, at) = None}
  BY <1>3 DEF Creates
<1>8. Cardinality(Inserts(r, kind)) = Cardinality(Creates(local[r], kind))
  BY <1>2 DEF Progress, SameNumber
<1> QED BY <1>5, <1>6, <1>7, <1>8 DEF Created

\* A proposal that becomes APPLIED has been applied to the end: every row the
\* plan names is there and says what the plan says, and as many rows of each
\* kind have been inserted as the plan has changes without an id, whatever
\* others have deleted or moved while it was applied.
THEOREM AppliesEntirely == Spec => AppliedEntirely
<1>1. ASSUME AcceptInv, ProgressInv, [Next]_vars, NEW q \in Proposal,
             proposals[q].status = "DRAFT", proposals'[q].status = "APPLIED",
             NEW k \in {<<"project", Project>>, <<"stage", Stage>>, <<"todo", Todo>>}
      PROVE  /\ \A i \in Named(q, k[1]) : db'[i].life = "live" /\ db'[i].text = q
             /\ Cardinality({i \in k[2] : db[i] = NewRow /\ db'[i].text = q}) = Created(q, k[1])
  <2>1. PICK kind : kind = k[1]
    OBVIOUS
  <2>2. kind \in DOMAIN KindSet /\ k[2] = KindSet[kind]
    BY <2>1 DEF KindSet
  <2>3. /\ \A i \in Named(q, kind) : db'[i].life = "live" /\ db'[i].text = q
        /\ Cardinality({i \in KindSet[kind] : db[i] = NewRow /\ db'[i].text = q})
             = Created(q, kind)
    BY <1>1, <2>2, EntirelyStep, Zenon
  <2> QED BY <2>1, <2>2, <2>3, Zenon
<1>2. AcceptInv /\ ProgressInv /\ [Next]_vars =>
        [\A q \in Proposal :
           proposals[q].status = "DRAFT" /\ proposals'[q].status = "APPLIED" =>
             \A k \in {<<"project", Project>>, <<"stage", Stage>>, <<"todo", Todo>>} :
               /\ \A i \in Named(q, k[1]) : db'[i].life = "live" /\ db'[i].text = q
               /\ Cardinality({i \in k[2] : db[i] = NewRow /\ db'[i].text = q})
                    = Created(q, k[1])]_vars
  BY <1>1
<1> QED BY <1>2, AlwaysAccept, AlwaysProgress, PTL DEF Spec, AppliedEntirely
=============================================================================
