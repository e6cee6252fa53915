# Formal model of todo-backend

TLA+ modules, TLC configurations and TLAPS proofs for the Go service in `src/`:
a GraphQL API over PostgreSQL that keeps epics, projects, stages and todos of
users who sign in with Google, and can apply plans proposed by an AI service.

Run everything from this directory:

    tlc -config todos_next_action.cfg MCTodos.tla    # any cfg with its MC module
    for m in *Proofs.tla; do tlapm $m; done          # ApiProofs and AiProofs take minutes

## 1. The system

Every HTTP request has its own goroutine. There is no in-process state shared
between requests: the database is the shared memory, and all concurrency is
between SQL statements and transactions. (What is shared besides is outside of the
server: the session cookie, which travels with every request and response.) Two
styles of using the database occur in `internal/graph/schema.resolvers.go`:

* most mutations run their statements one by one, each an autocommit
  transaction, so that other requests get in between and a failure leaves the
  earlier statements in effect;
* `deleteEpic`, `deleteProject`, `deleteStage` and `acceptAIProposal` run in one
  transaction at PostgreSQL's default level, READ COMMITTED.

| Component | State | Operations | What makes it correct |
|---|---|---|---|
| Todo mutations (`schema.resolvers.go:302-426`) | table `todos` | create, update, mark done, set next action, delete | references exist, completion agrees with status |
| Next action (`schema.resolvers.go:358-372`, `resolver_helpers.go:74-93`) | `todos.next_action`, partial unique index | clear the project, then set one todo | at most one per project; setting one never ends with none |
| Dependencies (`schema.resolvers.go:564-609`) | `todo_dependencies` | add (and block), remove | a dependent todo misses its mark only by a new status, a reopened dependency or a request that is cut off; a late block does not corrupt completion |
| Hierarchy and deletion (`schema.resolvers.go:43-299`) | `epics`, `projects`, `stages`, `todos` | create, move, delete keeping or dropping children | no dangling reference, all or nothing, children kept or dropped as promised, every deletion ends |
| AI proposals (`schema.resolvers.go:612-746`, `ai_helpers.go`) | table `ai_proposals` | generate, accept | applied once, entirely or not at all, only inside the parent |
| AI plan validation (`internal/ai/client.go:368-472`) | none | `ValidatePlan` | refuses ids outside the parent tree |
| AI client (`internal/ai/client.go:168-291`) | none | one HTTP call with a timeout | failure stores nothing |
| Login, session, approval (`internal/auth`) | session cookie, `users` | login, callback, logout, session middleware | only approved users and the admin pass; state is used once |
| User administration | `users.approved` | `users`, `updateUser` | admin only |
| Labels, project notes | `labels`, `todo_labels`, `project_notes` | CRUD, one statement each | unique label names, cascades |
| Views, progress, dashboard | none | read-only queries | lists and counts agree with the tables |
| Server lifecycle (`cmd/server/main.go`) | process, listener, pool | start, migrate, serve, drain, close | database closed after the last request |
| Wiring, configuration, logging, conversions, generated code, API generator | none after start | | |

`PROJECT.json` has the same list with the status of each part, and the hazards
of this code with the properties that watch them.

## 2. Modules

| Module | Role |
|---|---|
| `Todos` | todo mutations, next action, dependencies: one action per autocommit statement |
| `MCTodos` | the sets of calls and the symmetry for TLC |
| `TodosProofs` | TLAPS proofs of the invariants of `Todos`, dependencies included |
| `NextActionProofs` | TLAPS proofs about the next action across steps |
| `NextActionSlots` | abstract: one slot per project for its next action; implemented by `Todos` |
| `SlotProofs` | TLAPS proof that `Todos` implements `NextActionSlots` |
| `Hierarchy` | the tree of epics, projects, stages and todos and the deleting transactions |
| `MCHierarchy` | the calls and the symmetry for TLC |
| `HierarchyProofs` | TLAPS proofs that rows stay well formed and no reference dangles |
| `DeletionProofs` | TLAPS proofs of what a deletion does to children; extends `HierarchyProofs` |
| `AiProposals` | generating, validating and applying AI plans among the other mutations |
| `MCAiProposals` | the tree, the plans and the other mutations for TLC |
| `AiProofs` | TLAPS proofs about accepting a proposal |
| `Sessions` | login with Google, the cookie, the session middleware, approval of users |
| `Server` | the process: start, signal, drain, close, crash; extends and drives `Sessions` |
| `MCServer` | accounts, rows and cookies for TLC |
| `ServerProofs` | TLAPS proofs about `Sessions` and `Server` together |
| `Columns` | what a value passes from GraphQL input to column and back, as pure operators |
| `Views` | what the SELECT statements return; extends `Columns` |
| `Records` | abstract: what the schema promises of the objects it shows; implemented by `Api` |
| `Api` | GraphQL requests of several users, statement by statement; extends `Views` |
| `MCApi` | rows and workloads for TLC |
| `ApiProofs` | TLAPS proofs about `Columns`, `Views` and `Api`; `Api` implements `Records` |

`Todos` and `Hierarchy` look at the same tables from two sides, `AiProposals` composes
what both write with the accepting transaction, and `Api` has the remaining
operations on the same tables with all their columns, for several users.

### Todos

The table `todos` is kept by column (`project`, `status`; the Boolean columns
`nextAction` and `completed` as the sets of todos for which they hold), with
`todos` the rows that exist and `used` the ids ever given (`gen_random_uuid`
never repeats one). `deps` is `todo_dependencies`. `pc[r]`, `call[r]` and
`clearIn[r]` are the goroutine: the statement it executes next, the arguments,
and the local variable `projectForClear`.

| Action | Code |
|---|---|
| `Begin...` | a resolver up to its first statement |
| `Insert` | `CreateTodo` of sqlc; goes on to `setTodoNextAction` for `nextAction: true` |
| `GetForUpdate`, `GetForNextAction` | `GetTodo` in `UpdateTodo` and in `setTodoNextAction`: what is read decides what is cleared |
| `ClearProjectNextActions` | the UPDATE that takes the flag from the other todos of the project |
| `Update` | the UPDATE of `UpdateTodo`, its `COALESCE` and `CASE`, the foreign key on `project_id` and the unique index |
| `DeleteTodo` | DELETE, with the cascade to dependencies |
| `AddTodoDependency`, `CountIncompleteDependencies` | the INSERT, then the count that decides whether `UpdateTodo(BLOCKED)` follows |
| `RemoveTodoDependency` | DELETE |
| `DeleteProject` | the commit of `deleteProject`; which todos had been detached by then is left open (a superset of what `Hierarchy` allows) |
| `Abort` | the request, one of `Abortable`, stops before any of its statements: context cancelled, connection lost, process stopped, statement failed for another reason |

A statement is one atomic step. The only statements of this module that write
several rows are the clear and the delete; two overlapping statements lock the
rows they write, re-check their condition on a row that changed while they
waited, and the unique index makes a setter wait for an uncommitted clear, so
the outcome is one that some serial order of the statements produces. What can
go wrong inside one statement (a lock cycle between two clears) ends it with an
error, which is `Abort`.

### Hierarchy

`db` holds the committed rows, each with its references and whether it is new,
live or gone. A transaction of request `r` keeps the rows it has written in
`work[r]`; a statement sees `View(r)`, that is the rows committed by now (READ
COMMITTED) overlaid with its own writes. Rows in `work[r]` are locked: a statement
that would write one of them waits (`ExecuteStatement` is not enabled), and so
does a create or move that would refer to a row another transaction has
deleted, since the foreign key check takes a key-share lock that conflicts with a
delete and not with an update of other columns. `Commit` publishes, `Abort` drops,
`DeadlockVictim` is PostgreSQL's deadlock detector. `After` is the order of the
statements of the three resolvers; `RemoveProjects`, `RemoveStages` and
`RemoveEpic` carry out `ON DELETE CASCADE` and `ON DELETE SET NULL`. The second,
composite foreign keys of the schema (`projects_epic_user_fk`,
`todos_stage_user_fk`) have no ON DELETE action; by the time they are checked the
SET NULL of the first key has run, so they refuse nothing.

### NextActionSlots

What a client may think of: every project has a slot, empty or with one todo. A todo
is given to an empty slot, released, or moves with its flag from one project to
another; a full slot is never overwritten. `nextActionOf` in `Todos` (the query
`ListNextActionTodos`) is the refinement mapping, `ImplementsSlots` the claim.

### AiProposals

`db` and `work[r]` are as in `Hierarchy`, `proposals` is the table `ai_proposals`.
`pc[r]` is the next statement of a request, `local[r]` its variables: the snapshot
`ai.Context` while it is read project by project, the plan, the project and stage that
`applyAIPlan` is in, and which changes of the plan are left. A change has a position
`<<i, j, k>>` in the plan (project, stage, todo; `Positions`), and `Current` is the first
one left in the order of the nested loops of `applyAIPlan` (`Before`).

| Action | Code |
|---|---|
| `GenerateAIProposal`, `AcceptAIProposal` | the resolvers up to the first read of the snapshot |
| `GetParent`, `ListProjects`, `ListStages`, `ListTodos` | `aiContext`, each statement on what is committed when it runs |
| `Answer`, `NoAnswer` | `GeneratePlan`: any plan that the schema of the answer admits, valid or not; or any failure |
| `CreateAIProposal` | the draft is stored |
| `ApplyProject`, `ApplyStage`, `ApplyClear`, `ApplyTodo` | the statements of the plan, with the row locks they take, foreign keys and the unique index; a todo with `nextAction: true` is cleared for and then written in two statements (`pc[r] = "flag"` in between) |
| `MarkAIProposalApplied`, `Commit` | `UPDATE ... WHERE status = 'DRAFT'`, which waits for a concurrent mark, and the commit |
| `DeadlockVictim`, `Abort` | PostgreSQL fails one of a lock cycle; the request stops |
| `MoveTodo`, `ClearProjectNextActions`, `SetTodoNextAction`, `DeleteRow` | statements of other requests at their commit; modules `Todos` and `Hierarchy` have them in full |

`ValidatePlan` and its helpers are `internal/ai/client.go:368-472`. A plan keeps its
shape, its ids (with the blank spellings that mean "none"), whether names are given
and `nextAction`; everything else a plan says about a row is abstracted to the
proposal it came from (`text`). A row that an uncommitted insert refers to is
key-share locked (`KeyShared`): deletions wait for it.

### Sessions and Server

There is no session on the server: the cookie is the session. A request carries the
cookie its browser had when it was sent (`requests[r].session`), the handler changes
that copy, and the response replaces the browser's cookie whenever it arrives, or is
lost. `nonces` follows the state parameter of a login from `randomState` to Google and
back; a callback URL may be opened twice or in another browser. `users` are the
rows with their approval. `SessionMiddleware`, `Login`, `Callback`, `Exchange`,
`UpsertUser`, `Logout` and `UpdateUser` are the steps of `internal/auth` and of the
resolver; each may fail where the code calls something (`Refuse`). `User` bounds the rows
ever inserted by `UpsertUser`: with none left, it fails like any other insert.

`Server` is `func main`: `main` is its next statement, `listener` the goroutine of
`ListenAndServe`, `serverErr` the channel, `pool` the `*sql.DB`, `key` the secret. The
process may crash, end and be started again with another secret; rows and cookies
outlive it. Abstracted: the exit status, the verification of the ID token, and the expiry of the
cookie after 30 days (a browser without a cookie is among the initial states and the
outcome of a logout).

### Columns, Views, Api and Records

`Columns` has, for each kind of object, the chain of conversions under the names of
the code: `CreateTodoInput` (fields and GraphQL defaults, which stand for an omitted
field and not for a null), `CreateTodoParams` (resolver), `createTodo` and `updateTodo`
(SQL with its `COALESCE`), `toTodo` (row to model), `Todo` (object, null if a non-null field
is). `Views` has the SELECT statements as sets of identifiers, the dashboard and the
progress. `Api` runs them: a request is a list of root fields of one user, the fields of
a mutation one after the other and those of a query concurrently; `Refused` has the
NOT NULL columns, foreign keys with `user_id` and unique indexes. `AddTodoLabel` is two
steps, since the row lookup of an INSERT ... SELECT uses an older snapshot than its
foreign key check; the labels of a todo are read in a statement of their own after
the todo (`ReadLabels`), and a view reads them todo by todo.

`Records` says what all of this is for: a new object shows what it was given and
defaults otherwise, an update changes what it names and nothing else, deleted
objects take their labels along. `ImplementsRecords` maps the tables to the objects
they show.

Abstractions: nil, invalid `sql.Null...`, NULL and null are one value `Null`; ORDER BY is left
out and lists are sets; times are symbols with a day each (`nullTime` keeps the day of the
client's time zone), and CURRENT_DATE stands still; positions stay within 32 bits.
`nextAction: true` is not among the inputs: it makes the resolvers take the
several-statement path of module `Todos`.

### What is left out of these modules, and why

* Other users in `Todos`, `Hierarchy` and `AiProposals`: `user_id` is in the WHERE clause of
  every statement, so requests of different users share no row. `Api` has two users,
  and `OwnRowsOnly` checks it there for its operations.
* Columns that no guard and no property reads, outside of `Columns`; logging.
* The stage of a todo in `Todos` (it decides nothing there; a refused `stage_id`
  is an `Abort`) and the next action and status in `Hierarchy`.
* `updateEpic` and `updateStage` write no reference: they are in `Api`. `updateProject` in
  `Hierarchy` only moves a project to another epic.
* A client only deletes ids that the API has returned to it: `Begin` of `Hierarchy`
  asks for an id that has been given.

### Not modelled

* The read-only queries `users`, `user`, `me`, `todoDependencies`, `aiProposal`, `aiProposals` and
  `aiStatusReport`: they return rows as they are, or one call of the AI service.
* That project notes go with their project: `Api` deletes no project.
* The request to and the decoding of the answer of the AI service; the verification of ID
  tokens; introspection, directives and complexity of the generated GraphQL server; the
  WebSocket transport, CORS, playground, logging: formats and libraries.
* `cmd/apigen` (a build tool), the down migrations, the end-to-end tests.

## 3. Runs

Numbers of states are those of TLC with the bounds of the cfg.

| Run | Bounds | Checks | Shows |
|---|---|---|---|
| `todos_next_action` | 3 todos, 2 projects, 2 requests, aborts, deletable projects; 252 thousand states up to symmetry | `TypeOK`, `OneNextActionPerProject`, `NoTodoInMissingProject`, `ImplementsSlots` | two clears before two sets, moves between read and clear, deletions under way: the index holds the line and no stale project id survives |
| `todos_status` | 3 todos, 1 project, 2 requests of which one may abort; 1.95 million up to symmetry | `CompletedOnlyIfDone`, `DependentStaysBlocked` | blocking races with completing, reopening and a request that is cut off |
| `todos_sequential` | 3 todos, 2 projects, 1 request, aborts; 59 thousand | `SetterFindsProjectFree` | without overlap a legal call to set the next action is never refused by the index |
| `todos_handover` | 2 todos, 2 projects, 2 requests, no aborts; 161 thousand | `NextActionHandedOver`, `SettingLeadsToNextAction` | clear and set are two commits, yet concurrent setters never leave a project without its next action for good |
| `hierarchy_delete` | 2 epics, 2 projects, 1 stage, 1 todo, 2 transactions, aborts; 450 thousand up to symmetry | `TypeOK`, `NoDanglingReference`, `DeleteEpicKeepsChildren`, `DeleteStageKeepsChildren`, `DetachedOnlyFromDeletedParent`, `DeleteProjectDropsChildren` | children that arrive while a deletion runs |
| `hierarchy_ends` | 1 of each, 2 transactions, aborts; 50 thousand | `TransactionsEnd` | lock waits and lock cycles are resolved |
| `delete_project_keep` | 1 of each, 1 transaction | `DeleteProjectKeepsChildren`: violated | finding 1 |
| `stage_of_project` | 2 projects, 1 of the others | `StageBelongsToProject`: violated | finding 3 |
| `ai_accept` | 1 epic, 3 projects, 2 stages and 3 todos of which one each is yet to be created, 2 proposals, 6 plans, 2 requests, 5 mutations of others, aborts; 1.47 million up to symmetry | `TypeOK`, `OneNextActionPerProject`, `NoDanglingReference`, `AppliedOnce`, `AppliedEntirely` | two accepts of one draft, plans that name rows in opposite orders, rows deleted or flagged between snapshot, validation and application |
| `ai_context` | 1 proposal, 1 request | `AcceptStaysInParent`: violated | finding 2 |
| `service` | 2 browsers, 4 Google accounts, 3 rows of users, 2 logins, 2 secrets, 2 requests at a time, 3 sends, 2 starts; 1.45 million | `TypeOK`, `SessionFromOwnLogin`, `AuthorizedWithinRequest`, `DrainedBeforeClose`, `ApprovalOnlyByAdmin`, `SignalEndsProcess` | overlapping logins and logouts, callbacks opened twice or elsewhere, addresses that move between accounts, approvals withdrawn under way, restarts |
| `api` | 2 users, 2 requests at a time out of 7 workloads of 8 to 11 operations; 41 thousand | `TypeOK`, `RowsOfOneUser`, `ViewsAgree`, `CreateAccepted`, `OwnRowsOnly`, `ImplementsRecords` | every pair of operations on a kind of row, in every interleaving; every field given, omitted and null |

Why the bounds are enough: a violation of next-action uniqueness needs two todos
in a project; a stale `clearIn` needs a second project; a race needs a second
request. The third todo adds "clear takes the flag from a bystander", which two
setters alone do not show. In `Hierarchy` a deletion race needs one parent, one
late child and, for moves, a second parent; two transactions suffice for a lock
cycle, because the rows in question belong to one branch of the tree. The sets
of calls (`NextActionCalls`, `StatusCalls`, `HandoverCalls`, `AllCalls`) hold every
argument combination the properties tell apart; `IN_PROGRESS` behaves like `OPEN`
everywhere and `BLOCKED` is written through dependencies.

In `ai_accept` one epic suffices, since a plan is checked against the tree of one parent; `p2` is the
place a todo moves to, one spare row of each kind is what a plan creates, and the two
requests give two accepts of one proposal or of two. `Plans` has one plan per thing a plan
can do (flag, create, both levels of parent, opposite orders) and two invalid ones. In
`service` a session can be taken over with two browsers and two logins; three sends are a
login, its callback and one more. In `api` each field has values of its own, so that a value in a wrong
field shows; rows of different kinds meet through references only, which is why a
workload keeps to one kind, and a race needs two requests.

`HandoverCalls` leaves out taking the flag away on purpose, moving, deleting and
completing: after those a project without next action is
what the client asked for, and nothing is promised. Aborts are off there as well:
a request that stops between clear and set does leave the project without a next
action (two commits), and `NextActionHandedOver` says so by its assumption.

`DependentStaysBlocked` is checked among all calls of `StatusCalls`, so dependencies and
dependents are completed, reopened and deleted between the INSERT of a dependency, the count and the
mark. It names the three ways in which a todo may be left with an incomplete dependency and not
BLOCKED. The third, a request that is cut off (`BlockingCutOff`), looks like a count that lets its
todo go; so one request of the run may be cut off and the other may not (`Abortable`), whose
count has no such excuse. Three todos give a dependency that is
blocked in turn. A mark that the unique index refuses would need flags, which this run leaves out and
the proof includes.

Symmetry is used in runs without liveness properties only. `service` and `api` do not check
for deadlock: they stop when `MaxSends` and `MaxStarts`, or `MaxRequests`, are used up.

Fairness. `Todos!FairSpec`: weak fairness of the next statement of each request;
the Go scheduler runs every goroutine and autocommit statements hold no lock that
another waits for without end. `Hierarchy!FairSpec`: strong fairness of the
statements of a transaction, because PostgreSQL queues waiters for a row lock and
a transaction may be overtaken by creations and moves only until its turn comes;
weak fairness of the deadlock detector (`deadlock_timeout`). `Server!Spec`: weak fairness of
the main goroutine, whose wait in Shutdown ends by its timer, and of the listener once
Shutdown has closed it. No fairness is assumed of clients, or of handlers in `Server`:
`SignalEndsProcess` holds although an exchange with Google may hang for ever.

Every property has a mutant of a mapped definition (`PROJECT.json`, `mutants`;
operators named `Mutant...` in front of the definition they vary) that breaks it.

## 4. Findings

1. `deleteProject(keepChildren: true)` can delete children. The todos are detached,
   then the stages, then the project is deleted; a todo or stage created in the
   project or moved to it in between is cascaded away
   (`schema.resolvers.go:197-204`), against README.md:52. `deleteEpic` and
   `deleteStage` do not have the problem: their foreign keys are ON DELETE SET NULL.
2. Accepting a proposal can write a todo outside of the parent. The plan is validated
   against rows that are read without a lock, and the UPDATEs select on id and user
   only: a todo that another request moves away in between is changed and flagged where it
   is now (`schema.resolvers.go:719-731`), against README.md:111.
3. A todo can be in a project and in a stage of another one
   (`schema.resolvers.go:302-338`, `341-394`), against the hierarchy of
   todo-spec.md:38-54 and 116.

Without a run, since it shows in the text of the query: the inbox (`todos.sql.go:200`,
`ListInboxTodos` of `Views`) lists todos that have no project although they are in a
stage, while todo-spec.md:241 says of its items that they are not yet in a project or stage.

Behaviour that contradicts no document but is worth knowing: `createTodo` with
`nextAction: true` may return an error and leave the todo; a todo stays BLOCKED after
its last dependency is done or removed; adding a dependency to a DONE todo
reopens it as BLOCKED, and the todos that depend on it are not blocked again; dependency cycles are accepted; deleting an epic or stage with
`keepChildren: false` leaves, detached, a child that arrives after the dropping
statement; an explicit null in an update keeps the column, so that no field can be
cleared; `addTodoLabel` with an unknown label does nothing and answers the todo; a mutation
of several root fields keeps what succeeded when a later one fails and the data of the
answer is null; the response to a login that arrives after a logout restores the
cookie that the login had started from; after a change of SESSION_SECRET, login and logout
answer 500 to browsers that still have a cookie.

## 5. Proofs

Every theorem holds for all values of the constants (any number of rows, requests, users
and browsers, any set of calls, plans or workloads) that satisfy the assumptions
of the module it is about. Each assumption is named in the module that declares the
constants and says what the code fixes: `None` and `Null` are no identifiers, the kinds of rows
are disjoint, the arguments of each mutation have the types of the GraphQL schema, and the initial
rows satisfy the constraints of the database. TLC evaluates them on every run. A
theorem with a further hypothesis says so below.

| Theorem | Statement |
|---|---|
| `TodosProofs!TypeCorrect` | `Spec => []TypeOK` |
| `TodosProofs!NextActionUnique` | `Spec => []OneNextActionPerProject` |
| `TodosProofs!TodosInLiveProjects` | `Spec => []NoTodoInMissingProject` |
| `TodosProofs!CompletionMatchesStatus` | `Spec => []CompletedOnlyIfDone` |
| `TodosProofs!DependentBlocked` | `Spec => DependentStaysBlocked` |
| `NextActionProofs!SetterNeverRefused` | with at most one request, `Spec => []SetterFindsProjectFree` |
| `NextActionProofs!NextActionSurvives` | without aborts, unsetting, moving and deleting, `Spec => NextActionHandedOver` |
| `SlotProofs!TodosImplementSlots` | `Spec => ImplementsSlots`: `Todos` implements `NextActionSlots` |
| `HierarchyProofs!TypeCorrect` | `Spec => []TypeOK` |
| `HierarchyProofs!NoReferenceDangles` | `Spec => []NoDanglingReference` |
| `DeletionProofs!EpicKeepsChildren` | `Spec => DeleteEpicKeepsChildren` |
| `DeletionProofs!StageKeepsChildren` | `Spec => DeleteStageKeepsChildren` |
| `DeletionProofs!ProjectDropsChildren` | `Spec => DeleteProjectDropsChildren` |
| `DeletionProofs!DetachedWithParent` | `Spec => DetachedOnlyFromDeletedParent` |
| `AiProofs!TypeCorrect` | `Spec => []TypeOK` |
| `AiProofs!NoReferenceDangles` | `Spec => []NoDanglingReference` |
| `AiProofs!OneNextAction` | `Spec => []OneNextActionPerProject` |
| `AiProofs!AppliesOnce` | `Spec => AppliedOnce` |
| `AiProofs!AppliesEntirely` | `Spec => AppliedEntirely` |
| `ServerProofs!TypeCorrect` | `Spec => []TypeOK` |
| `ServerProofs!SignedInAsConsented` | `Spec => []SessionFromOwnLogin` |
| `ServerProofs!RequestsAuthorized` | `Spec => []AuthorizedWithinRequest` |
| `ServerProofs!ApprovalsByAdmin` | `Spec => ApprovalOnlyByAdmin` |
| `ServerProofs!NoRequestLosesDatabase` | `Spec => []DrainedBeforeClose` |
| `ApiProofs!AlwaysTyped` | `NullIsNoObject` and `NullIsNoList` imply `Spec => []TypeOK` |
| `ApiProofs!NoRowOfOthers` | `Spec => []RowsOfOneUser` |
| `ApiProofs!CreatesAccepted` | `Spec => CreateAccepted` |
| `ApiProofs!NoStepOnOthers` | `Spec => OwnRowsOnly` |
| `ApiProofs!AlwaysAgree` | `Spec => []ViewsAgree` |
| `ApiProofs!ApiImplementsRecords` | `Spec => ImplementsRecords`: `Api` implements `Records` |

### Todos and NextActionSlots

`TypeInv` is `TypeOK` with `TodoGiven`: past `insert` a request has a todo to work
on. `TypeOK` alone is not inductive, since `project[call[r].todo]` means nothing for
a call without a todo. `RowInv` is the conjunction of the three row properties and
is inductive relative to `TypeInv`: `UpdateRefused` is where the unique index and
the foreign key enter, a new row has no flag, and the clear and the deletions
only ever remove flags.

`SetterNeverRefused` (hypothesis `OneRequest`, which `todos_sequential` satisfies)
rests on `SequentialInv`: besides the property, a request at `clear` clears the
project its UPDATE will write to (or that UPDATE writes no project), because
nobody has moved the todo since it was read; deletions of projects may interfere,
and only ever turn that project into NULL. `NextActionSurvives` (hypothesis
`OnlyHandovers`, which `todos_handover` satisfies) rests on `HandoverInv`: a request
at `clear` or `update` with a project to clear still finds its todo in that
project. So the flag it sets is one of the project it cleared, and if the index
refuses it, another todo of that project has the flag: the hand-over has
happened in that case too.

`DependentBlocked` has no hypothesis: any calls, any number of overlapping requests, with
aborts or without. It rests on `MarkInv`: at the UPDATE only `updateTodo` and `markTodoDone` carry a status
other than BLOCKED, and an `addTodoDependency` carries BLOCKED and neither a project nor a flag. So each step is
explained (`StepExplained`): the INSERT of a dependency leaves a request that will block the dependent
(`WillBlock`); the count lets go only of a todo whose dependencies are all done; the mark is not
refused as long as its todo is there, because by `OneNextActionPerProject` the flag it
writes back meets no other in the index; other updates keep the status; and a deleted
todo takes the dependencies on it along. The second exception is one of the code:
once a later dependency of its own has turned a DONE todo to BLOCKED, the todos that depend on it
have an incomplete dependency and nobody blocks them.

`TodosImplementSlots` first replaces the CHOOSE in `nextActionOf`: by uniqueness a slot holds `t`
exactly when the row of `t` says so (`SlotFacts`). Three lemmas turn what a step does to the
rows into a step of the slots (`SlotsKept`, `SlotReleased`, `SlotTaken`), and one lemma per
action applies them: the clear releases a slot, the UPDATE gives one or moves a todo
between two, and finds the slot empty because the index would have refused it
otherwise; deletions release.

### Hierarchy

`NoDanglingReference` speaks of committed rows and is not inductive: what an open
transaction has written becomes the committed row in one step. `SafeInv` adds what such
transactions look like. No row is locked by two of them (`WorkOfOne`); what each has
written is the committed row less some references, or deleted (`WorkRemains`); and its
whole view is free of dangling references (`ViewsClosed`). Two views are closed
independently of each other, so the argument for `Commit` is that publishing one leaves
the other closed: a row that the one deletes and the other still refers to would
have to be locked by both, since a cascade writes every row that refers to what it
deletes. Creations and moves of other requests are closed because the foreign key
check waits for uncommitted deletes.

`DeletionInv` follows one deletion: which statements belong to the path it took
(`PathTaken`), that its row is gone when only the commit is left (`ParentGone`), that a
deletion of an epic or stage that keeps children has deleted nothing else (`OthersKept`), that a
dropping deletion of a project deletes whatever it locks in it (`ChildrenDropped`), and that a
row has lost only references to the parent or to rows the transaction deleted
(`Orphans`). The steps of the other requests leave all of this alone because the rows in
`work[r]` are locked, and the four action properties read it off at the commit.
`DeleteProjectKeepsChildren` is the one that is false (finding 1): `OthersKept` holds of the
deletion of an epic or stage, whose keys are `SET NULL`, and leaves out `deleteProject`, whose
keys cascade.

### AiProposals

`AcceptInv` says of the rows that an accepting transaction has written that each is
either an update of a committed live row that keeps its references, or an insert
(`Update`, `Insert`), with its parents live in the view of the transaction; that each carries
what its own proposal says (`text`) or what the row said before; that no row is written
by two transactions; and that of the accepts of one proposal one at most has marked it (`Marks`,
from the wait in `MarkAIProposalApplied`). `AppliesOnce` follows: a text changes in `Commit` only,
which makes the draft APPLIED. `NoReferenceDangles` needs the key-share locks:
without `KeyShared` a deletion could commit under an insert that refers to its row.

`NextInv` extends uniqueness of the next action to the views of the open transactions and
keeps them apart: two of them have not flagged todos of the same project
(`NextApart`), which is where a setter's wait for another transaction (`IndexWait`) enters.

`ProgressInv` compares the changes applied with the rows written: each applied change with an
id has reached its row, and for each kind there are as many inserted rows as applied
changes without id. The second half is counting (`SameNumber`, with the cardinality
theorems of the library). At the commit no change is left, and `AppliedEntirely`
follows.

### Sessions and Server

Cookies are copies. `Holds(b, cookie)` says that the user in a cookie of browser `b` is
one that `b` signed in as (or was initially signed in as) and that the login state in it was issued to `b`;
`Shape` says it of the session each request carries and of each answer under way, and
that a request past the check of the state was sent by the browser that began the
login. With `OneAnswer` (the state of a login is on its way to one browser) this is
inductive and gives `SignedInAsConsented`, whatever the order in which answers arrive.
`Served` relates requests, listener, pool and main goroutine and gives
`NoRequestLosesDatabase`: the pool is closed at `join` or `fail` only.

`AuthInv` relates the user the middleware put into a request to the history variable `seen`:
that user was approved, or the administrator, at some moment since the request was
sent, and counts as administrator only if the row had the administrator's address at
such a moment. `RequestsAuthorized` follows, although the approval may be withdrawn meanwhile.

### Api

`ApiInv` has four parts. `RowsOK`: every row of every table has its NOT NULL columns filled
and its enumeration columns hold values of the GraphQL schema, there are finitely many rows, and label names are unique per user. `RowsOfOneUser`
is the property itself. `IdsGiven`: an identifier that a create is still going to insert is in no
table, so no create overwrites a row. `RequestsOK`: the todos a request has read while it collects their
labels are rows of the caller, and at the second statement of `AddTodoLabel` todo and label are the
caller's, if they are still there. The last is what makes the window between row lookup and
foreign key check harmless: an identifier never comes back, so the label found is the
same one or none. `CreatesAccepted` goes through the six inserts and shows that
the chain of conversions of `Columns` fills every NOT NULL column, whatever is omitted or
null.

`AlwaysTyped` adds `AnswersOK`: every answered object comes from a row that meets its
constraints, or is a count. An answer is null for a non-null field without a value; that no
*other* object is null is, in TLA+, a statement about the value `Null`, hence the two
hypotheses that it is no record with such fields and no list of records. (`Null` is a model
value in the runs.) `NoStepOnOthers` needs both invariants: the rows that a step writes
and answers are selected by `user_id`, and the references they carry lead to rows of the same
user. `AlwaysAgree` is arithmetic on finite cardinalities: done and open todos are disjoint
and make up the list, the inbox is what no project lists, and `percent` in integer division reaches
100 exactly when `done = total > 0` (`FullPercent`).

`ApiImplementsRecords` has a lemma per kind of row and statement (`InsertedTodoShows`,
`UpdatedStageShows`, ...) that follows each field from the input through parameters and column to the
field that shows it (`ColumnOf`). Three facts about the conversions carry them: a default of the
schema and the COALESCE of the statement fill in the same value (`CoalesceInput`), a time
that is given has a day and so wins over the old column (`CoalesceTime`), and a column without COALESCE shows
null (`CoalesceNull`). For the fields no update can name (`projectId` of a stage or note) it is
the input type that keeps them. `CreateRecords`, `UpdateRecords`, `DeleteRecords` and
`LabelRecords` then turn each statement into a step of `Records` or none: an update that changes
nothing and the deletion of a row of somebody else are stutters, and that a removed label was
there at all follows from `RowsOfOneUser`. That the id of a create is new, which `Records` asks for,
is `IdsGiven`. The hypothesis on inputs is that of the runs: `nextAction: true` takes the
path of module `Todos` (`IsCall`).

### Only model-checked

Liveness (`SettingLeadsToNextAction`, `TransactionsEnd`, `SignalEndsProcess`): fairness and
ENABLED are out of the prover's reach. Every invariant, action property and refinement that a
passing run checks has a theorem. The three violated properties of section 4 are false, so there
is nothing to prove.

## 6. Plan

What is left, in order of importance:

1. Project notes and labels in `Hierarchy`, so that the cascades from projects reach them.
2. What remains true of the violated properties: a deletion of a project that keeps its children
   keeps those that were there when it detached them and stay; an accepted plan writes
   outside of its parent only what another request has moved.
