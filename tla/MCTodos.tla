------------------------------- MODULE MCTodos -------------------------------
(* The mutations that the runs of module Todos let clients send.           *)
EXTENDS Todos, TLC

Mutation(op) == [NoCall EXCEPT !.op = op]

Creates(ps, ss, ns) ==
  {[Mutation("createTodo") EXCEPT !.project = p, !.status = s, !.next = n] :
     p \in ps, s \in ss, n \in ns}

Updates(ps, ss, ns) ==
  {[Mutation("updateTodo") EXCEPT !.todo = t, !.project = p, !.status = s, !.next = n] :
     t \in Todo, p \in ps, s \in ss, n \in ns}

SetNextActions(ns) ==
  {[Mutation("setTodoNextAction") EXCEPT !.todo = t, !.next = n] : t \in Todo, n \in ns}

OnTodo(op) == {[Mutation(op) EXCEPT !.todo = t] : t \in Todo}

OnDependency(op) ==
  {[Mutation(op) EXCEPT !.todo = t, !.dep = d] : t \in Todo, d \in Todo}

\* Everything that touches the next action or the project of a todo.
NextActionCalls ==
  Creates(Project \cup {None}, {Keep}, {"set", Keep})
    \cup Updates(Project \cup {None}, {Keep}, {"set", "unset", Keep})
    \cup SetNextActions({"set", "unset"})
    \cup OnTodo("deleteTodo")

\* Everything that touches the status of a todo or its dependencies.
StatusCalls ==
  Creates({None}, {Keep, "DONE"}, {Keep})
    \cup Updates({None}, {"OPEN", "DONE", Keep}, {Keep})
    \cup OnTodo("markTodoDone") \cup OnTodo("deleteTodo")
    \cup OnDependency("addTodoDependency") \cup OnDependency("removeTodoDependency")

\* No unsetting, no moving, no deleting, no completing.
HandoverCalls ==
  Creates(Project, {Keep}, {"set", Keep})
    \cup Updates({None}, {Keep}, {"set", Keep})
    \cup SetNextActions({"set"})
    \cup OnDependency("addTodoDependency") \cup OnDependency("removeTodoDependency")

RowSymmetry == Permutations(Todo) \cup Permutations(Project)
Symmetry == RowSymmetry \cup Permutations(Request)
=============================================================================
