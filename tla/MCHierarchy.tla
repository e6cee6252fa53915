----------------------------- MODULE MCHierarchy -----------------------------
(* The mutations that the runs of module Hierarchy let clients send.       *)
EXTENDS Hierarchy, TLC

Mutation(op) == [NoCall EXCEPT !.op = op]

Deletes(op, ids, keeps) ==
  {[Mutation(op) EXCEPT !.id = i, !.keepChildren = k] : i \in ids, k \in keeps}

Creates ==
  {Mutation("createEpic")}
    \cup {[Mutation("createProject") EXCEPT !.epic = e] : e \in Epic \cup {None}}
    \cup {[Mutation("createStage") EXCEPT !.project = p] : p \in Project}
    \cup {[Mutation("createTodo") EXCEPT !.project = p, !.stage = s] :
            p \in Project \cup {None}, s \in Stage \cup {None}}

Moves ==
  {[Mutation("updateProject") EXCEPT !.id = p, !.epic = e] : p \in Project, e \in Epic}
    \cup {[Mutation("updateTodo") EXCEPT !.id = t, !.project = p, !.stage = s] :
            t \in Todo, p \in Project \cup {None}, s \in Stage \cup {None}}

AllDeletes(keeps) ==
  Deletes("deleteEpic", Epic, keeps) \cup Deletes("deleteProject", Project, keeps)
    \cup Deletes("deleteStage", Stage, keeps)

AllCalls ==
  Creates \cup Moves \cup AllDeletes({"true", "false", "absent"})
    \cup {[Mutation("deleteTodo") EXCEPT !.id = t] : t \in Todo}

Symmetry ==
  Permutations(Epic) \cup Permutations(Project) \cup Permutations(Stage)
    \cup Permutations(Todo) \cup Permutations(Request)
=============================================================================
