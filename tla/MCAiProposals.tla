----------------------------- MODULE MCAiProposals -----------------------------
(* The tree and the plans that the runs of module AiProposals start from.  *)
EXTENDS AiProposals, TLC

CONSTANTS e1, p1, p2, s1, t1, t2

LiveRow(e, p, s, n) == [NewRow EXCEPT !.life = "live", !.epic = e, !.project = p,
                                      !.stage = s, !.next = n]

\* Epic e1 with projects p1 and p2; in p1 stage s1 with todo t1 and todo t2,
\* the next action, without a stage.
SmallTree ==
  [i \in Id |-> CASE i = e1 -> LiveRow(None, None, None, FALSE)
                  [] i \in {p1, p2} -> LiveRow(e1, None, None, FALSE)
                  [] i = s1 -> LiveRow(None, p1, None, FALSE)
                  [] i = t1 -> LiveRow(None, p1, s1, FALSE)
                  [] i = t2 -> LiveRow(None, p1, None, TRUE)
                  [] OTHER -> NewRow]

T(id, next) == [id |-> id, named |-> TRUE, next |-> next]
S(id, todos) == [id |-> id, named |-> TRUE, todos |-> todos]
P(id, stages) == [id |-> id, named |-> TRUE, stages |-> stages]
EpicPlan(projects) == [summary |-> TRUE, projects |-> projects, stages |-> <<>>]
ProjectPlan(stages) == [summary |-> TRUE, projects |-> <<>>, stages |-> stages]

\* Flags the existing todo; creates a stage and then renames the other;
\* creates a todo with the flag, and a stage; creates a project, and names
\* the others in the opposite order.
FlagInProject == ProjectPlan(<<S(s1, <<T(t1, "true")>>)>>)
GrowProject == ProjectPlan(<<S("", <<>>), S(s1, <<>>)>>)
GrowEpic == EpicPlan(<<P(p1, <<S(s1, <<T("", "true")>>)>>), P(p2, <<S("null", <<>>)>>)>>)
SwapEpic == EpicPlan(<<P("", <<>>), P(p2, <<>>), P(p1, <<>>)>>)
\* Names a todo that is not in the stage; forgets a name.
Foreign == ProjectPlan(<<S(s1, <<T(t2, "null")>>)>>)
Unnamed == ProjectPlan(<<[S("", <<>>) EXCEPT !.named = FALSE]>>)

SmallPlans == {FlagInProject, GrowProject, GrowEpic, SwapEpic, Foreign, Unnamed}

Other(op, id, p) == [op |-> op, id |-> id, project |-> p, stage |-> None]

\* t1 leaves p1 for p2, t2 loses the flag and gets it back, rows disappear.
SmallOthers ==
  {Other("moveTodo", t1, p2), Other("clearProject", t2, p1), Other("flagTodo", t2, None),
   Other("delete", s1, None), Other("delete", p1, None)}

Symmetry == Permutations(Request) \cup Permutations(Proposal)
=============================================================================
