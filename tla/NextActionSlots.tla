---------------------------- MODULE NextActionSlots ----------------------------
(***************************************************************************)
(* What the next action of a project is, without the table it is kept in:  *)
(* every project has one slot, which is empty or holds a todo.  A todo is  *)
(* in one slot at most, and a slot is never overwritten: the todo that is  *)
(* in it has to leave before another one gets in.                          *)
(***************************************************************************)
CONSTANTS Project, Todo, None

VARIABLE slot

Init == slot = [p \in Project |-> None]

\* A todo that is in no slot becomes the next action of p.
Give(p, t) ==
  /\ slot[p] = None
  /\ \A q \in Project : slot[q] # t
  /\ slot' = [slot EXCEPT ![p] = t]

Release(p) == slot' = [slot EXCEPT ![p] = None]

\* The next action of p moves to q and is the next action there.
Move(p, q) ==
  /\ slot[p] # None /\ slot[q] = None
  /\ slot' = [slot EXCEPT ![p] = None, ![q] = slot[p]]

Next ==
  \/ \E p \in Project, t \in Todo : Give(p, t)
  \/ \E p \in Project : Release(p)
  \/ \E p, q \in Project : Move(p, q)

Spec == Init /\ [][Next]_slot
=============================================================================
