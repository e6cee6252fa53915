------------------------------- MODULE Records -------------------------------
(***************************************************************************)
(* What the schema promises of the objects it shows, whatever the tables,  *)
(* statements and conversions below: a new object shows what it was given  *)
(* and the default of every other field, an update changes the fields it   *)
(* names and no others, an object that is deleted takes its labels along,  *)
(* and labels come and go pair by pair.                                    *)
(***************************************************************************)
EXTENDS Naturals, Functions

CONSTANTS
  Kind, Id,
  Field,     \* per kind, the fields of its objects
  Default,   \* per kind, what each of them shows when it was never given
  Given,     \* per kind, the inputs that create one
  Change,    \* per kind, the inputs that update one
  Date, Day, \* the fields that show a day, and the day of each time
  Null

VARIABLES
  shown,     \* per kind, the objects by identifier
  labelled   \* pairs of a todo and a label

Value(f, v) == IF f \in Date THEN Day[v] ELSE v
Named(input, f) == f \in DOMAIN input /\ input[f] # Null

\* A step that shows something new changes the objects of one kind.
Changes(k) == shown[k]' # shown[k] /\ \A j \in Kind \ {k} : shown[j]' = shown[j]

Create(k, id, input) ==
  /\ id \notin DOMAIN shown[k]
  /\ shown[k]' = [i \in DOMAIN shown[k] \cup {id} |->
       IF i # id THEN shown[k][i]
       ELSE [f \in Field[k] |-> IF Named(input, f) THEN Value(f, input[f]) ELSE Default[k][f]]]
  /\ UNCHANGED labelled

Update(k, id, input) ==
  /\ shown[k]' = [shown[k] EXCEPT ![id] =
       [f \in Field[k] |-> IF Named(input, f) THEN Value(f, input[f]) ELSE @[f]]]
  /\ UNCHANGED labelled

Remove(k, id) ==
  /\ shown[k]' = Restrict(shown[k], DOMAIN shown[k] \ {id})
  /\ labelled' = {p \in labelled : ~(k = "todo" /\ p[1] = id) /\ ~(k = "label" /\ p[2] = id)}

Attach(t, l) == labelled' = labelled \cup {<<t, l>>} /\ UNCHANGED shown
Detach(t, l) == labelled' = labelled \ {<<t, l>>} /\ UNCHANGED shown

Init ==
  /\ \A k \in Kind : \A id \in DOMAIN shown[k] : id \in Id
  /\ \A p \in labelled : p[1] \in DOMAIN shown["todo"] /\ p[2] \in DOMAIN shown["label"]

Next ==
  \/ \E k \in Kind :
       /\ Changes(k)
       /\ \/ \E id \in Id, input \in Given[k] : Create(k, id, input)
          \/ \E id \in DOMAIN shown[k] :
               (\E input \in Change[k] : Update(k, id, input)) \/ Remove(k, id)
  \/ \E t \in DOMAIN shown["todo"], l \in DOMAIN shown["label"] : Attach(t, l) \/ Detach(t, l)

Spec == Init /\ [][Next]_<<shown, labelled>>
=============================================================================
