------------------------------ MODULE MCServer ------------------------------
(* The accounts, users and cookies that the run of module Server starts    *)
(* from.                                                                   *)
EXTENDS Server

CONSTANTS k1, k2, b1, b2, g1, g2, g3, g4, u1, u2, u3, admin, e1, e2, e3

\* u1, signed in on b1, registered before ADMIN_EMAIL was set; u2 is approved
\* and has another address by now; g3 is new; g4 has the old address of u2.
SmallRegistered ==
  [u \in User |-> CASE u = u1 -> [subject |-> g1, email |-> admin, approved |-> FALSE]
                    [] u = u2 -> [subject |-> g2, email |-> e1, approved |-> TRUE]
                    [] u = u3 -> None]
SmallAccount ==
  [s \in Subject |-> CASE s = g1 -> admin [] s = g2 -> e2 [] s = g3 -> e3 [] s = g4 -> e1]
SmallSignedIn ==
  [b \in Browser |-> IF b = b1 THEN [key |-> k1, user |-> u1, state |-> None] ELSE None]
SmallSettings ==
  {[database |-> TRUE, secret |-> k] : k \in {k1, k2, None}} \cup {[database |-> FALSE, secret |-> None]}
=============================================================================
