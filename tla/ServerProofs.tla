----------------------------- MODULE ServerProofs -----------------------------
(***************************************************************************)
(* Proofs about modules Sessions and Server, for every number of browsers, *)
(* accounts, requests and logins, every initial table of users and every   *)
(* setting of the process.                                                 *)
(*                                                                         *)
(* A cookie is a copy of what a handler knew, and so is the session of a   *)
(* request.  The invariant follows these copies: whatever user or state is *)
(* in a copy that belongs to a browser, that browser came by it honestly.  *)
(***************************************************************************)
EXTENDS Server, TLAPS

\* Browser b may hold a cookie of user u.
Own(b, u) ==
  \/ SignedIn[b] # None /\ u = SignedIn[b].user
  \/ \E n \in Nonce : nonces[n].browser = b /\ nonces[n].subject = users[u].subject

Holds(b, cookie) ==
  cookie # None =>
    /\ cookie.state # None => nonces[cookie.state].browser = b
    /\ cookie.user # None => users[cookie.user] # None /\ Own(b, cookie.user)

\* What a request has got hold of by now.
Shape(q) ==
  /\ q.at # "idle" => q.browser \in Browser
  /\ q.at \in {"exchange", "upsert"} =>
       /\ q.kind = "callback" /\ q.session # None
       /\ nonces[q.nonce].browser = q.browser
  /\ q.kind = "callback" /\ Active(q) =>
       q.nonce \in Nonce /\ nonces[q.nonce].at \in {"consented", "used"}
  /\ q.at = "upsert" => q.email # None
  /\ q.at = "answered" =>
       /\ q.nonce # None => nonces[q.nonce].at = "issued"
       /\ Holds(q.browser, q.set)
  /\ Active(q) => Holds(q.browser, q.session)

\* The state of a login is on its way to one browser at most.
OneAnswer ==
  \A r, s \in Request :
    /\ r # s /\ requests[r].at = "answered" /\ requests[s].at = "answered"
    /\ requests[r].nonce = requests[s].nonce
    => requests[r].nonce = None

NonceOK(n) ==
  /\ nonces[n].at = "new" => nonces[n] = NewNonce
  /\ nonces[n].at # "new" => nonces[n].browser \in Browser
  /\ nonces[n].at \in {"consented", "used"} <=> nonces[n].subject # None

DataTyped ==
  /\ users \in [User -> Row \cup {None}] /\ Unique(users)
  /\ nonces \in [Nonce -> NonceRow]
  /\ cookies \in [Browser -> Session \cup {None}]
  /\ requests \in [Request -> RequestRow]

DataInv ==
  /\ DataTyped
  /\ \A n \in Nonce : NonceOK(n)
  /\ \A b \in Browser : Holds(b, cookies[b])
  /\ \A r \in Request : Shape(requests[r])
  /\ OneAnswer

\* Requests are served by a process that listens, with a secret if there is a
\* database.
Served ==
  /\ \A r \in Request : Active(requests[r]) => listener \in {"listening", "done"}
  /\ listener # "none" => main \notin {"down", "config", "secret"} /\ (pool # "none" => key # None)
  /\ pool = "closed" => main \in {"join", "fail"}

SeenTyped == seen \in [Request -> [allowed : SUBSET User, admin : SUBSET User]]

ProcessTyped ==
  /\ pool \in {"none", "open", "closed"} /\ key \in Secret \cup {None}
  /\ main \in Process \cup {"down"}
  /\ listener \in {"none", "starting", "listening", "done"}
  /\ serverErr \in {"empty", "nil", "err"} /\ signalled \in BOOLEAN
  /\ starts \in 0..MaxStarts /\ sends \in 0..MaxSends

ServerInv == DataInv /\ SeenTyped /\ ProcessTyped /\ Served

-----------------------------------------------------------------------------
(* What one step leaves of rows and nonces.                                *)

LEMMA FreshIn ==
  ASSUME NEW S, S # {}
  PROVE  Fresh(S) \in S
BY DEF Fresh

\* No row and no login is forgotten, and none changes hands.
Kept ==
  /\ \A u \in User : users[u] # None =>
       users'[u] # None /\ users'[u].subject = users[u].subject
  /\ \A n \in Nonce : nonces[n].at # "new" =>
       /\ nonces'[n].browser = nonces[n].browser
       /\ nonces[n].at \in {"consented", "used"} =>
            nonces'[n].at \in {"consented", "used"} /\ nonces'[n].subject = nonces[n].subject

LEMMA UnchangedKept ==
  ASSUME UNCHANGED <<users, nonces>>
  PROVE  Kept
BY DEF Kept

LEMMA HoldsKept ==
  ASSUME DataInv, Kept, NEW b \in Browser, NEW c \in Session \cup {None}, Holds(b, c)
  PROVE  Holds(b, c)'
<1>1. \A n \in Nonce : nonces[n].browser \in Browser => nonces'[n].browser = nonces[n].browser
  BY SessionNoneAssumption DEF DataInv, NonceOK, NewNonce, Kept
<1>2. SUFFICES ASSUME c # None
               PROVE  /\ c.state # None => nonces'[c.state].browser = b
                      /\ c.user # None => users'[c.user] # None /\ Own(b, c.user)'
  BY DEF Holds
<1>3. c.state # None => nonces'[c.state].browser = b
  BY <1>1, <1>2 DEF Holds, Session
<1>4. ASSUME c.user # None
      PROVE  users'[c.user] # None /\ Own(b, c.user)'
  <2>1. c.user \in User /\ users[c.user] # None /\ Own(b, c.user)
    BY <1>2, <1>4 DEF Holds, Session
  <2>2. users'[c.user] # None /\ users'[c.user].subject = users[c.user].subject
    BY <2>1 DEF Kept
  <2>3. CASE SignedIn[b] # None /\ c.user = SignedIn[b].user
    BY <2>2, <2>3 DEF Own
  <2>4. CASE \E n \in Nonce : nonces[n].browser = b /\ nonces[n].subject = users[c.user].subject
    <3>1. PICK n \in Nonce : nonces[n].browser = b /\ nonces[n].subject = users[c.user].subject
      BY <2>4
    <3>2. nonces[n].subject # None
      BY <2>1, <3>1, SessionNoneAssumption DEF DataInv, DataTyped, Row
    <3>3. nonces'[n].browser = b /\ nonces'[n].subject = nonces[n].subject
      BY <1>1, <3>1, <3>2, SessionNoneAssumption DEF DataInv, NonceOK, NewNonce, Kept
    <3> QED BY <2>2, <3>1, <3>3 DEF Own
  <2> QED BY <2>1, <2>2, <2>3, <2>4 DEF Own
<1> QED BY <1>3, <1>4

\* What a request has got hold of stays with it.
LEMMA ShapeKept ==
  ASSUME DataInv, Kept, NEW q \in RequestRow, Shape(q),
         q.at = "answered" /\ q.nonce # None => nonces'[q.nonce].at = "issued"
  PROVE  Shape(q)'
<1>1. q.at # "idle" => q.browser \in Browser /\ q.session \in Session \cup {None}
                       /\ q.set \in Session \cup {None} /\ q.nonce \in Nonce \cup {None}
  BY DEF Shape, RequestRow
<1>2. q.at = "answered" => Holds(q.browser, q.set)'
  BY <1>1, HoldsKept DEF Shape
<1>3. Active(q) => Holds(q.browser, q.session)'
  BY <1>1, HoldsKept DEF Shape, Active
<1>4. q.kind = "callback" /\ Active(q) =>
        /\ nonces'[q.nonce].at \in {"consented", "used"}
        /\ nonces'[q.nonce].browser = nonces[q.nonce].browser
  BY DEF Shape, Kept
<1>5. q.at \in {"exchange", "upsert"} => Active(q)
  BY DEF Active
<1> QED BY <1>2, <1>3, <1>4, <1>5 DEF Shape

LEMMA CookiesKept ==
  ASSUME DataInv, Kept, UNCHANGED cookies
  PROVE  \A b \in Browser : Holds(b, cookies[b])'
<1> SUFFICES ASSUME NEW b \in Browser PROVE Holds(b, cookies[b])'
  OBVIOUS
<1>1. PICK c : c = cookies[b]
  OBVIOUS
<1>2. c \in Session \cup {None} /\ Holds(b, c) /\ cookies'[b] = c
  BY <1>1 DEF DataInv, DataTyped
<1> QED BY <1>2, HoldsKept

\* A step changes what is known of one request.
LEMMA OneRequest ==
  ASSUME DataInv, Kept, NEW r \in Request, NEW x \in RequestRow,
         requests' = [requests EXCEPT ![r] = x], Shape(x)',
         \A s \in Request \ {r} :
           requests[s].at = "answered" /\ requests[s].nonce # None =>
             /\ nonces'[requests[s].nonce].at = "issued"
             /\ x.at = "answered" => x.nonce # requests[s].nonce
  PROVE  /\ requests' \in [Request -> RequestRow]
         /\ \A s \in Request : Shape(requests[s])'
         /\ OneAnswer'
<1>1. requests \in [Request -> RequestRow]
  BY DEF DataInv, DataTyped
<1>2. requests'[r] = x /\ \A s \in Request \ {r} : requests'[s] = requests[s]
  BY <1>1
<1>3. requests' \in [Request -> RequestRow]
  BY <1>1
<1>4. ASSUME NEW s \in Request \ {r}
      PROVE  Shape(requests[s])'
  <2>1. PICK q : q = requests[s]
    OBVIOUS
  <2>2. q \in RequestRow /\ Shape(q) /\ requests'[s] = q
    BY <1>1, <1>2, <2>1 DEF DataInv
  <2>3. Shape(q)'
    BY <2>1, <2>2, ShapeKept
  <2> QED BY <2>2, <2>3
<1>5. Shape(requests[r])'
  BY <1>2
<1>6. OneAnswer'
  <2>1. \A s \in Request \ {r} :
          requests'[s].at = "answered" /\ requests'[r].at = "answered"
            => requests'[s].nonce = None \/ requests'[s].nonce # requests'[r].nonce
    BY <1>2
  <2> QED BY <1>2, <2>1 DEF DataInv, OneAnswer
<1> QED BY <1>3, <1>4, <1>5, <1>6

LEMMA IdleOK == IdleRequest \in RequestRow /\ IdleRequest.at = "idle" /\ ~Active(IdleRequest)
BY DEF IdleRequest, RequestRow, Kind, Active

\* A step of one request that leaves the browsers alone.
LEMMA ChangeData ==
  ASSUME DataInv, Kept, NEW r \in Request, NEW x \in RequestRow,
         requests' = [requests EXCEPT ![r] = x], Shape(x)', UNCHANGED cookies,
         users' \in [User -> Row \cup {None}], Unique(users'),
         nonces' \in [Nonce -> NonceRow], \A n \in Nonce : NonceOK(n)',
         \A s \in Request \ {r} :
           requests[s].at = "answered" /\ requests[s].nonce # None =>
             /\ nonces'[requests[s].nonce].at = "issued"
             /\ x.at = "answered" => x.nonce # requests[s].nonce
  PROVE  DataInv'
<1>1. /\ requests' \in [Request -> RequestRow]
      /\ \A s \in Request : Shape(requests[s])'
      /\ OneAnswer'
  BY OneRequest
<1> QED BY <1>1, CookiesKept DEF DataInv, DataTyped

\* Most of them leave the logins alone as well.
LEMMA SameNonces ==
  ASSUME DataInv, UNCHANGED nonces
  PROVE  /\ nonces' \in [Nonce -> NonceRow] /\ \A n \in Nonce : NonceOK(n)'
         /\ \A s \in Request : requests[s].at = "answered" /\ requests[s].nonce # None
              => nonces'[requests[s].nonce].at = "issued"
BY DEF DataInv, DataTyped, NonceOK, Shape

LEMMA ChangeRequest ==
  ASSUME DataInv, NEW r \in Request, NEW x \in RequestRow,
         requests' = [requests EXCEPT ![r] = x], Shape(x)', UNCHANGED <<users, nonces, cookies>>,
         x.at = "answered" => x.nonce = None
  PROVE  DataInv'
<1>1. Kept
  BY UnchangedKept
<1>2. users' \in [User -> Row \cup {None}] /\ Unique(users')
  BY DEF DataInv, DataTyped
<1>3. /\ nonces' \in [Nonce -> NonceRow] /\ \A n \in Nonce : NonceOK(n)'
      /\ \A s \in Request : requests[s].at = "answered" /\ requests[s].nonce # None
           => nonces'[requests[s].nonce].at = "issued"
  BY SameNonces
<1>4. \A s \in Request \ {r} :
        requests[s].at = "answered" /\ requests[s].nonce # None =>
          /\ nonces'[requests[s].nonce].at = "issued"
          /\ x.at = "answered" => x.nonce # requests[s].nonce
  BY <1>3
<1> QED BY <1>1, <1>2, <1>3, <1>4, ChangeData, Zenon

LEMMA DoneData ==
  ASSUME DataInv, NEW r \in Request, Done(r), UNCHANGED <<nonces, cookies>>,
         users' \in [User -> Row \cup {None}], Unique(users'), Kept
  PROVE  DataInv'
<1>1. PICK x : x = IdleRequest
  OBVIOUS
<1>2. x \in RequestRow /\ x.at = "idle" /\ requests' = [requests EXCEPT ![r] = x]
  BY <1>1, IdleOK DEF Done
<1>3. Shape(x)'
  BY <1>2 DEF Shape, Active
<1> QED BY <1>2, <1>3, ChangeData, SameNonces

LEMMA RefuseData ==
  ASSUME DataInv, NEW r \in Request, Refuse(r), UNCHANGED cookies
  PROVE  DataInv'
BY DoneData, UnchangedKept DEF Refuse, DataInv, DataTyped

-----------------------------------------------------------------------------
(* One lemma per action of module Sessions.                                *)

LEMMA SendData ==
  ASSUME DataInv, NEW r \in Request, NEW b \in Browser, NEW kind \in Kind,
         NEW n \in Nonce \cup {None}, Send(r, b, kind, n)
  PROVE  DataInv'
<1>1. PICK x : x = [IdleRequest EXCEPT
                      !.at = IF kind = "graphql" THEN "session" ELSE "handler",
                      !.kind = kind, !.browser = b, !.session = cookies[b], !.nonce = n]
  OBVIOUS
<1>2. x \in RequestRow
  BY <1>1 DEF IdleRequest, RequestRow, DataInv, DataTyped
<1>3. /\ x.at \in {"session", "handler"} /\ x.kind = kind /\ x.browser = b
      /\ x.session = cookies[b] /\ x.nonce = n
  BY <1>1 DEF IdleRequest
<1>4. kind = "callback" => n \in Nonce /\ nonces[n].at \in {"consented", "used"}
  BY DEF Send
<1>5. requests' = [requests EXCEPT ![r] = x] /\ UNCHANGED <<users, nonces, cookies>>
  BY <1>1 DEF Send
<1>6. x.session \in Session \cup {None} /\ Holds(b, x.session)
  BY <1>3 DEF DataInv, DataTyped
<1>7. Holds(b, x.session)'
  BY <1>5, <1>6, HoldsKept, UnchangedKept
<1>8. Shape(x)'
  BY <1>3, <1>4, <1>5, <1>7 DEF Shape
<1>9. x.at # "answered"
  BY <1>3
<1> QED BY <1>2, <1>5, <1>8, <1>9, ChangeRequest

LEMMA LoseData ==
  ASSUME DataInv, NEW r \in Request, Lose(r)
  PROVE  DataInv'
BY RefuseData DEF Lose, Refuse

\* The cookie that arrives is one that its browser may hold, and nobody else
\* waits for the same login.
LEMMA ReceiveData ==
  ASSUME DataInv, NEW r \in Request, Receive(r)
  PROVE  DataInv'
<1>1. PICK q : q = requests[r]
  OBVIOUS
<1>2. /\ q \in RequestRow /\ q.at = "answered" /\ q.browser \in Browser
      /\ q.set \in Session \cup {None} /\ Holds(q.browser, q.set)
      /\ q.nonce \in Nonce \cup {None}
      /\ q.nonce # None => nonces[q.nonce].at = "issued"
  BY <1>1 DEF DataInv, DataTyped, Receive, Shape, RequestRow
<1>3. /\ cookies' = [cookies EXCEPT ![q.browser] = q.set]
      /\ nonces' = IF q.nonce = None THEN nonces ELSE [nonces EXCEPT ![q.nonce].at = "known"]
      /\ Done(r) /\ UNCHANGED users
  BY <1>1 DEF Receive
<1>4. ASSUME NEW n \in Nonce
      PROVE  /\ nonces'[n] \in NonceRow
             /\ \/ nonces'[n] = nonces[n]
                \/ n = q.nonce /\ nonces'[n] = [nonces[n] EXCEPT !.at = "known"]
  BY <1>2, <1>3 DEF DataInv, DataTyped, NonceRow
<1>5. nonces' \in [Nonce -> NonceRow]
  BY <1>2, <1>3 DEF DataInv, DataTyped, NonceRow
<1>6. ASSUME NEW n \in Nonce
      PROVE  /\ NonceOK(n)'
             /\ nonces[n].at # "new" => nonces'[n].browser = nonces[n].browser
             /\ nonces[n].at \in {"consented", "used"} => nonces'[n] = nonces[n]
  <2>1. nonces[n] \in NonceRow /\ NonceOK(n)
    BY DEF DataInv, DataTyped
  <2>2. CASE nonces'[n] = nonces[n]
    BY <2>1, <2>2 DEF NonceOK
  <2>3. CASE nonces'[n] # nonces[n]
    <3>1. nonces[n].at = "issued" /\ nonces'[n] = [nonces[n] EXCEPT !.at = "known"]
      BY <1>2, <1>4, <2>3, SessionNoneAssumption
    <3> QED BY <2>1, <3>1 DEF NonceOK, NonceRow
  <2> QED BY <2>2, <2>3
<1>7. Kept
  BY <1>3, <1>6 DEF Kept
<1>8. \A s \in Request \ {r} :
        requests[s].at = "answered" /\ requests[s].nonce # None
          => nonces'[requests[s].nonce].at = "issued"
  <2>1. SUFFICES ASSUME NEW s \in Request \ {r}, requests[s].at = "answered", requests[s].nonce # None
                 PROVE  nonces'[requests[s].nonce].at = "issued"
    OBVIOUS
  <2>2. requests[s].nonce # q.nonce
    BY <1>1, <1>2, <2>1 DEF DataInv, OneAnswer
  <2>3. requests[s].nonce \in Nonce /\ nonces[requests[s].nonce].at = "issued"
    BY <2>1 DEF DataInv, DataTyped, RequestRow, Shape
  <2> QED BY <1>4, <2>2, <2>3
<1>9. /\ requests' \in [Request -> RequestRow]
      /\ \A s \in Request : Shape(requests[s])'
      /\ OneAnswer'
  <2>1. PICK x : x = IdleRequest
    OBVIOUS
  <2>2. x \in RequestRow /\ x.at = "idle" /\ requests' = [requests EXCEPT ![r] = x]
    BY <1>3, <2>1, IdleOK DEF Done
  <2>3. Shape(x)'
    BY <2>2 DEF Shape, Active
  <2> QED BY <1>7, <1>8, <2>2, <2>3, OneRequest
<1>10. ASSUME NEW b \in Browser
       PROVE  Holds(b, cookies[b])'
  <2>1. PICK c : c = IF b = q.browser THEN q.set ELSE cookies[b]
    OBVIOUS
  <2>2. c \in Session \cup {None} /\ Holds(b, c) /\ cookies'[b] = c
    BY <1>2, <1>3, <2>1 DEF DataInv, DataTyped
  <2> QED BY <1>7, <2>2, HoldsKept
<1>11. cookies' \in [Browser -> Session \cup {None}]
  BY <1>2, <1>3 DEF DataInv, DataTyped
<1> QED BY <1>3, <1>5, <1>6, <1>9, <1>10, <1>11 DEF DataInv, DataTyped

LEMMA ConsentData ==
  ASSUME DataInv, NEW n \in Nonce, NEW s \in Subject, Consent(n, s)
  PROVE  DataInv'
<1>1. /\ nonces[n].at = "known" /\ UNCHANGED <<users, cookies, requests>>
      /\ nonces' = [nonces EXCEPT ![n] = [nonces[n] EXCEPT !.at = "consented", !.subject = s]]
  BY DEF Consent, DataInv, DataTyped, NonceRow
<1>2. nonces[n] \in NonceRow /\ s # None
  BY SessionNoneAssumption DEF DataInv, DataTyped
<1>3. /\ nonces'[n] \in NonceRow /\ nonces'[n].at = "consented" /\ nonces'[n].subject = s
      /\ nonces'[n].browser = nonces[n].browser
      /\ \A m \in Nonce \ {n} : nonces'[m] = nonces[m]
  BY <1>1, <1>2 DEF DataInv, DataTyped, NonceRow
<1>4. nonces' \in [Nonce -> NonceRow]
  BY <1>1, <1>3 DEF DataInv, DataTyped
<1>5. Kept
  BY <1>1, <1>3 DEF Kept
<1>6. \A m \in Nonce : NonceOK(m)'
  BY <1>1, <1>2, <1>3 DEF DataInv, NonceOK
<1>7. \A r \in Request : requests[r].at = "answered" /\ requests[r].nonce # None
        => nonces'[requests[r].nonce].at = "issued"
  BY <1>1, <1>3 DEF DataInv, DataTyped, RequestRow, Shape
<1>8. ASSUME NEW r \in Request PROVE Shape(requests[r])'
  <2>1. PICK q : q = requests[r]
    OBVIOUS
  <2>2. q \in RequestRow /\ Shape(q) /\ requests'[r] = q
    BY <1>1, <2>1 DEF DataInv, DataTyped
  <2>3. Shape(q)'
    BY <1>5, <1>7, <2>1, <2>2, ShapeKept
  <2> QED BY <2>2, <2>3
<1> QED BY <1>1, <1>4, <1>5, <1>6, <1>8, CookiesKept DEF DataInv, DataTyped, OneAnswer

\* The user in the context of a request is one of the table.
LEMMA SessionUserIn ==
  ASSUME DataInv, NEW session \in Session \cup {None}
  PROVE  /\ SessionUser(session) \in [id : User, email : Email] \cup {None}
         /\ SessionUser(session) # None =>
              /\ SessionUser(session).id \in Allowed(users)
              /\ IsAdmin(SessionUser(session).email) => SessionUser(session).id \in Admins(users)
<1>1. ASSUME session.user \in Allowed(users)
      PROVE  session.user \in Rows(users) /\ users[session.user].email \in Email
  <2>1. session.user \in Rows(users) /\ session.user \in User
    BY <1>1 DEF Allowed, Admins, Rows
  <2>2. users[session.user] \in Row
    BY <2>1 DEF DataInv, DataTyped, Rows
  <2> QED BY <2>1, <2>2 DEF Row
<1> QED BY <1>1 DEF SessionUser, Rows, Admins

LEMMA MiddlewareData ==
  ASSUME DataInv, NEW r \in Request, SessionMiddleware(r)
  PROVE  DataInv'
<1>1. PICK user \in {SessionUser(requests[r].session), None} :
        requests' = [requests EXCEPT ![r] = [requests[r] EXCEPT !.at = "handler", !.user = user]]
  <2>1. requests[r] \in RequestRow
    BY DEF DataInv, DataTyped
  <2> QED BY <2>1 DEF SessionMiddleware, RequestRow, DataInv, DataTyped
<1>2. PICK x : x = [requests[r] EXCEPT !.at = "handler", !.user = user]
  OBVIOUS
<1>3. PICK q : q = requests[r]
  OBVIOUS
<1>4. q \in RequestRow /\ Shape(q) /\ q.at = "session" /\ Active(q)
  BY <1>3 DEF DataInv, DataTyped, SessionMiddleware, Active
<1>5. user \in [id : User, email : Email] \cup {None}
  <2>1. q.session \in Session \cup {None}
    BY <1>4 DEF RequestRow
  <2> QED BY <1>1, <1>3, <2>1, SessionUserIn
<1>6. /\ x \in RequestRow /\ x.at = "handler" /\ x.kind = q.kind /\ x.browser = q.browser
      /\ x.session = q.session /\ x.nonce = q.nonce
  BY <1>2, <1>3, <1>4, <1>5 DEF RequestRow
<1>7. UNCHANGED <<users, nonces, cookies>>
  BY DEF SessionMiddleware
<1>8. Shape(q)'
  BY <1>4, <1>7, ShapeKept, UnchangedKept
<1>9. Shape(x)'
  BY <1>4, <1>6, <1>8 DEF Shape, Active
<1> QED BY <1>1, <1>2, <1>6, <1>7, <1>9, ChangeRequest

\* A fresh state is written to the cookie of the browser that asked for it.
LEMMA LoginData ==
  ASSUME DataInv, NEW r \in Request, Login(r), pool # "none" => key \in Secret
  PROVE  DataInv'
<1>1. CASE Refuse(r)
  BY <1>1, RefuseData DEF Login
<1>2. CASE ~Refuse(r)
  <2>1. PICK q : q = requests[r]
    OBVIOUS
  <2>2. PICK n : n = Fresh({m \in Nonce : nonces[m].at = "new"})
    OBVIOUS
  <2>3. PICK set : set = [Opened(q.session) EXCEPT !.state = n]
    OBVIOUS
  <2>4. /\ q \in RequestRow /\ Shape(q) /\ q.at = "handler" /\ q.kind = "login" /\ Active(q)
        /\ q.browser \in Browser /\ q.session \in Session \cup {None} /\ Holds(q.browser, q.session)
    BY <2>1 DEF DataInv, DataTyped, Login, Active, Shape, RequestRow
  <2>5. /\ n \in Nonce /\ nonces[n].at = "new" /\ pool # "none"
        /\ Answer(r, set) /\ UNCHANGED <<users, cookies>>
        /\ nonces' = [nonces EXCEPT ![n].at = "issued", ![n].browser = q.browser]
    BY <1>2, <2>1, <2>2, <2>3, FreshIn DEF Login
  <2>6. set \in Session /\ set.state = n /\ set.user = Opened(q.session).user
    BY <2>3, <2>4, <2>5 DEF Opened, Session
  <2>7. /\ nonces' \in [Nonce -> NonceRow]
        /\ nonces'[n].at = "issued" /\ nonces'[n].browser = q.browser /\ nonces'[n].subject = None
        /\ \A m \in Nonce \ {n} : nonces'[m] = nonces[m]
    BY <2>4, <2>5 DEF DataInv, DataTyped, NonceRow, NonceOK, NewNonce
  <2>8. \A m \in Nonce : NonceOK(m)'
    BY <2>4, <2>7 DEF DataInv, NonceOK
  <2>9. Kept
    BY <2>5, <2>7 DEF Kept
  <2>10. PICK x : x = [IdleRequest EXCEPT !.at = "answered", !.browser = q.browser,
                                          !.set = set, !.nonce = n]
    OBVIOUS
  <2>11. /\ x.at = "answered" /\ x.browser = q.browser /\ x.set = set /\ x.nonce = n
         /\ x.kind = "graphql" /\ x.session = None
    BY <2>10 DEF IdleRequest
  <2>12. x \in RequestRow /\ requests' = [requests EXCEPT ![r] = x]
    <3>1. x \in RequestRow
      BY <2>4, <2>5, <2>6, <2>10 DEF IdleRequest, RequestRow, Kind
    <3> QED BY <2>1, <2>4, <2>5, <2>6, <2>10, <3>1 DEF Answer
  <2>13. Holds(q.browser, set)'
    <3>1. nonces'[set.state].browser = q.browser
      BY <2>6, <2>7
    <3>2. CASE q.session = None
      <4>1. set.user = None
        BY <2>6, <3>2 DEF Opened
      <4> QED BY <3>1, <4>1 DEF Holds
    <3>3. CASE q.session # None
      <4>1. set.user = q.session.user
        BY <2>6, <3>3 DEF Opened
      <4>2. Holds(q.browser, q.session)'
        BY <2>4, <2>9, HoldsKept
      <4> QED BY <3>1, <3>3, <4>1, <4>2 DEF Holds
    <3> QED BY <3>2, <3>3
  <2>14. Shape(x)'
    BY <2>4, <2>7, <2>11, <2>13 DEF Shape, Active
  <2>15. \A s \in Request : requests[s].at = "answered" /\ requests[s].nonce # None =>
           /\ nonces'[requests[s].nonce].at = "issued" /\ requests[s].nonce # n
    BY <2>5, <2>7 DEF DataInv, DataTyped, RequestRow, Shape
  <2>16. users' \in [User -> Row \cup {None}] /\ Unique(users')
    BY <2>5 DEF DataInv, DataTyped
  <2>17. UNCHANGED cookies
    BY <2>5
  <2>18. \A s \in Request \ {r} :
           requests[s].at = "answered" /\ requests[s].nonce # None =>
             /\ nonces'[requests[s].nonce].at = "issued"
             /\ x.at = "answered" => x.nonce # requests[s].nonce
    BY <2>11, <2>15
  <2> QED BY <2>7, <2>8, <2>9, <2>12, <2>14, <2>16, <2>17, <2>18, ChangeData, Zenon
<1> QED BY <1>1, <1>2

\* The state of the cookie was issued to this browser, so the state of the
\* URL was.
LEMMA CallbackData ==
  ASSUME DataInv, NEW r \in Request, Callback(r)
  PROVE  DataInv'
<1>1. CASE Refuse(r)
  BY <1>1, RefuseData DEF Callback
<1>2. CASE ~Refuse(r)
  <2>1. PICK q : q = requests[r]
    OBVIOUS
  <2>2. /\ q \in RequestRow /\ Shape(q) /\ q.at = "handler" /\ q.kind = "callback" /\ Active(q)
        /\ q.browser \in Browser /\ q.session \in Session \cup {None} /\ Holds(q.browser, q.session)
    BY <2>1 DEF DataInv, DataTyped, Callback, Active, Shape, RequestRow
  <2>3. /\ StateMatches(q) /\ UNCHANGED <<users, nonces, cookies>>
        /\ requests' = [requests EXCEPT ![r].at = "exchange", ![r].session.state = None]
    BY <1>2, <2>1 DEF Callback
  <2>4. q.session \in Session /\ q.session.state = q.nonce /\ q.nonce # None
    BY <2>2, <2>3 DEF StateMatches, Opened
  <2>5. PICK c : c = [q.session EXCEPT !.state = None]
    OBVIOUS
  <2>6. c \in Session /\ c.state = None /\ c.user = q.session.user /\ c # None
    BY <2>4, <2>5, SessionNoneAssumption DEF Session
  <2>7. PICK x : x = [q EXCEPT !.at = "exchange", !.session = c]
    OBVIOUS
  <2>8. /\ x \in RequestRow /\ x.at = "exchange" /\ x.session = c /\ x.browser = q.browser
        /\ x.kind = "callback" /\ x.nonce = q.nonce
    BY <2>2, <2>6, <2>7 DEF RequestRow
  <2>9. requests' = [requests EXCEPT ![r] = x]
    BY <2>1, <2>2, <2>3, <2>4, <2>5, <2>7 DEF RequestRow, Session, DataInv, DataTyped
  <2>10. Holds(q.browser, c)'
    <3>1. q.session # None
      BY <2>4, SessionNoneAssumption
    <3> QED BY <2>2, <2>3, <2>6, <3>1 DEF Holds, Own
  <2>11. nonces[q.nonce].browser = q.browser
    <3>1. q.session # None
      BY <2>4, SessionNoneAssumption
    <3> QED BY <2>2, <2>4, <3>1 DEF Holds
  <2>12. Shape(x)'
    BY <2>2, <2>3, <2>6, <2>8, <2>10, <2>11 DEF Shape
  <2> QED BY <2>3, <2>8, <2>9, <2>12, ChangeRequest
<1> QED BY <1>1, <1>2

LEMMA ExchangeData ==
  ASSUME DataInv, NEW r \in Request, Exchange(r)
  PROVE  DataInv'
<1>1. CASE Refuse(r)
  BY <1>1, RefuseData DEF Exchange
<1>2. CASE ~Refuse(r)
  <2>1. PICK q : q = requests[r]
    OBVIOUS
  <2>2. /\ q \in RequestRow /\ Shape(q) /\ q.at = "exchange" /\ Active(q)
        /\ q.nonce \in Nonce /\ q.browser \in Browser
    BY <2>1 DEF DataInv, DataTyped, Exchange, Active, Shape, RequestRow
  <2>3. PICK n \in Nonce : n = q.nonce
    BY <2>2
  <2>4. /\ nonces[n].at = "consented" /\ UNCHANGED <<users, cookies>>
        /\ nonces' = [nonces EXCEPT ![n].at = "used"]
        /\ requests' = [requests EXCEPT ![r].at = "upsert", ![r].email = Account[nonces[n].subject]]
    BY <1>2, <2>1, <2>3 DEF Exchange
  <2>5. nonces[n] \in NonceRow /\ nonces[n].subject \in Subject /\ NonceOK(n)
    BY <2>4 DEF DataInv, DataTyped, NonceOK, NonceRow
  <2>6. /\ nonces' \in [Nonce -> NonceRow]
        /\ nonces'[n].at = "used" /\ nonces'[n].browser = nonces[n].browser
        /\ nonces'[n].subject = nonces[n].subject
        /\ \A m \in Nonce \ {n} : nonces'[m] = nonces[m]
    BY <2>4, <2>5 DEF DataInv, DataTyped, NonceRow
  <2>7. \A m \in Nonce : NonceOK(m)'
    BY <2>4, <2>5, <2>6 DEF DataInv, NonceOK
  <2>8. Kept
    BY <2>4, <2>6 DEF Kept
  <2>9. PICK e \in Email : e = Account[nonces[n].subject]
    BY <2>5, AccountAssumption
  <2>10. PICK x : x = [q EXCEPT !.at = "upsert", !.email = e]
    OBVIOUS
  <2>11. /\ x \in RequestRow /\ x.at = "upsert" /\ x.email = e /\ x.session = q.session
         /\ x.browser = q.browser /\ x.kind = q.kind /\ x.nonce = n
    BY <2>2, <2>3, <2>10 DEF RequestRow
  <2>12. requests' = [requests EXCEPT ![r] = x]
    BY <2>1, <2>2, <2>4, <2>9, <2>10 DEF RequestRow, DataInv, DataTyped
  <2>13. Shape(q)'
    BY <2>2, <2>8, ShapeKept
  <2>14. Shape(x)'
    BY <2>2, <2>3, <2>11, <2>13, SessionNoneAssumption DEF Shape, Active
  <2>15. \A s \in Request \ {r} :
           requests[s].at = "answered" /\ requests[s].nonce # None =>
             /\ nonces'[requests[s].nonce].at = "issued"
             /\ x.at = "answered" => x.nonce # requests[s].nonce
    BY <2>4, <2>6, <2>11 DEF DataInv, DataTyped, RequestRow, Shape
  <2>16. users' \in [User -> Row \cup {None}] /\ Unique(users')
    BY <2>4 DEF DataInv, DataTyped
  <2>17. UNCHANGED cookies
    BY <2>4
  <2> QED BY <2>6, <2>7, <2>8, <2>11, <2>12, <2>14, <2>15, <2>16, <2>17, ChangeData, Zenon
<1> QED BY <1>1, <1>2

LEMMA UpsertedTyped ==
  ASSUME NEW id, NEW s \in Subject, NEW e \in Email
  PROVE  /\ Upserted(id, s, e) \in Row /\ Upserted(id, s, e) # None
         /\ Upserted(id, s, e).subject = s /\ Upserted(id, s, e).email = e
<1>1. PICK approved \in BOOLEAN :
             approved = (IsAdmin(e) \/ (users[id] # None /\ users[id].approved))
  OBVIOUS
<1>2. Upserted(id, s, e) = [subject |-> s, email |-> e, approved |-> approved]
  BY <1>1, Zenon DEF Upserted
<1>3. /\ Upserted(id, s, e) \in Row
      /\ Upserted(id, s, e).subject = s /\ Upserted(id, s, e).email = e
  BY <1>2 DEF Row
<1> QED BY <1>3, SessionNoneAssumption, Zenon

\* An account is approved by its login only if it was or has the
\* administrator's address.
LEMMA UpsertedApproved ==
  ASSUME NEW id, NEW s \in Subject, NEW e \in Email
  PROVE  Upserted(id, s, e).approved <=> IsAdmin(e) \/ (users[id] # None /\ users[id].approved)
<1>1. PICK approved \in BOOLEAN :
             approved = (IsAdmin(e) \/ (users[id] # None /\ users[id].approved))
  OBVIOUS
<1>2. Upserted(id, s, e) = [subject |-> s, email |-> e, approved |-> approved]
  BY <1>1, Zenon DEF Upserted
<1>3. Upserted(id, s, e).approved = approved
  BY <1>2
<1> QED BY <1>1, <1>3, Zenon

\* What UpsertUser does to the table: the row of the account, new or old,
\* gets the address, and keeps an approval.
UpsertRow(r, id) ==
  LET q == requests[r]
      s == nonces[q.nonce].subject
  IN  /\ q.at = "upsert" /\ s \in Subject /\ q.email \in Email
      /\ users[id] = None \/ users[id].subject = s
      /\ users' = [users EXCEPT ![id] = Upserted(id, s, q.email)]
      /\ \A u \in User \ {id} : users[u] # None => users[u].subject # s /\ users[u].email # q.email
      /\ Answer(r, [q.session EXCEPT !.user = id])
      /\ UNCHANGED <<nonces, cookies>>

LEMMA UpsertWrites ==
  ASSUME DataInv, NEW r \in Request, UpsertUser(r), ~Refuse(r)
  PROVE  \E id \in User : UpsertRow(r, id)
<1> DEFINE q == requests[r]
           s == nonces[q.nonce].subject
           old == {u \in Rows(users) : users[u].subject = s}
           ids == IF old # {} THEN old ELSE User \ Rows(users)
           id == Fresh(ids)
<1>1. /\ q \in RequestRow /\ Shape(q) /\ q.at = "upsert" /\ Active(q) /\ q.nonce \in Nonce
      /\ q.email \in Email
  BY DEF DataInv, DataTyped, UpsertUser, Active, Shape, RequestRow
<1>2. s \in Subject
  BY <1>1 DEF Shape, DataInv, DataTyped, NonceRow, NonceOK
<1>3. /\ ~EmailTaken(q.email, old) /\ ids # {}
      /\ users' = [users EXCEPT ![id] = Upserted(id, s, q.email)]
      /\ Answer(r, [q.session EXCEPT !.user = id])
      /\ UNCHANGED <<nonces, cookies>>
  BY DEF UpsertUser
<1>4. id \in ids /\ id \in User
  BY <1>3, FreshIn DEF Rows
<1>5. users[id] = None \/ users[id].subject = s
  BY <1>4 DEF Rows
<1>6. \A u \in User \ {id} : users[u] # None => users[u].subject # s
  BY <1>4 DEF Rows, DataInv, DataTyped, Unique
<1>7. \A u \in User \ {id} : users[u] # None => users[u].email # q.email
  BY <1>3, <1>6 DEF EmailTaken, Rows
<1> HIDE DEF id
<1> QED BY <1>1, <1>2, <1>3, <1>4, <1>5, <1>6, <1>7 DEF UpsertRow

\* The account that consented to the login of this browser gets its row, and
\* the cookie on its way to this browser names it.
LEMMA UpsertData ==
  ASSUME DataInv, NEW r \in Request, UpsertUser(r)
  PROVE  DataInv'
<1>1. CASE Refuse(r)
  BY <1>1, RefuseData DEF UpsertUser
<1>2. CASE ~Refuse(r)
  <2>1. PICK q : q = requests[r]
    OBVIOUS
  <2>2. PICK id \in User : UpsertRow(r, id)
    BY <1>2, UpsertWrites
  <2>3. PICK s : s = nonces[q.nonce].subject
    OBVIOUS
  <2>4. /\ q \in RequestRow /\ Shape(q) /\ q.at = "upsert" /\ Active(q) /\ q.nonce \in Nonce
        /\ q.browser \in Browser /\ q.session \in Session /\ Holds(q.browser, q.session)
        /\ q.kind = "callback" /\ nonces[q.nonce].browser = q.browser
    BY <2>1, <2>2 DEF DataInv, DataTyped, UpsertRow, Active, Shape, RequestRow
  <2>5. PICK set : set = [q.session EXCEPT !.user = id]
    OBVIOUS
  <2>6. PICK row : row = Upserted(id, s, q.email)
    OBVIOUS
  <2>7. /\ s \in Subject /\ q.email \in Email
        /\ users[id] = None \/ users[id].subject = s
        /\ users' = [users EXCEPT ![id] = row]
        /\ \A u \in User \ {id} : users[u] # None => users[u].subject # s /\ users[u].email # q.email
        /\ Answer(r, set)
        /\ UNCHANGED <<nonces, cookies>>
    BY <2>1, <2>2, <2>3, <2>5, <2>6 DEF UpsertRow
  <2>8. row \in Row /\ row.subject = s /\ row.email = q.email /\ row # None
    BY <2>6, <2>7, UpsertedTyped
  <2>9. /\ users' \in [User -> Row \cup {None}] /\ users'[id] = row
        /\ \A u \in User \ {id} : users'[u] = users[u]
    BY <2>7, <2>8 DEF DataInv, DataTyped
  <2>10. Unique(users')
    BY <2>7, <2>8, <2>9 DEF DataInv, DataTyped, Unique, Rows
  <2>11. Kept
    BY <2>7, <2>8, <2>9 DEF Kept
  <2>12. set \in Session /\ set.user = id /\ set.state = q.session.state
    BY <2>4, <2>5 DEF Session
  <2>13. PICK x : x = [IdleRequest EXCEPT !.at = "answered", !.browser = q.browser,
                                          !.set = set, !.nonce = None]
    OBVIOUS
  <2>14. /\ x.at = "answered" /\ x.browser = q.browser /\ x.set = set /\ x.nonce = None
         /\ x.kind = "graphql" /\ x.session = None
    BY <2>13 DEF IdleRequest
  <2>15. x \in RequestRow
    BY <2>4, <2>12, <2>13 DEF IdleRequest, RequestRow, Kind
  <2>16. requests' = [requests EXCEPT ![r] = x]
    BY <2>1, <2>4, <2>7, <2>13 DEF Answer
  <2>17. Holds(q.browser, set)'
    <3>1. Holds(q.browser, q.session)' /\ q.session # None
      BY <2>4, <2>11, HoldsKept, SessionNoneAssumption
    <3>2. Own(q.browser, id)'
      BY <2>3, <2>4, <2>7, <2>8, <2>9 DEF Own
    <3> QED BY <2>8, <2>9, <2>12, <3>1, <3>2 DEF Holds
  <2>18. Shape(x)'
    BY <2>4, <2>14, <2>17 DEF Shape, Active
  <2>19. /\ nonces' \in [Nonce -> NonceRow] /\ \A n \in Nonce : NonceOK(n)'
         /\ \A t \in Request : requests[t].at = "answered" /\ requests[t].nonce # None
              => nonces'[requests[t].nonce].at = "issued"
    BY <2>7, SameNonces
  <2>20. \A t \in Request \ {r} :
           requests[t].at = "answered" /\ requests[t].nonce # None =>
             /\ nonces'[requests[t].nonce].at = "issued"
             /\ x.at = "answered" => x.nonce # requests[t].nonce
    BY <2>14, <2>19
  <2>21. UNCHANGED cookies
    BY <2>7
  <2> QED BY <2>9, <2>10, <2>11, <2>15, <2>16, <2>18, <2>19, <2>20, <2>21, ChangeData, Zenon
<1> QED BY <1>1, <1>2

LEMMA LogoutData ==
  ASSUME DataInv, NEW r \in Request, Logout(r)
  PROVE  DataInv'
<1>1. CASE Refuse(r)
  BY <1>1, RefuseData DEF Logout
<1>2. CASE ~Refuse(r)
  <2>1. PICK x : x = [IdleRequest EXCEPT !.at = "answered", !.browser = requests[r].browser,
                                         !.set = None, !.nonce = None]
    OBVIOUS
  <2>2. /\ requests[r] \in RequestRow /\ requests[r].kind = "logout"
        /\ requests[r].browser \in Browser
    BY DEF DataInv, DataTyped, Logout, Shape
  <2>3. x \in RequestRow /\ x.at = "answered" /\ x.nonce = None /\ x.set = None
        /\ x.browser \in Browser /\ x.kind = "graphql"
    BY <2>1, <2>2 DEF IdleRequest, RequestRow, Kind
  <2>4. requests' = [requests EXCEPT ![r] = x] /\ UNCHANGED <<users, nonces, cookies>>
    BY <1>2, <2>1, <2>2 DEF Logout, Answer
  <2>5. Shape(x)'
    BY <2>3 DEF Shape, Active, Holds
  <2> QED BY <2>3, <2>4, <2>5, ChangeRequest
<1> QED BY <1>1, <1>2

LEMMA UpdateUserData ==
  ASSUME DataInv, NEW r \in Request, NEW u \in User, NEW approved \in BOOLEAN \cup {None},
         UpdateUser(r, u, approved)
  PROVE  DataInv'
<1>1. /\ users[u] \in Row /\ Done(r) /\ UNCHANGED <<nonces, cookies>>
      /\ users' = [users EXCEPT ![u].approved = IF approved = None THEN @ ELSE approved]
  BY DEF UpdateUser, DataInv, DataTyped
<1>2. /\ users'[u] \in Row /\ users'[u].subject = users[u].subject
      /\ users'[u].email = users[u].email
      /\ \A v \in User \ {u} : users'[v] = users[v]
  BY <1>1 DEF DataInv, DataTyped, Row
<1>3. users' \in [User -> Row \cup {None}]
  BY <1>1, <1>2 DEF DataInv, DataTyped
<1>4. Unique(users')
  BY <1>1, <1>2, SessionNoneAssumption DEF DataInv, DataTyped, Unique, Rows
<1>5. Kept
  BY <1>1, <1>2, SessionNoneAssumption DEF Kept
<1> QED BY <1>1, <1>3, <1>4, <1>5, DoneData

LEMMA HandleData ==
  ASSUME DataInv, NEW r \in Request, Handle(r), pool # "none" => key \in Secret
  PROVE  DataInv'
<1>1. CASE OtherOperation(r)
  BY <1>1, RefuseData DEF OtherOperation
<1> QED BY <1>1, MiddlewareData, LoginData, CallbackData, ExchangeData, UpsertData, LogoutData,
           UpdateUserData DEF Handle

LEMMA OutsideData ==
  ASSUME DataInv, Outside
  PROVE  DataInv'
BY ReceiveData, LoseData, ConsentData DEF Outside

-----------------------------------------------------------------------------
(* The process.                                                            *)

LEMMA InitServer == Init => ServerInv
<1> SUFFICES ASSUME Init PROVE ServerInv
  OBVIOUS
<1>1. DataTyped
  <2>1. Unique(users)
    BY RegisteredAssumption DEF Init, SessionsInit, Unique, Rows
  <2>2. nonces \in [Nonce -> NonceRow]
    BY DEF Init, SessionsInit, NewNonce, NonceRow
  <2> QED BY <2>1, <2>2, RegisteredAssumption, SignedInAssumption, IdleOK
          DEF Init, SessionsInit, DataTyped
<1>2. \A n \in Nonce : NonceOK(n)
  BY DEF Init, SessionsInit, NonceOK, NewNonce
<1>3. \A b \in Browser : Holds(b, cookies[b])
  BY SignedInAssumption DEF Init, SessionsInit, Holds, Own
<1>4. \A r \in Request : requests[r].at = "idle" /\ ~Active(requests[r])
  BY IdleOK DEF Init, SessionsInit
<1>5. (\A r \in Request : Shape(requests[r])) /\ OneAnswer
  BY <1>4 DEF Shape, OneAnswer, Active
<1>6. SeenTyped
  BY DEF Init, SessionsInit, SeenTyped
<1>7. ProcessTyped
  <2>1. starts \in 0..MaxStarts /\ sends \in 0..MaxSends
    BY BoundsAssumption DEF Init
  <2>2. signalled \in BOOLEAN
    BY DEF Init
  <2> QED BY <2>1, <2>2 DEF Init, ProcessTyped
<1>8. Served
  BY <1>4 DEF Init, Served
<1> QED BY <1>1, <1>2, <1>3, <1>5, <1>6, <1>7, <1>8 DEF ServerInv, DataInv

LEMMA HistoryTyped ==
  ASSUME SeenTyped, History
  PROVE  SeenTyped'
<1>1. Allowed(users') \subseteq User /\ Admins(users') \subseteq User
  BY DEF Allowed, Admins, Rows
<1> QED BY <1>1 DEF SeenTyped, History, NothingSeen

\* A process that ends takes the requests along that are under way.
LEMMA ExitServer ==
  ASSUME ServerInv, Exit
  PROVE  DataInv' /\ ProcessTyped' /\ Served'
<1>1. DataInv
  BY DEF ServerInv
<1>2. /\ requests' = [r \in Request |-> IF Active(requests[r]) THEN IdleRequest ELSE requests[r]]
      /\ UNCHANGED <<users, nonces, cookies>>
  BY DEF Exit
<1>3. requests' \in [Request -> RequestRow]
  BY <1>1, <1>2, IdleOK DEF DataInv, DataTyped
<1>4. ASSUME NEW r \in Request
      PROVE  Shape(requests[r])' /\ ~Active(requests'[r])
  <2>1. PICK q : q = requests'[r]
    OBVIOUS
  <2>2. CASE Active(requests[r])
    <3>1. q = IdleRequest
      BY <1>2, <2>1, <2>2
    <3>2. q.at = "idle"
      BY <3>1, IdleOK
    <3> QED BY <2>1, <3>2 DEF Shape, Active
  <2>3. CASE ~Active(requests[r])
    <3>1. q = requests[r] /\ q \in RequestRow /\ Shape(q)
      BY <1>1, <1>2, <2>1, <2>3 DEF DataInv, DataTyped
    <3>2. q.at = "answered" /\ q.nonce # None => nonces'[q.nonce].at = "issued"
      BY <1>2, <3>1 DEF Shape
    <3>3. Shape(q)'
      BY <1>1, <1>2, <3>1, <3>2, ShapeKept, UnchangedKept
    <3> QED BY <2>1, <2>3, <3>1, <3>3
  <2> QED BY <2>2, <2>3
<1>5. OneAnswer'
  <2>1. \A r \in Request : requests'[r].at = "answered" => requests'[r] = requests[r]
    BY <1>2, IdleOK
  <2> QED BY <1>1, <2>1 DEF DataInv, OneAnswer
<1>6. DataInv'
  BY <1>1, <1>2, <1>3, <1>4, <1>5, CookiesKept, UnchangedKept DEF DataInv, DataTyped, NonceOK
<1>7. ProcessTyped' /\ Served'
  BY <1>4 DEF Exit, ServerInv, ProcessTyped, Served, Process
<1> QED BY <1>6, <1>7

LEMMA QuietData ==
  ASSUME DataInv, UNCHANGED sessionVars
  PROVE  DataInv'
<1>1. ASSUME NEW r \in Request PROVE Shape(requests[r])'
  <2>1. PICK q : q = requests[r]
    OBVIOUS
  <2>2. q \in RequestRow /\ Shape(q) /\ requests'[r] = q
    BY <2>1 DEF DataInv, DataTyped, sessionVars
  <2>3. q.at = "answered" /\ q.nonce # None => nonces'[q.nonce].at = "issued"
    BY <2>2 DEF Shape, sessionVars
  <2>4. Shape(q)'
    BY <2>2, <2>3, ShapeKept, UnchangedKept DEF sessionVars
  <2> QED BY <2>2, <2>4
<1> QED BY <1>1, CookiesKept, UnchangedKept DEF DataInv, DataTyped, NonceOK, OneAnswer, sessionVars

\* The statements of main and the goroutine of the listener.
LEMMA ProcessServer ==
  ASSUME ServerInv, UNCHANGED sessionVars,
         \/ Start \/ LoadConfig \/ StartListener \/ NotifyContext \/ SelectServerErr \/ SelectSignal
         \/ ShutdownDone \/ CloseDB \/ Listen \/ ListenerReturns \/ Signal
  PROVE  DataInv' /\ ProcessTyped' /\ Served'
<1> USE DEF ServerInv, ProcessTyped, Served, Process, sessionVars
<1>1. DataInv'
  BY QuietData
<1>2. \A r \in Request : Active(requests'[r]) => Active(requests[r])
  OBVIOUS
<1>3. CASE Start
  BY <1>1, <1>2, <1>3, BoundsAssumption DEF Start
<1>4. CASE LoadConfig
  <2>1. CASE Exit
    BY <2>1, ExitServer
  <2>2. CASE ~Exit
    <3>1. PICK s \in Settings : key' = s.secret /\ pool' = IF s.database THEN "open" ELSE "none"
      BY <1>4, <2>2 DEF LoadConfig
    <3>2. s.secret \in Secret \cup {None}
      BY SettingsAssumption
    <3> QED BY <1>1, <1>2, <1>4, <2>2, <3>1, <3>2 DEF LoadConfig, Goto
  <2> QED BY <2>1, <2>2
<1>5. CASE StartListener
  <2>1. CASE Exit
    BY <2>1, ExitServer
  <2>2. CASE ~Exit
    BY <1>1, <1>2, <1>5, <2>2 DEF StartListener, Goto
  <2> QED BY <2>1, <2>2
<1>6. CASE NotifyContext
  BY <1>1, <1>2, <1>6 DEF NotifyContext, Goto
<1>7. CASE SelectServerErr
  BY <1>1, <1>2, <1>7 DEF SelectServerErr, Goto
<1>8. CASE SelectSignal
  BY <1>1, <1>2, <1>8 DEF SelectSignal, Goto
<1>9. CASE ShutdownDone
  BY <1>1, <1>2, <1>9 DEF ShutdownDone, Goto
<1>10. CASE CloseDB
  BY <1>1, <1>2, <1>10 DEF CloseDB, Goto
<1>11. CASE Listen
  BY <1>1, <1>2, <1>11 DEF Listen
<1>12. CASE ListenerReturns
  BY <1>1, <1>2, <1>12 DEF ListenerReturns
<1>13. CASE Signal
  BY <1>1, <1>2, <1>13 DEF Signal
<1> QED BY <1>3, <1>4, <1>5, <1>6, <1>7, <1>8, <1>9, <1>10, <1>11, <1>12, <1>13

\* No handler brings another request to life.
LEMMA HandleActive ==
  ASSUME DataInv, NEW r \in Request, Handle(r)
  PROVE  Active(requests[r]) /\ \A s \in Request \ {r} : requests'[s] = requests[s]
BY DEF Handle, SessionMiddleware, Login, Callback, Exchange, UpsertUser, Logout, UpdateUser,
       OtherOperation, Refuse, Done, Answer, Active, DataInv, DataTyped

LEMMA RequestsServer ==
  ASSUME ServerInv, Accept \/ Serve \/ Elsewhere
  PROVE  DataInv' /\ ProcessTyped' /\ Served'
<1> USE DEF ServerInv
<1>1. CASE Accept
  <2>1. PICK r \in Request, b \in Browser, kind \in Kind, n \in Nonce \cup {None} :
               r = Fresh(Free) /\ Send(r, b, kind, n)
    BY <1>1, FreshIn DEF Accept, Free
  <2>2. DataInv'
    BY <2>1, SendData
  <2>3. ProcessTyped' /\ Served'
    BY <1>1, BoundsAssumption DEF Accept, ProcessTyped, Served
  <2> QED BY <2>2, <2>3
<1>2. CASE Serve
  <2>1. PICK r \in Request : Handle(r)
    BY <1>2 DEF Serve
  <2>2. UNCHANGED serverVars
    BY <1>2 DEF Serve
  <2>3. Active(requests[r]) /\ \A s \in Request \ {r} : requests'[s] = requests[s]
    BY <2>1, HandleActive
  <2>4. pool # "none" => key \in Secret
    BY <2>3 DEF Served, ProcessTyped
  <2>5. DataInv'
    BY <2>1, <2>4, HandleData
  <2>6. ProcessTyped' /\ Served'
    BY <2>2, <2>3 DEF serverVars, ProcessTyped, Served
  <2> QED BY <2>5, <2>6
<1>3. CASE Elsewhere
  <2>1. DataInv' /\ UNCHANGED serverVars
    BY <1>3, OutsideData DEF Elsewhere
  <2>2. \A r \in Request : Active(requests'[r]) => Active(requests[r])
    BY <1>3, IdleOK DEF Elsewhere, Outside, Receive, Lose, Consent, Done, DataInv, DataTyped
  <2>3. ProcessTyped' /\ Served'
    BY <2>1, <2>2 DEF serverVars, ProcessTyped, Served
  <2> QED BY <2>1, <2>3
<1> QED BY <1>1, <1>2, <1>3

\* The steps of module Server.
LEMMA ServerSteps ==
  ASSUME Next
  PROVE  /\ History
         /\ \/ Exit
            \/ /\ UNCHANGED sessionVars
               /\ \/ Start \/ LoadConfig \/ StartListener \/ NotifyContext \/ SelectServerErr
                  \/ SelectSignal \/ ShutdownDone \/ CloseDB \/ Listen \/ ListenerReturns \/ Signal
            \/ Accept \/ Serve \/ Elsewhere
BY DEF Next, Main, Listener, Start, LoadConfig, StartListener, NotifyContext, SelectServerErr,
       SelectSignal, ShutdownDone, ShutdownTimeout, CloseDB, JoinListener, ExitFailed, Listen,
       ListenerReturns, Signal, Crash, Goto

LEMMA NextServer ==
  ASSUME ServerInv, [Next]_vars
  PROVE  ServerInv'
<1>1. CASE Next
  <2>1. SeenTyped'
    BY <1>1, ServerSteps, HistoryTyped DEF ServerInv
  <2>2. DataInv' /\ ProcessTyped' /\ Served'
    BY <1>1, ServerSteps, ExitServer, ProcessServer, RequestsServer
  <2> QED BY <2>1, <2>2 DEF ServerInv
<1>2. CASE UNCHANGED vars
  <2>1. DataInv'
    BY <1>2, QuietData DEF vars, ServerInv
  <2> QED BY <1>2, <2>1 DEF vars, serverVars, sessionVars, ServerInv, SeenTyped, ProcessTyped, Served
<1> QED BY <1>1, <1>2

\* The inductive invariant holds in every reachable state.
THEOREM AlwaysServer == Spec => []ServerInv
BY InitServer, NextServer, PTL DEF Spec

\* Rows, cookies, requests and the process keep their types; the unique
\* columns stay unique and every cookie is signed.
THEOREM TypeCorrect == Spec => []TypeOK
<1>1. ServerInv => TypeOK
  BY DEF ServerInv, DataInv, DataTyped, SeenTyped, ProcessTyped, TypeOK, SessionsTypeOK
<1> QED BY <1>1, AlwaysServer, PTL

\* A browser is only ever signed in as an account that consented to a login
\* which this very browser started, however many logins overlap.
THEOREM SignedInAsConsented == Spec => []SessionFromOwnLogin
<1>1. ServerInv => SessionFromOwnLogin
  BY DEF ServerInv, DataInv, Holds, Own, SessionFromOwnLogin
<1> QED BY <1>1, AlwaysServer, PTL

-----------------------------------------------------------------------------
(* The end of the process.                                                 *)

\* Once main waits for nothing but the listener, no request is under way, and
\* none gets in any more.
LEMMA NextDrained ==
  ASSUME ServerInv, DrainedBeforeClose, [Next]_vars
  PROVE  DrainedBeforeClose'
<1> USE DEF DrainedBeforeClose
<1>1. CASE Exit
  BY <1>1 DEF Exit
<1>2. CASE UNCHANGED sessionVars /\
           \/ Start \/ LoadConfig \/ StartListener \/ NotifyContext \/ SelectServerErr
           \/ SelectSignal \/ ShutdownDone \/ CloseDB \/ Listen \/ ListenerReturns \/ Signal
  BY <1>1, <1>2 DEF sessionVars, Start, LoadConfig, StartListener, NotifyContext, SelectServerErr,
     SelectSignal, ShutdownDone, Drained, CloseDB, Listen, ListenerReturns, Signal, Goto,
     ServerInv, ProcessTyped, Served
<1>3. CASE Accept
  BY <1>3 DEF Accept, ShuttingDown, ServerInv, Served
<1>4. CASE Serve
  BY <1>4, HandleActive DEF Serve, serverVars, ServerInv
<1>5. CASE Elsewhere
  BY <1>5, IdleOK DEF Elsewhere, Outside, Receive, Lose, Consent, Done, serverVars, ServerInv,
     DataInv, DataTyped
<1>6. CASE UNCHANGED vars
  BY <1>6 DEF vars, sessionVars, serverVars
<1> QED BY <1>1, <1>2, <1>3, <1>4, <1>5, <1>6, ServerSteps

\* closeDB comes after Shutdown has waited for the handlers, so that no
\* request under way loses the database.
THEOREM NoRequestLosesDatabase == Spec => []DrainedBeforeClose
<1>1. Init => DrainedBeforeClose
  BY IdleOK DEF Init, SessionsInit, DrainedBeforeClose
<1>2. ServerInv /\ DrainedBeforeClose /\ [Next]_vars => DrainedBeforeClose'
  BY NextDrained
<1> QED BY <1>1, <1>2, AlwaysServer, PTL DEF Spec

-----------------------------------------------------------------------------
(* Who a request acts for.                                                 *)

\* The user of a request was allowed, and an administrator was one, at some
\* moment since the request was sent.
AuthInv ==
  \A r \in Request :
    requests[r].user # None =>
      /\ Active(requests[r]) /\ requests[r].at # "session"
      /\ requests[r].user.id \in seen[r].allowed
      /\ IsAdmin(requests[r].user.email) => requests[r].user.id \in seen[r].admin

LEMMA SeenGrows ==
  ASSUME History, NEW r \in Request, Active(requests'[r])
  PROVE  /\ Allowed(users') \subseteq seen'[r].allowed /\ Admins(users') \subseteq seen'[r].admin
         /\ Active(requests[r]) =>
              seen[r].allowed \subseteq seen'[r].allowed /\ seen[r].admin \subseteq seen'[r].admin
BY DEF History

\* A request gets a user from the middleware, and from nowhere else.
LEMMA HandleUser ==
  ASSUME DataInv, NEW r \in Request, Handle(r)
  PROVE  \/ requests'[r].user = None
         \/ /\ requests'[r].user = requests[r].user
            /\ Active(requests'[r]) /\ requests'[r].at # "session"
         \/ /\ requests'[r].user = SessionUser(requests[r].session)
            /\ requests'[r].at = "handler" /\ UNCHANGED users
<1>1. requests[r] \in RequestRow /\ requests \in [Request -> RequestRow]
  BY DEF DataInv, DataTyped
<1>2. CASE SessionMiddleware(r)
  BY <1>1, <1>2 DEF SessionMiddleware, RequestRow
<1>3. CASE Done(r)
  BY <1>1, <1>3 DEF Done, IdleRequest
<1>4. ASSUME NEW cookie, Answer(r, cookie)
      PROVE  requests'[r].user = None
  BY <1>1, <1>4 DEF Answer, IdleRequest
<1>5. CASE Callback(r) \/ Exchange(r)
  <2>1. CASE Refuse(r)
    BY <1>3, <2>1 DEF Refuse
  <2>2. CASE ~Refuse(r)
    BY <1>1, <1>5, <2>2 DEF Callback, Exchange, RequestRow, Active
  <2> QED BY <2>1, <2>2
<1>6. CASE Login(r) \/ UpsertUser(r) \/ Logout(r)
  BY <1>3, <1>4, <1>6 DEF Login, UpsertUser, Logout, Refuse
<1>7. CASE OtherOperation(r) \/ \E u \in User, approved \in BOOLEAN \cup {None} :
                                   UpdateUser(r, u, approved)
  BY <1>3, <1>7 DEF OtherOperation, UpdateUser, Refuse
<1> QED BY <1>2, <1>5, <1>6, <1>7 DEF Handle

LEMMA NextAuth ==
  ASSUME ServerInv, AuthInv, [Next]_vars
  PROVE  AuthInv'
<1>1. CASE UNCHANGED vars
  BY <1>1 DEF vars, sessionVars, AuthInv, Active
<1>2. CASE Next
  <2>1. SUFFICES ASSUME NEW r \in Request, requests'[r].user # None
                 PROVE  /\ Active(requests'[r]) /\ requests'[r].at # "session"
                        /\ requests'[r].user.id \in seen'[r].allowed
                        /\ IsAdmin(requests'[r].user.email) => requests'[r].user.id \in seen'[r].admin
    BY DEF AuthInv, Active
  <2>2. History
    BY <1>2, ServerSteps
  <2>3. ASSUME requests'[r].user = requests[r].user, Active(requests'[r]),
               requests'[r].at # "session"
        PROVE  /\ Active(requests'[r]) /\ requests'[r].at # "session"
               /\ requests'[r].user.id \in seen'[r].allowed
               /\ IsAdmin(requests'[r].user.email) => requests'[r].user.id \in seen'[r].admin
    BY <2>1, <2>2, <2>3, SeenGrows DEF AuthInv
  <2>4. CASE requests'[r] = requests[r]
    <3>1. Active(requests'[r]) /\ requests'[r].at # "session"
      BY <2>1, <2>4 DEF AuthInv
    <3> QED BY <2>3, <2>4, <3>1
  <2>5. CASE Exit
    BY <2>1, <2>4, <2>5 DEF Exit, IdleRequest
  <2>6. CASE UNCHANGED sessionVars
    BY <2>4, <2>6 DEF sessionVars
  <2>7. CASE Accept
    BY <2>1, <2>4, <2>7, FreshIn DEF Accept, Free, Send, IdleRequest, ServerInv, DataInv, DataTyped
  <2>8. CASE Serve
    <3>1. PICK s \in Request : Handle(s)
      BY <2>8 DEF Serve
    <3>2. CASE s # r
      BY <2>4, <3>1, <3>2, HandleActive DEF ServerInv
    <3>3. CASE s = r /\ requests'[r].user = SessionUser(requests[r].session)
                     /\ requests'[r].at = "handler" /\ UNCHANGED users
      <4>1. requests[r].session \in Session \cup {None}
        BY DEF ServerInv, DataInv, DataTyped, RequestRow
      <4>2. /\ requests'[r].user.id \in Allowed(users)
            /\ IsAdmin(requests'[r].user.email) => requests'[r].user.id \in Admins(users)
        BY <2>1, <3>3, <4>1, SessionUserIn DEF ServerInv
      <4>3. Active(requests'[r])
        BY <3>3 DEF Active
      <4>4. Allowed(users') = Allowed(users) /\ Admins(users') = Admins(users)
        BY <3>3
      <4> QED BY <2>2, <3>3, <4>2, <4>3, <4>4, SeenGrows
    <3> QED BY <2>1, <2>3, <3>1, <3>2, <3>3, HandleUser DEF ServerInv
  <2>9. CASE Elsewhere
    <3>1. requests' = requests \/ \E s \in Request : Done(s)
      BY <2>9 DEF Elsewhere, Outside, Receive, Lose, Consent
    <3> QED BY <2>1, <2>4, <3>1 DEF Done, IdleRequest, ServerInv, DataInv, DataTyped
  <2> QED BY <1>2, <2>5, <2>6, <2>7, <2>8, <2>9, ServerSteps
<1> QED BY <1>1, <1>2

\* A request that runs for a user found that user approved, or the
\* administrator, while it was under way, in every reachable state.
THEOREM AlwaysAuth == Spec => [](ServerInv /\ AuthInv)
<1>1. Init => AuthInv
  BY DEF Init, SessionsInit, AuthInv, IdleRequest
<1>2. ServerInv /\ AuthInv /\ [Next]_vars => AuthInv'
  BY NextAuth
<1> QED BY <1>1, <1>2, AlwaysServer, PTL DEF Spec

\* An operation runs for a user only if that user was approved or the
\* administrator at some moment since the request was sent.
THEOREM RequestsAuthorized == Spec => []AuthorizedWithinRequest
<1>1. AuthInv => AuthorizedWithinRequest
  BY DEF AuthInv, AuthorizedWithinRequest
<1> QED BY <1>1, AlwaysAuth, PTL

LEMMA ApprovalStep ==
  ASSUME ServerInv, AuthInv, [Next]_vars, NEW u \in User,
         (users[u] # None /\ users[u].approved) # (users'[u] # None /\ users'[u].approved)
  PROVE  \E r \in Request :
           /\ Active(requests[r]) /\ ~Active(requests'[r])
           /\ \/ requests[r].user # None /\ requests[r].user.id \in seen[r].admin
              \/ /\ users'[u] # None /\ users'[u].approved /\ IsAdmin(users'[u].email)
                 /\ nonces[requests[r].nonce].subject = users'[u].subject
<1>1. users' # users
  OBVIOUS
<1>2. Serve
  BY <1>1, ServerSteps DEF Exit, sessionVars, Accept, Send, Elsewhere, Outside, Receive, Lose,
     Consent, vars
<1>3. PICK r \in Request : Handle(r)
  BY <1>2 DEF Serve
<1>4. DataInv /\ requests \in [Request -> RequestRow]
  BY DEF ServerInv, DataInv, DataTyped
<1>5. \/ UpsertUser(r) /\ ~Refuse(r)
      \/ \E v \in User, approved \in BOOLEAN \cup {None} : UpdateUser(r, v, approved)
  BY <1>1, <1>3 DEF Handle, SessionMiddleware, Login, Callback, Exchange, UpsertUser, Logout,
     OtherOperation, Refuse
<1>6. Active(requests[r])
  BY <1>3, <1>4, HandleActive
<1>7. CASE \E v \in User, approved \in BOOLEAN \cup {None} : UpdateUser(r, v, approved)
  <2>1. requests[r].user # None /\ IsAdmin(requests[r].user.email) /\ Done(r)
    BY <1>7 DEF UpdateUser, MayAdminister
  <2>2. ~Active(requests'[r])
    BY <1>4, <2>1, IdleOK DEF Done
  <2> QED BY <1>6, <2>1, <2>2 DEF AuthInv
<1>8. CASE UpsertUser(r) /\ ~Refuse(r)
  <2>1. PICK id \in User : UpsertRow(r, id)
    BY <1>4, <1>8, UpsertWrites
  <2>2. PICK row : row = Upserted(id, nonces[requests[r].nonce].subject, requests[r].email)
    OBVIOUS
  <2>3. users' = [users EXCEPT ![id] = row] /\ users \in [User -> Row \cup {None}]
    BY <1>4, <2>1, <2>2 DEF UpsertRow, DataInv, DataTyped
  <2>4. /\ row.subject = nonces[requests[r].nonce].subject /\ row.email = requests[r].email
        /\ row # None
        /\ row.approved <=> IsAdmin(requests[r].email) \/ (users[id] # None /\ users[id].approved)
    BY <2>1, <2>2, UpsertedTyped, UpsertedApproved DEF UpsertRow
  <2>5. u = id /\ users'[u] = row
    BY <2>3
  <2>6. row.approved /\ IsAdmin(row.email)
    BY <2>4, <2>5, Zenon
  <2>7. ~Active(requests'[r])
    BY <1>4, <2>1 DEF UpsertRow, Answer, IdleRequest, Active
  <2> QED BY <1>6, <2>4, <2>5, <2>6, <2>7
<1> QED BY <1>5, <1>7, <1>8

\* An approval changes only when an administrator sets it, or when the account
\* with the administrator's address signs in and gets it.
THEOREM ApprovalsByAdmin == Spec => ApprovalOnlyByAdmin
<1>1. ServerInv /\ AuthInv /\ [Next]_vars =>
        [\A u \in User :
           LET before == users[u] # None /\ users[u].approved
               after == users'[u] # None /\ users'[u].approved IN
           before # after =>
             \E r \in Request :
               /\ Active(requests[r]) /\ ~Active(requests'[r])
               /\ \/ requests[r].user # None /\ requests[r].user.id \in seen[r].admin
                  \/ /\ after /\ IsAdmin(users'[u].email)
                     /\ nonces[requests[r].nonce].subject = users'[u].subject]_<<sessionVars, seen>>
  BY ApprovalStep
<1> QED BY <1>1, AlwaysAuth, PTL DEF Spec, ApprovalOnlyByAdmin
=============================================================================
