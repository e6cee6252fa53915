------------------------------ MODULE Sessions ------------------------------
(***************************************************************************)
(* Login with Google, the session cookie, the session middleware and the   *)
(* approval of users: the handlers of internal/auth and the resolvers that *)
(* only the administrator may call.                                        *)
(*                                                                         *)
(* There is no session on the server: the cookie, signed with the server's *)
(* secret, IS the session.  A request carries the cookie that its browser  *)
(* had when it was sent, the handler changes that copy, and the response   *)
(* replaces the browser's cookie by it whenever it arrives.  Several       *)
(* requests of a browser are under way at once, responses get lost.        *)
(*                                                                         *)
(* The process the handlers run in (pool, key) is that of module Server.   *)
(***************************************************************************)
EXTENDS Naturals, FiniteSets

CONSTANTS
  Browser, Request,  \* browsers; requests under way
  Subject,           \* Google accounts (claim sub)
  Email, AdminEmail, \* addresses; ADMIN_EMAIL
  Account,           \* the address each Google account has by now
  User,              \* identifiers of rows of users (bound: all that are ever given)
  Registered,        \* the rows of users at the start
  SignedIn,          \* the cookie of each browser at the start
  Nonce,             \* results of randomState
  Secret,            \* values of SESSION_SECRET
  None

Row == [subject : Subject, email : Email, approved : BOOLEAN]
Session == [key : Secret, user : User \cup {None}, state : Nonce \cup {None}]

ASSUME AdminAssumption == AdminEmail \in Email \cup {None}
ASSUME SessionNoneAssumption ==
  /\ None \notin Browser \cup Subject \cup Email \cup User \cup Nonce \cup Secret
  /\ None \notin Row \cup Session \cup [id : User, email : Email]
ASSUME AccountAssumption == Account \in [Subject -> Email]
ASSUME RegisteredAssumption ==
  /\ Registered \in [User -> Row \cup {None}]
  /\ \A u, v \in User :
       Registered[u] # None /\ Registered[v] # None
         /\ (Registered[u].subject = Registered[v].subject \/ Registered[u].email = Registered[v].email)
       => u = v
ASSUME SignedInAssumption ==
  /\ SignedIn \in [Browser -> Session \cup {None}]
  /\ \A b \in Browser : SignedIn[b] # None =>
       SignedIn[b].user # None /\ Registered[SignedIn[b].user] # None /\ SignedIn[b].state = None

VARIABLES
  users,     \* the committed rows of users
  nonces,    \* what became of each state parameter
  cookies,   \* the cookie each browser holds
  requests,  \* the requests under way and what their handler knows
  seen,      \* history: the users allowed, and the administrators, since it was sent
  pool,      \* the *sql.DB: "none", "open" or "closed"
  key        \* SESSION_SECRET of the running process

sessionVars == <<users, nonces, cookies, requests>>

\* The browser a state was issued to and the account that consented there.
NonceRow == [at : {"new", "issued", "known", "consented", "used"},
             browser : Browser \cup {None}, subject : Subject \cup {None}]
NewNonce == [at |-> "new", browser |-> None, subject |-> None]

Kind == {"login", "callback", "logout", "graphql"}

\* session is the copy of the cookie, nonce the state in the URL of a
\* callback (it names the code too), user the row in the context, email the
\* claim of the ID token, set the cookie of a response on its way, None when it is
\* deleted.
IdleRequest == [at |-> "idle", kind |-> "graphql", browser |-> None, session |-> None,
                nonce |-> None, user |-> None, email |-> None, set |-> None]

RequestRow == [at : {"idle", "session", "handler", "exchange", "upsert", "answered"},
               kind : Kind, browser : Browser \cup {None}, session : Session \cup {None},
               nonce : Nonce \cup {None}, user : [id : User, email : Email] \cup {None},
               email : Email \cup {None}, set : Session \cup {None}]

Fresh(S) == CHOOSE x \in S : TRUE

IsAdmin(email) == AdminEmail # None /\ email = AdminEmail
Rows(table) == {u \in User : table[u] # None}
Admins(table) == {u \in Rows(table) : IsAdmin(table[u].email)}
Allowed(table) == {u \in Rows(table) : table[u].approved} \cup Admins(table)

SessionsInit ==
  /\ users = Registered
  /\ nonces = [n \in Nonce |-> NewNonce]
  /\ cookies = SignedIn
  /\ requests = [r \in Request |-> IdleRequest]
  /\ seen = [r \in Request |-> [allowed |-> {}, admin |-> {}]]

NothingSeen == [allowed |-> {}, admin |-> {}]

\* A response with Set-Cookie is on its way; one without leaves its browser
\* as it is.
Answer(r, cookie) ==
  requests' = [requests EXCEPT ![r] = [IdleRequest EXCEPT
    !.at = "answered", !.browser = requests[r].browser, !.set = cookie,
    !.nonce = IF requests[r].kind = "login" THEN cookie.state ELSE None]]
Done(r) == requests' = [requests EXCEPT ![r] = IdleRequest]
Refuse(r) == Done(r) /\ UNCHANGED <<users, nonces>>

\* store.Get: a cookie that another secret signed is an error, no cookie a
\* new session.
Undecodable(session) == session # None /\ session.key # key
Opened(session) == IF session = None THEN [key |-> key, user |-> None, state |-> None]
                   ELSE session

Active(q) == q.at \notin {"idle", "answered"}

\* What every step adds to the history.
History ==
  seen' = [r \in Request |->
    IF ~Active(requests'[r]) THEN NothingSeen
    ELSE LET old == IF Active(requests[r]) THEN seen[r] ELSE NothingSeen IN
         [allowed |-> old.allowed \cup Allowed(users'), admin |-> old.admin \cup Admins(users')]]

-----------------------------------------------------------------------------
(* Browsers and Google.                                                    *)

\* A browser sends a request.  Whoever has the URL of a callback may open it,
\* also a second time (a reload) or elsewhere.  The middleware runs on every
\* route; the routes of /auth, but /auth/me, do not look at what it found.
Send(r, b, kind, n) ==
  /\ requests[r].at = "idle"
  /\ IF kind = "callback" THEN n \in Nonce /\ nonces[n].at \in {"consented", "used"} ELSE n = None
  /\ requests' = [requests EXCEPT ![r] = [IdleRequest EXCEPT
       !.at = IF kind = "graphql" THEN "session" ELSE "handler",
       !.kind = kind, !.browser = b, !.session = cookies[b], !.nonce = n]]
  /\ UNCHANGED <<users, nonces, cookies>>

\* The response arrives, and the browser follows the redirect to Google.
Receive(r) ==
  LET q == requests[r] IN
  /\ q.at = "answered"
  /\ cookies' = [cookies EXCEPT ![q.browser] = q.set]
  /\ nonces' = IF q.nonce = None THEN nonces ELSE [nonces EXCEPT ![q.nonce].at = "known"]
  /\ Done(r)
  /\ UNCHANGED users

\* The response is lost.
Lose(r) ==
  /\ requests[r].at = "answered"
  /\ Done(r)
  /\ UNCHANGED <<users, nonces, cookies>>

\* Google: somebody signs in with an account and is sent back.
Consent(n, s) ==
  /\ nonces[n].at = "known"
  /\ nonces' = [nonces EXCEPT ![n].at = "consented", ![n].subject = s]
  /\ UNCHANGED <<users, cookies, requests>>

-----------------------------------------------------------------------------
(* The handlers.  Each may fail where it calls something: the discovery of *)
(* the provider, randomState, the database, the encoding of the cookie.    *)

\* Mutant: the approval is not looked at again.
MutantSessionUser(session) ==
  IF session # None /\ ~Undecodable(session) /\ session.user # None /\ pool = "open"
  THEN [id |-> session.user, email |-> users[session.user].email]
  ELSE None

\* SessionMiddleware: the user of the cookie, read once, if it is allowed.
\* Whatever fails, the query included, leaves the request without a user.
SessionUser(session) ==
  IF /\ session # None /\ ~Undecodable(session)
     /\ session.user # None /\ pool = "open"
     /\ session.user \in Allowed(users)
  THEN [id |-> session.user, email |-> users[session.user].email]
  ELSE None

SessionMiddleware(r) ==
  /\ requests[r].at = "session"
  /\ \E user \in {SessionUser(requests[r].session), None} :
       requests' = [requests EXCEPT ![r].at = "handler", ![r].user = user]
  /\ UNCHANGED <<users, nonces, cookies>>

\* Login: a fresh state in the cookie and in the URL of Google.
Login(r) ==
  LET q == requests[r]
      new == {n \in Nonce : nonces[n].at = "new"} IN
  /\ q.at = "handler" /\ q.kind = "login"
  /\ \/ Refuse(r)
     \/ /\ pool # "none" /\ ~Undecodable(q.session) /\ new # {}
        /\ Answer(r, [Opened(q.session) EXCEPT !.state = Fresh(new)])
        /\ nonces' = [nonces EXCEPT ![Fresh(new)].at = "issued", ![Fresh(new)].browser = q.browser]
        /\ UNCHANGED users
  /\ UNCHANGED cookies

\* Mutant: the state is only required to be there.
MutantStateMatches(q) == Opened(q.session).state # None

\* Callback, up to the exchange of the code: the state of the URL must be the
\* state of the cookie.  It is deleted from the copy only.
StateMatches(q) == Opened(q.session).state # None /\ q.session.state = q.nonce

Callback(r) ==
  LET q == requests[r] IN
  /\ q.at = "handler" /\ q.kind = "callback"
  /\ \/ Refuse(r)
     \/ /\ pool # "none" /\ ~Undecodable(q.session) /\ StateMatches(q)
        /\ requests' = [requests EXCEPT ![r].at = "exchange", ![r].session.state = None]
        /\ UNCHANGED <<users, nonces>>
  /\ UNCHANGED cookies

\* Google answers the exchange, once for a code, or it fails.
Exchange(r) ==
  LET q == requests[r] IN
  /\ q.at = "exchange"
  /\ \/ Refuse(r)
     \/ /\ nonces[q.nonce].at = "consented"
        /\ nonces' = [nonces EXCEPT ![q.nonce].at = "used"]
        /\ requests' = [requests EXCEPT ![r].at = "upsert",
                                        ![r].email = Account[nonces[q.nonce].subject]]
        /\ UNCHANGED users
  /\ UNCHANGED cookies

\* Mutant: the upsert overwrites the approval.
MutantUpserted(u, s, e) == [subject |-> s, email |-> e, approved |-> IsAdmin(e)]

\* UpsertUser: ON CONFLICT covers the subject only; an address that the row
\* of another account still has violates the constraint on email.  An
\* approval is kept.
Upserted(u, s, e) == [subject |-> s, email |-> e,
                      approved |-> IsAdmin(e) \/ (users[u] # None /\ users[u].approved)]

\* Mutant: email is not UNIQUE.
MutantEmailTaken(e, old) == FALSE
EmailTaken(e, old) == \E u \in Rows(users) \ old : users[u].email = e

UpsertUser(r) ==
  LET q == requests[r]
      s == nonces[q.nonce].subject
      old == {u \in Rows(users) : users[u].subject = s}
      ids == IF old # {} THEN old ELSE User \ Rows(users)
      id == Fresh(ids) IN
  /\ q.at = "upsert"
  /\ \/ Refuse(r)
     \/ /\ pool = "open" /\ ~EmailTaken(q.email, old) /\ ids # {}
        /\ users' = [users EXCEPT ![id] = Upserted(id, s, q.email)]
        /\ Answer(r, [q.session EXCEPT !.user = id])
        /\ UNCHANGED nonces
  /\ UNCHANGED cookies

\* Logout deletes the cookie of this browser, if it can be decoded.
Logout(r) ==
  LET q == requests[r] IN
  /\ q.at = "handler" /\ q.kind = "logout"
  /\ IF Undecodable(q.session) THEN Refuse(r) ELSE Answer(r, None) /\ UNCHANGED <<users, nonces>>
  /\ UNCHANGED cookies

\* RequireAuth, then the mutation updateUser.  requireAdminQueries looks at
\* the row of the context, not at the table.
MayAdminister(q) == q.user # None /\ IsAdmin(q.user.email)

UpdateUser(r, u, approved) ==
  LET q == requests[r] IN
  /\ q.at = "handler" /\ q.kind = "graphql"
  /\ MayAdminister(q) /\ pool = "open" /\ users[u] # None
  /\ users' = [users EXCEPT ![u].approved = IF approved = None THEN @ ELSE approved]
  /\ Done(r)
  /\ UNCHANGED <<nonces, cookies>>

\* Any other operation of /graphql or /auth/me, a refused one included: it
\* writes no row of users and no cookie.
OtherOperation(r) ==
  /\ requests[r].at = "handler" /\ requests[r].kind = "graphql"
  /\ Refuse(r)
  /\ UNCHANGED cookies

Handle(r) ==
  \/ SessionMiddleware(r) \/ Login(r) \/ Callback(r) \/ Exchange(r) \/ UpsertUser(r) \/ Logout(r)
  \/ \E u \in User, approved \in BOOLEAN \cup {None} : UpdateUser(r, u, approved)
  \/ OtherOperation(r)

Outside ==
  \/ \E r \in Request : Receive(r) \/ Lose(r)
  \/ \E n \in Nonce, s \in Subject : Consent(n, s)

-----------------------------------------------------------------------------
(* Properties.                                                             *)

\* The columns google_subject and email are UNIQUE.
Unique(table) ==
  \A u, v \in Rows(table) :
    table[u].subject = table[v].subject \/ table[u].email = table[v].email => u = v

SessionsTypeOK ==
  /\ users \in [User -> Row \cup {None}] /\ Unique(users)
  /\ nonces \in [Nonce -> NonceRow]
  /\ cookies \in [Browser -> Session \cup {None}]
  /\ requests \in [Request -> RequestRow]
  /\ seen \in [Request -> [allowed : SUBSET User, admin : SUBSET User]]
  /\ pool \in {"none", "open", "closed"} /\ key \in Secret \cup {None}

\* A browser is only ever signed in as an account that consented to a login
\* which this very browser started, however many logins of however many
\* browsers and accounts overlap, are repeated or get lost (the state in the
\* cookie: auth.go:70, :105).
SessionFromOwnLogin ==
  \A b \in Browser :
    /\ cookies[b] # None /\ cookies[b].user # None
    /\ SignedIn[b] # None => cookies[b].user # SignedIn[b].user
    =>
      \E n \in Nonce : /\ nonces[n].browser = b
                       /\ nonces[n].subject = users[cookies[b].user].subject

\* An operation runs for a user only if that user was approved or the
\* administrator at some moment since the request was sent: an approval that
\* was taken back, or an address that is no longer the administrator's,
\* survives at most one request (middleware.go:69).
AuthorizedWithinRequest ==
  \A r \in Request :
    requests[r].at # "session" /\ requests[r].user # None => requests[r].user.id \in seen[r].allowed

\* An approval changes only in two ways: an administrator (one at some moment
\* of that request) sets it, or the account whose address is the
\* administrator's signs in and gets it.  No login takes one away, and
\* nobody's login approves somebody else (users.sql.go:102).
ApprovalOnlyByAdmin ==
  [][\A u \in User :
       LET before == users[u] # None /\ users[u].approved
           after == users'[u] # None /\ users'[u].approved IN
       before # after =>
         \E r \in Request :
           /\ Active(requests[r]) /\ ~Active(requests'[r])
           /\ \/ requests[r].user # None /\ requests[r].user.id \in seen[r].admin
              \/ /\ after /\ IsAdmin(users'[u].email)
                 /\ nonces[requests[r].nonce].subject = users'[u].subject]_<<sessionVars, seen>>
=============================================================================
