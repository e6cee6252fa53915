------------------------------- MODULE Server -------------------------------
(***************************************************************************)
(* The process of cmd/server: it starts, serves the requests of module     *)
(* Sessions, and ends after a signal, an error of the listener or a        *)
(* shutdown that takes too long.  It may be started again, perhaps with    *)
(* another secret.  Cookies and rows outlive it, requests do not.          *)
(***************************************************************************)
EXTENDS Sessions

CONSTANTS
  Settings,   \* DATABASE_URL set or not, and SESSION_SECRET
  MaxStarts,  \* bound: starts of the process
  MaxSends    \* bound: requests sent

ASSUME SettingsAssumption == Settings \subseteq [database : BOOLEAN, secret : Secret \cup {None}]
ASSUME BoundsAssumption == MaxStarts \in Nat /\ MaxSends \in Nat

VARIABLES
  main,       \* the next statement of func main
  listener,   \* the goroutine of ListenAndServe
  serverErr,  \* the channel of capacity 1
  signalled,  \* the context of NotifyContext is done
  starts, sends

serverVars == <<main, listener, serverErr, signalled, starts, sends, pool, key>>
vars == <<sessionVars, seen, serverVars>>

Process == {"config", "secret", "notify", "select", "shutdown", "close", "join", "fail"}

Init ==
  /\ SessionsInit
  /\ pool = "none" /\ key = None
  /\ main = "down" /\ listener = "none" /\ serverErr = "empty"
  /\ signalled = FALSE /\ starts = 0 /\ sends = 0

\* The process ends, whatever its status: the requests under way are cut off.
Exit ==
  /\ main' = "down" /\ listener' = "none" /\ serverErr' = "empty" /\ signalled' = FALSE
  /\ pool' = "none" /\ key' = None
  /\ requests' = [r \in Request |-> IF Active(requests[r]) THEN IdleRequest ELSE requests[r]]
  /\ UNCHANGED <<users, nonces, cookies, starts, sends>>

Goto(statement) ==
  /\ main' = statement
  /\ UNCHANGED <<sessionVars, signalled, starts, sends>>

Start ==
  /\ main = "down" /\ starts < MaxStarts
  /\ main' = "config" /\ starts' = starts + 1
  /\ UNCHANGED <<sessionVars, listener, serverErr, signalled, sends, pool, key>>

\* config.Load: a duration that cannot be parsed is an error.  openDB: no
\* DATABASE_URL means no database; connecting or migrating may fail.
LoadConfig ==
  /\ main = "config"
  /\ \/ Exit
     \/ /\ \E s \in Settings : key' = s.secret /\ pool' = IF s.database THEN "open" ELSE "none"
        /\ Goto("secret") /\ UNCHANGED <<listener, serverErr>>

\* Without a secret but with a database main closes the pool and exits.  The
\* goroutine of the listener is started before the signals are asked for.
StartListener ==
  /\ main = "secret"
  /\ IF pool = "open" /\ key = None THEN Exit
     ELSE listener' = "starting" /\ Goto("notify") /\ UNCHANGED <<serverErr, pool, key>>

NotifyContext ==
  /\ main = "notify"
  /\ Goto("select") /\ UNCHANGED <<listener, serverErr, pool, key>>

\* select takes either of the channels that are ready.  Shutdown closes the
\* listener before it waits.
SelectServerErr ==
  /\ main = "select" /\ serverErr # "empty"
  /\ pool' = IF pool = "open" THEN "closed" ELSE pool
  /\ serverErr' = "empty"
  /\ Goto("fail") /\ UNCHANGED <<listener, key>>

SelectSignal ==
  /\ main = "select" /\ signalled
  /\ Goto("shutdown") /\ UNCHANGED <<listener, serverErr, pool, key>>

\* Shutdown returns when no request is active, or when HTTP_SHUTDOWN_TIMEOUT
\* is over: then the pool is not closed.
Drained == \A r \in Request : ~Active(requests[r])

\* Mutant: Shutdown does not wait.
MutantShutdownDone ==
  /\ main = "shutdown"
  /\ Goto("close") /\ UNCHANGED <<listener, serverErr, pool, key>>

ShutdownDone ==
  /\ main = "shutdown" /\ Drained
  /\ Goto("close") /\ UNCHANGED <<listener, serverErr, pool, key>>

\* Mutant: Shutdown gets a context without a timeout.
MutantShutdownTimeout == main = "shutdown" /\ Drained /\ Exit
ShutdownTimeout == main = "shutdown" /\ Exit

CloseDB ==
  /\ main = "close"
  /\ pool' = IF pool = "open" THEN "closed" ELSE pool
  /\ Goto("join") /\ UNCHANGED <<listener, serverErr, key>>

JoinListener == main = "join" /\ serverErr # "empty" /\ Exit

ExitFailed == main = "fail" /\ Exit

\* ListenAndServe: it starts to listen, fails at any time, or returns
\* ErrServerClosed once Shutdown has been called.
ShuttingDown == main \in {"shutdown", "close", "join"}

Listen ==
  /\ listener = "starting" /\ ~ShuttingDown
  /\ listener' = "listening"
  /\ UNCHANGED <<sessionVars, main, serverErr, signalled, starts, sends, pool, key>>

ListenerReturns ==
  /\ listener \in {"starting", "listening"}
  /\ listener' = "done"
  /\ serverErr' = IF ShuttingDown THEN "nil" ELSE "err"
  /\ UNCHANGED <<sessionVars, main, signalled, starts, sends, pool, key>>

\* SIGINT or SIGTERM after NotifyContext: its context is done, and further
\* signals are swallowed.
Signal ==
  /\ main \in {"select", "shutdown"} /\ ~signalled
  /\ signalled' = TRUE
  /\ UNCHANGED <<sessionVars, main, listener, serverErr, starts, sends, pool, key>>

\* A crash of the process, or a signal before NotifyContext.
Crash == main \in Process /\ Exit

\* All requests are alike.
Free == {r \in Request : requests[r].at = "idle"}

\* Requests get in while the process listens and run while it exists.
Accept ==
  /\ listener = "listening" /\ ~ShuttingDown /\ sends < MaxSends
  /\ Free # {}
  /\ \E b \in Browser, kind \in Kind, n \in Nonce \cup {None} : Send(Fresh(Free), b, kind, n)
  /\ sends' = sends + 1
  /\ UNCHANGED <<main, listener, serverErr, signalled, starts, pool, key>>

Serve == (\E r \in Request : Handle(r)) /\ UNCHANGED serverVars
Elsewhere == Outside /\ UNCHANGED serverVars

Main ==
  /\ \/ LoadConfig \/ StartListener \/ NotifyContext
     \/ SelectServerErr \/ SelectSignal \/ ShutdownDone \/ ShutdownTimeout
     \/ CloseDB \/ JoinListener \/ ExitFailed
  /\ History

Listener == (Listen \/ ListenerReturns) /\ History

Next ==
  \/ Main \/ Listener
  \/ (Start \/ Signal \/ Crash \/ Accept \/ Serve \/ Elsewhere) /\ History

\* The main goroutine goes on; the listener returns once it has been closed,
\* and a timer fires.  Nothing is assumed of the handlers: an exchange with
\* Google may hang for ever.
Spec == Init /\ [][Next]_vars /\ WF_vars(Main) /\ WF_vars(ShuttingDown /\ Listener)

-----------------------------------------------------------------------------
TypeOK ==
  /\ SessionsTypeOK
  /\ main \in Process \cup {"down"}
  /\ listener \in {"none", "starting", "listening", "done"}
  /\ serverErr \in {"empty", "nil", "err"} /\ signalled \in BOOLEAN
  /\ starts \in 0..MaxStarts /\ sends \in 0..MaxSends

\* No request that is under way loses the database, unless the listener
\* failed: closeDB comes after Shutdown has waited for the handlers, and a
\* Shutdown that did not wait long enough leaves the pool open
\* (main.go:82-89).
DrainedBeforeClose ==
  main \in {"close", "join"} \/ (pool = "closed" /\ main # "fail") =>
    \A r \in Request : ~Active(requests[r])

\* After a signal the process ends, however long a handler hangs and whatever
\* the listener does (main.go:80-93).
SignalEndsProcess == signalled ~> main = "down"
=============================================================================
