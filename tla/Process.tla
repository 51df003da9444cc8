------------------------------ MODULE Process ------------------------------
(***************************************************************************)
(* The life of the process, run() of main: dependencies are waited for,    *)
(* the book is rebuilt, five goroutines of an errgroup start at once, and  *)
(* a signal or the first error cancels their context.  What they do        *)
(* between start and end is the subject of the other modules.              *)
(*                                                                         *)
(* The shutdown of the HTTP server and of the pool wait for requests: the  *)
(* parameters busy and querying of the actions say whether there are any.  *)
(* Code: cmd/api/main.go, and the Run methods for how they end.            *)
(***************************************************************************)
EXTENDS Naturals

CONSTANTS
    PostgresAttempts,   \* how often run() tries to connect (15 in the code)
    TopicAttempts       \* how often it tries to create the topic (10)

ASSUME AttemptsAssumption == PostgresAttempts \in Nat \ {0} /\ TopicAttempts \in Nat \ {0}

VARIABLES
    stage,      \* where run() is; "serving" is g.Wait, "closing" its deferred calls
    attempts,   \* how many attempts of the loop run() is in have failed
    signalled,  \* SIGINT or SIGTERM came: ctx is cancelled
    failed,     \* run() returns an error, or a goroutine of the group has
    relay, hub, worker, server, closer,   \* the goroutines of the group
    poisoned    \* the worker has panicked with its mutex held

group == <<relay, hub, worker, server, closer>>
processVars == <<stage, attempts, signalled, failed, group, poisoned>>

ProcessInit ==
    /\ stage = "connecting" /\ attempts = 0
    /\ signalled = FALSE /\ failed = FALSE
    /\ relay = "none" /\ hub = "none" /\ worker = "none" /\ server = "none" /\ closer = "none"
    /\ poisoned = FALSE

-----------------------------------------------------------------------------
(* Start.  A call that is given ctx fails once the signal has come.        *)

GoTo(s) == stage' = s /\ attempts' = 0 /\ UNCHANGED <<signalled, failed, group, poisoned>>

\* run() returns err; what it deferred so far is still to be done.
GiveUp(s) ==
    /\ stage' = s /\ attempts' = 0 /\ failed' = TRUE
    /\ UNCHANGED <<signalled, group, poisoned>>

\* Mutant: the loop never gives up.
AttemptFailsForever(n, s) ==
    attempts' = attempts + 1 /\ UNCHANGED <<stage, signalled, failed, group, poisoned>>

\* An attempt of a loop of n fails; after the last run() gives up.
AttemptFails(n, s) ==
    \/ /\ attempts + 1 < n
       /\ attempts' = attempts + 1
       /\ UNCHANGED <<stage, signalled, failed, group, poisoned>>
    \/ attempts + 1 = n /\ GiveUp(s)

ConnectPostgres ==
    /\ stage = "connecting"
    /\ \/ ~signalled /\ GoTo("migrating")
       \/ AttemptFails(PostgresAttempts, "exited")

RunMigrations ==
    /\ stage = "migrating"
    /\ GoTo("creating") \/ GiveUp("closing")

CreateTopic ==
    /\ stage = "creating"
    /\ \/ ~signalled /\ GoTo("rebuilding")
       \/ AttemptFails(TopicAttempts, "closing")

\* RebuildOrderBook, then every g.Go.
StartGroup ==
    /\ stage = "rebuilding" /\ ~signalled
    /\ stage' = "serving"
    /\ relay' = "running" /\ hub' = "running" /\ worker' = "hydrating"
    /\ server' = "listening" /\ closer' = "waiting"
    /\ UNCHANGED <<attempts, signalled, failed, poisoned>>

RebuildFails == stage = "rebuilding" /\ GiveUp("closing")

Signal ==
    /\ stage # "exited" /\ ~signalled
    /\ signalled' = TRUE
    /\ UNCHANGED <<stage, attempts, failed, group, poisoned>>

-----------------------------------------------------------------------------
(* The goroutines of the group                                             *)

\* gCtx is cancelled by the signal and by the first error.
Cancelled == signalled \/ failed

RelayStops ==
    /\ relay = "running" /\ Cancelled
    /\ relay' = "returned"
    /\ UNCHANGED <<stage, attempts, signalled, failed, hub, worker, server, closer, poisoned>>

HubStops ==
    /\ hub = "running" /\ Cancelled
    /\ hub' = "returned"
    /\ UNCHANGED <<stage, attempts, signalled, failed, relay, worker, server, closer, poisoned>>

WorkerIs(w) ==
    /\ worker' = w
    /\ UNCHANGED <<stage, attempts, signalled, failed, relay, hub, server, closer>>

\* When hydrate fails the worker returns without an error: the group goes on.
Hydrate ==
    /\ worker = "hydrating"
    /\ UNCHANGED poisoned
    /\ (~Cancelled /\ WorkerIs("fetching")) \/ WorkerIs("returned")

\* A message may still be there when the context is cancelled.
FetchMessage == worker = "fetching" /\ WorkerIs("handling") /\ UNCHANGED poisoned

WorkerStops == worker = "fetching" /\ Cancelled /\ WorkerIs("returned") /\ UNCHANGED poisoned

\* The worker waits for its own mutex and will never get it.
Stuck == worker = "handling" /\ poisoned

\* The handler locks the mutex; a settlement that fails panics with it held.
HandleMessage ==
    /\ worker = "handling" /\ ~poisoned
    /\ WorkerIs("fetching")
    /\ poisoned' \in BOOLEAN

ServerIs(s) ==
    /\ server' = s
    /\ UNCHANGED <<stage, attempts, signalled, relay, hub, worker, closer, poisoned>>

\* ListenAndServe returns an error: the address is taken, say.
ListenFails == server = "listening" /\ ServerIs("returned") /\ failed' = TRUE

\* It returns ErrServerClosed as soon as Shutdown has been called.
ServerStops ==
    /\ server = "listening" /\ closer \notin {"none", "waiting"}
    /\ ServerIs("returned") /\ UNCHANGED failed

CloserIs(c) ==
    /\ closer' = c
    /\ UNCHANGED <<stage, attempts, signalled, relay, hub, worker, server, poisoned>>

BeginShutdown == closer = "waiting" /\ Cancelled /\ CloserIs("draining") /\ UNCHANGED failed

\* Mutant: Shutdown waits without a deadline.
ShutdownPatient(busy) ==
    closer = "draining" /\ ~busy /\ CloserIs("returned") /\ UNCHANGED failed

\* Shutdown waits until no request is left, but not for longer than ten
\* seconds.
Shutdown(busy) ==
    /\ closer = "draining"
    /\ IF busy THEN CloserIs("expired") /\ failed' = TRUE
               ELSE CloserIs("returned") /\ UNCHANGED failed

\* Mutant: run() does not wait for the goroutine that calls Shutdown.
GroupDoneEarly ==
    /\ stage = "serving"
    /\ relay = "returned" /\ hub = "returned" /\ worker = "returned" /\ server = "returned"
    /\ GoTo("closing")

\* g.Wait returns.
GroupDone ==
    /\ stage = "serving"
    /\ relay = "returned" /\ hub = "returned" /\ worker = "returned" /\ server = "returned"
    /\ closer \in {"returned", "expired"}
    /\ GoTo("closing")

\* pool.Close waits for the connections that are in use.
ClosePool(querying) == stage = "closing" /\ ~querying /\ GoTo("exited")

\* A new connection is accepted, a new request on an old one answered.
Accepting == server = "listening" /\ closer = "waiting"

ProcessNext(busy, querying) ==
    \/ ConnectPostgres \/ RunMigrations \/ CreateTopic \/ StartGroup \/ RebuildFails
    \/ Signal
    \/ RelayStops \/ HubStops
    \/ Hydrate \/ FetchMessage \/ WorkerStops \/ HandleMessage
    \/ ListenFails \/ ServerStops
    \/ BeginShutdown \/ Shutdown(busy) \/ GroupDone
    \/ ClosePool(querying)

ProcessTypeOK ==
    /\ stage \in {"connecting", "migrating", "creating", "rebuilding", "serving", "closing", "exited"}
    /\ attempts \in 0 .. (IF stage = "connecting" THEN PostgresAttempts
                          ELSE IF stage = "creating" THEN TopicAttempts ELSE 1) - 1
    /\ signalled \in BOOLEAN /\ failed \in BOOLEAN /\ poisoned \in BOOLEAN
    /\ relay \in {"none", "running", "returned"} /\ hub \in {"none", "running", "returned"}
    /\ worker \in {"none", "hydrating", "fetching", "handling", "returned"}
    /\ server \in {"none", "listening", "returned"}
    /\ closer \in {"none", "waiting", "draining", "returned", "expired"}
=============================================================================
