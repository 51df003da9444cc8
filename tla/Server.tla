------------------------------ MODULE Server ------------------------------
(***************************************************************************)
(* Requests while the process starts and stops: Gateway under Process, and *)
(* the upgrades to WebSockets, which Shutdown does not wait for.  The      *)
(* clocks of Gateway stand still here.                                     *)
(* Code: cmd/api/main.go (setupRouter, run), adapters/ws/hub.go.           *)
(***************************************************************************)
EXTENDS Process, Gateway

CONSTANT Sockets   \* the requests for /ws

VARIABLE socket    \* where each of them is

vars == <<processVars, gatewayVars, socket>>

Init == ProcessInit /\ GatewayInit /\ socket = [s \in Sockets |-> "unsent"]

\* A handler runs.  One that has been upgraded does not count.
Busy == \E r \in Requests : req[r].stage \in {"asking", "admitted", "placing"}

\* A connection to PostgreSQL is in use.
Querying == \E r \in Requests : At(r, "placing")

-----------------------------------------------------------------------------
(* Requests                                                                *)

Alive == stage \in {"serving", "closing"}

\* setupRouter: first the token, then the limit, then the handler.  After
\* g.Wait the client of Redis is closed, and the pool closes.
Request(r) ==
    \/ Accepting /\ (Unauthorized(r) \/ Authorize(r))
    \/ stage = "serving" /\ (Allow(r) \/ AnswerLost(r) \/ CreateOrder(r) \/ Deposit(r))
    \/ Alive /\ FailOpen(r)
    \/ Alive /\ (Commit(r) \/ PlaceFails(r))

CutWith(r, code) == req' = [req EXCEPT ![r].stage = "cut", ![r].code = code]

\* The pool is closed: the handler gets no connection.
CutOff(r) ==
    /\ stage = "closing" /\ At(r, "admitted")
    /\ CutWith(r, IF IsOrder(Body[r]) /\ ~Valid(Body[r]) THEN 400 ELSE 500)
    /\ UNCHANGED <<limiterVars, rows, faults>>

-----------------------------------------------------------------------------
(* WebSockets                                                              *)

SocketIs(s, from, to) ==
    /\ Alive
    /\ socket[s] = from /\ socket' = [socket EXCEPT ![s] = to]
    /\ UNCHANGED <<processVars, gatewayVars>>

\* HandleWebSocket up to the send on the channel register, which only Run
\* receives.
Upgrade(s) == Accepting /\ SocketIs(s, "unsent", "registering")
Register(s) == hub = "running" /\ SocketIs(s, "registering", "open")

\* The read pump ends and sends on unregister.
Leave(s) == SocketIs(s, "open", "leaving")
Unregister(s) == hub = "running" /\ SocketIs(s, "leaving", "gone")

-----------------------------------------------------------------------------

\* A step of the process leaves the requests alone.
Requestless == UNCHANGED <<gatewayVars, socket>>

Next ==
    \/ ProcessNext(Busy, Querying) /\ Requestless
    \/ (\E r \in Requests : Request(r) \/ CutOff(r)) /\ UNCHANGED <<processVars, socket>>
    \/ \E s \in Sockets : Upgrade(s) \/ Register(s) \/ Leave(s) \/ Unregister(s)

\* What run() does by itself.
Main ==
    \/ ConnectPostgres \/ RunMigrations \/ CreateTopic \/ StartGroup \/ RebuildFails
    \/ GroupDone \/ ClosePool(Querying)

Fairness ==
    /\ WF_vars(Main /\ Requestless)
    /\ WF_vars(RelayStops /\ Requestless) /\ WF_vars(HubStops /\ Requestless)
    /\ WF_vars((Hydrate \/ HandleMessage) /\ Requestless)
    /\ SF_vars(WorkerStops /\ Requestless)
    /\ WF_vars((ServerStops \/ BeginShutdown) /\ Requestless)
    /\ WF_vars(Shutdown(Busy) /\ Requestless)
    /\ \A r \in Requests : WF_vars((Commit(r) \/ PlaceFails(r)) /\ Alive /\ UNCHANGED <<processVars, socket>>)

Spec == Init /\ [][Next]_vars /\ Fairness

-----------------------------------------------------------------------------
(* Properties *)

TypeOK ==
    /\ ProcessTypeOK /\ GatewayTypeOK
    /\ socket \in [Sockets -> {"unsent", "registering", "open", "leaving", "gone"}]

\* A stop that is not forced by the deadline is graceful: when run() begins to
\* close what the requests use, every request that was accepted has been
\* answered, and none was refused because the pool was closed.
StopIsGraceful ==
    stage \in {"closing", "exited"} /\ closer # "expired" =>
        ~Busy /\ \A r \in Requests : ~At(r, "cut")

\* A signal ends the process at whatever moment it comes, whoever still waits
\* for the hub or has not been answered, unless the worker waits for a mutex
\* that nobody will release.
StopsAfterSignal == signalled ~> (stage = "exited" \/ Stuck)
=============================================================================
