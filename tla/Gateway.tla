------------------------------ MODULE Gateway ------------------------------
(***************************************************************************)
(* The way of a request through the API: JWTMiddleware, RateLimitMiddleware*)
(* with its counter in Redis, the order handler, the transaction of the    *)
(* order service.  Requests are goroutines; they meet in Redis and in the  *)
(* database only.                                                          *)
(*                                                                         *)
(* A request reads the clock of the API server to name its window and runs *)
(* the script later; the key it counts in expires by Redis' own clock.     *)
(* Both clocks run at one rate; the server's may be stepped.               *)
(* Code: internal/api/{middleware,order_handler}.go,                       *)
(* adapters/redis/rate_limiter.go, services/order_service.go.              *)
(***************************************************************************)
EXTENDS Amounts, Sums, Functions

CONSTANTS
    Users,
    Requests,   \* the HTTP requests ever sent
    Sender,     \* the subject of the token each of them carries
    Body,       \* what each of them asks for: an order or a deposit
    Window,     \* the length of a window in ticks (time.Minute)
    Limit,      \* how many requests a window allows (1000)
    MaxDelay,   \* how long a call to Redis may take before the client gives up
    MaxTime,    \* bound: how many ticks pass
    MaxFaults   \* bound: how many faults strike

ASSUME GatewayAssumption ==
    /\ IsFiniteSet(Requests)
    /\ Sender \in [Requests -> Users]
    /\ Body \in [Requests -> [price : Int, qty : Int] \cup [amount : Nat \ {0}]]
    /\ Window \in Nat \ {0} /\ Limit \in Nat
    /\ MaxDelay \in 0 .. Window - 1
    /\ MaxTime \in Nat /\ MaxFaults \in Nat

VARIABLES
    time,       \* the clock of Redis, also the true time
    offset,     \* what the clock of the API server is ahead of it
    keys,       \* Redis: <<user, window>> -> count and expiry; expired keys are gone
    req,        \* where each request is
    rows,       \* what the committed transactions have written
    disturbed,  \* history: a clock was stepped or Redis lost its keys
    faults      \* history: how many faults have struck

limiterVars == <<time, offset, keys, disturbed>>
gatewayVars == <<limiterVars, req, rows, faults>>

\* ran: when the script last ran for the request, runs: how often it did.
Unsent == [stage |-> "unsent", win |-> 0, asked |-> 0, ran |-> 0, runs |-> 0,
           counted |-> FALSE, code |-> 0]

GatewayInit ==
    /\ time = Window /\ offset = 0 /\ keys = <<>>
    /\ req = [r \in Requests |-> Unsent]
    /\ rows = {}
    /\ disturbed = FALSE /\ faults = 0

At(r, stage) == req[r].stage = stage

Answer(r, code) == req' = [req EXCEPT ![r].stage = "answered", ![r].asked = 0, ![r].code = code]

\* Something goes wrong, which the bound allows only so often.
Fault == faults < MaxFaults /\ faults' = faults + 1

-----------------------------------------------------------------------------
(* The middlewares                                                         *)

\* JWTMiddleware refuses a token that is missing, expired or forged.
Unauthorized(r) ==
    /\ At(r, "unsent")
    /\ Answer(r, 401)
    /\ UNCHANGED <<limiterVars, rows, faults>>

\* time.Now().Truncate(window)
WindowId == (time + offset) \div Window

\* The token is good, and Allow has read the clock.
Authorize(r) ==
    /\ At(r, "unsent")
    /\ req' = [req EXCEPT ![r].stage = "asking", ![r].win = WindowId, ![r].asked = time]
    /\ UNCHANGED <<limiterVars, rows, faults>>

\* Mutant: one counter for everybody.
KeyOfAll(r) == <<"all", req[r].win>>
\* ratelimit:<user>:<window>
Key(r) == <<Sender[r], req[r].win>>

\* Mutant: the key lives for a tick less than the window.
ExpiryEarly == time + Window - 1

\* EXPIRE, set when the key is created.
Expiry == time + Window

\* The counter after INCR.
Count(r) == (IF Key(r) \in DOMAIN keys THEN keys[Key(r)].count ELSE 0) + 1

\* INCR and EXPIRE, which Redis runs as one.
RunScript(r) ==
    keys' = [k \in DOMAIN keys \cup {Key(r)} |->
               IF k # Key(r) THEN keys[k]
               ELSE [count |-> Count(r),
                     expires |-> IF Count(r) = 1 THEN Expiry ELSE keys[k].expires]]

InTime(r) == time - req[r].asked <= MaxDelay

WithinLimit(n) == n <= Limit

Counted(r) == [req[r] EXCEPT !.ran = time, !.runs = @ + 1]

\* Allow answers: the request is let through, or refused.
Allow(r) ==
    /\ At(r, "asking") /\ InTime(r)
    /\ RunScript(r)
    /\ req' = [req EXCEPT ![r] =
         IF WithinLimit(Count(r))
         THEN [Counted(r) EXCEPT !.stage = "admitted", !.asked = 0, !.counted = TRUE]
         ELSE [Counted(r) EXCEPT !.stage = "answered", !.asked = 0, !.code = 429]]
    /\ UNCHANGED <<time, offset, disturbed, rows, faults>>

\* The script runs and its answer is lost: the client asks again, or gives up
\* and the request is let through.
AnswerLost(r) ==
    /\ At(r, "asking") /\ InTime(r)
    /\ Fault
    /\ RunScript(r)
    /\ \/ req' = [req EXCEPT ![r] = Counted(r)]
       \/ req' = [req EXCEPT ![r] = [Counted(r) EXCEPT !.stage = "admitted", !.asked = 0]]
    /\ UNCHANGED <<time, offset, disturbed, rows>>

\* Redis does not answer in time, or not at all: fail-open.
FailOpen(r) ==
    /\ At(r, "asking")
    /\ IF InTime(r) THEN Fault ELSE UNCHANGED faults
    /\ req' = [req EXCEPT ![r].stage = "admitted", ![r].asked = 0]
    /\ UNCHANGED <<limiterVars, rows>>

-----------------------------------------------------------------------------
(* The handlers                                                            *)

IsOrder(b) == "price" \in DOMAIN b

\* Mutant: a quantity of zero and one above the maximum pass.
ValidLoose(b) == b.qty >= 0 /\ b.price > 0

Valid(b) == b.qty > 0 /\ b.price > 0 /\ b.qty <= MaxQuantity

Proceed(r) == req' = [req EXCEPT ![r].stage = "placing"]

\* CreateOrder up to the call of the service.
CreateOrder(r) ==
    /\ At(r, "admitted") /\ IsOrder(Body[r])
    /\ IF Valid(Body[r]) THEN Proceed(r) ELSE Answer(r, 400)
    /\ UNCHANGED <<limiterVars, rows, faults>>

\* Deposit up to the call of the service: the amount is not checked.
Deposit(r) ==
    /\ At(r, "admitted") /\ ~IsOrder(Body[r])
    /\ Proceed(r)
    /\ UNCHANGED <<limiterVars, rows, faults>>

\* What the transaction of r writes.
Written(r) == [request |-> r, user |-> Sender[r], body |-> Body[r]]

\* The transaction of the service commits.
Commit(r) ==
    /\ At(r, "placing")
    /\ rows' = rows \cup {Written(r)}
    /\ Answer(r, IF IsOrder(Body[r]) THEN 201 ELSE 200)
    /\ UNCHANGED <<limiterVars, faults>>

\* It fails, or only seems to.
PlaceFails(r) ==
    /\ At(r, "placing")
    /\ Fault
    /\ rows' \in {rows, rows \cup {Written(r)}}
    /\ Answer(r, 500)
    /\ UNCHANGED limiterVars

-----------------------------------------------------------------------------
(* Time and Redis                                                          *)

Tick ==
    /\ time < MaxTime
    /\ time' = time + 1
    /\ keys' = Restrict(keys, {k \in DOMAIN keys : keys[k].expires > time'})
    /\ UNCHANGED <<offset, disturbed, req, rows, faults>>

\* The clock of the API server is set.
ClockSteps ==
    /\ Fault
    /\ \E d \in {-1, 1} : offset' = offset + d
    /\ disturbed' = TRUE
    /\ UNCHANGED <<time, keys, req, rows>>

\* Redis restarts without its keys.
RedisRestarts ==
    /\ Fault
    /\ keys' = <<>>
    /\ disturbed' = TRUE
    /\ UNCHANGED <<time, offset, req, rows>>

GatewayStep(r) ==
    \/ Unauthorized(r) \/ Authorize(r) \/ Allow(r) \/ AnswerLost(r) \/ FailOpen(r)
    \/ CreateOrder(r) \/ Deposit(r) \/ Commit(r) \/ PlaceFails(r)

GatewayNext ==
    \/ \E r \in Requests : GatewayStep(r)
    \/ Tick \/ ClockSteps \/ RedisRestarts

GatewaySpec == GatewayInit /\ [][GatewayNext]_gatewayVars

-----------------------------------------------------------------------------
(* Properties *)

GatewayTypeOK ==
    /\ time \in Nat /\ offset \in Int
    /\ \A k \in DOMAIN keys : keys[k] \in [count : Nat \ {0}, expires : time + 1 .. time + Window]
    /\ \A r \in Requests :
         /\ req[r].stage \in {"unsent", "asking", "admitted", "placing", "answered", "cut"}
         /\ req[r].code \in {0, 200, 201, 400, 401, 429, 500}
    /\ disturbed \in BOOLEAN /\ faults \in 0 .. MaxFaults

\* The requests let through that were counted within the window they name.
WithinWindow(u, w) ==
    {r \in Requests : /\ req[r].counted /\ Sender[r] = u /\ req[r].win = w
                      /\ req[r].ran \div Window = w}

\* They are no more than the limit allows: a key is never created anew while
\* its window lasts.
QuotaHolds ==
    ~disturbed =>
        \A u \in Users, w \in {req[r].win : r \in Requests} :
            Cardinality(WithinWindow(u, w)) <= Limit

\* How often the script has run for user u and window w.
Runs(u, w) == Sum([r \in Requests |-> IF Sender[r] = u /\ req[r].win = w THEN req[r].runs ELSE 0])

\* Nobody is refused because of others: before a request is refused the script
\* has run for that user and window more often than the limit says.
RefusedHadTheirQuota ==
    \A r \in Requests : req[r].code = 429 => Runs(Sender[r], req[r].win) > Limit

\* A client that is told of success has its order or deposit in the database
\* as it sent it, once; one that is refused has not; and no order is there
\* that the handler should not have let pass.
AnswersAreTrue ==
    /\ \A r \in Requests :
         LET mine == {o \in rows : o.request = r}
         IN  /\ req[r].code \in {200, 201} => mine = {Written(r)}
             /\ req[r].code \in {0, 400, 401, 429} => mine = {}
    /\ \A o \in rows : IsOrder(o.body) => o.body.price > 0 /\ o.body.qty \in 1 .. MaxQuantity

\* The worker locks what a bid costs as long as the amount itself fits an
\* int64, whatever the product; hydrate agrees as long as the product fits.
LocksAreExact ==
    \A b \in {o.body : o \in rows} :
        LET exact == (b.price * b.qty) \div Decimals
        IN  IsOrder(b) =>
              /\ exact <= MaxInt64 => LockAmount(b.price, b.qty) = exact
              /\ b.price * b.qty <= MaxInt64 =>
                   RestoredLock(b.price, b.qty) = LockAmount(b.price, b.qty)
=============================================================================
