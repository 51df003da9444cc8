---------------------------- MODULE ServerProofs ----------------------------
(***************************************************************************)
(* What TLAPS proves about Gateway and about Server, which composes it     *)
(* with Process: for any number of requests, users and sockets, any limit  *)
(* and window, any delays and any number of faults and of attempts to      *)
(* reach PostgreSQL and Kafka.  The first sections are about Gateway.      *)
(***************************************************************************)
EXTENDS Server, SumTheorems, TLAPS

-----------------------------------------------------------------------------
(* Types *)

Stages == {"unsent", "asking", "admitted", "placing", "answered", "cut"}
Codes == {0, 200, 201, 400, 401, 429, 500}
RequestState == [stage : Stages, win : Int, asked : Int, ran : Int, runs : Nat,
            counted : BOOLEAN, code : Codes]
Entry == [count : Nat \ {0}, expires : Int]

ReqType == req \in [Requests -> RequestState]

KeysType ==
    /\ DOMAIN keys \subseteq Users \X Int
    /\ \A k \in DOMAIN keys : keys[k] \in Entry

Types ==
    /\ ReqType /\ KeysType
    /\ time \in Nat /\ offset \in Int /\ disturbed \in BOOLEAN

\* A request asks for an order or for a deposit.
LEMMA Bodies ==
    ASSUME NEW r \in Requests, IsOrder(Body[r])
    PROVE  Body[r].price \in Int /\ Body[r].qty \in Int
<1>1. Body[r] \in [price : Int, qty : Int] \/ Body[r] \in [amount : Nat \ {0}]
  BY GatewayAssumption
<1> QED
  BY <1>1 DEF IsOrder

\* Windows have numbers.
LEMMA WindowType == Types => WindowId \in Int
  <1> SUFFICES ASSUME Types PROVE WindowId \in Int
    OBVIOUS
  <1>1. time + offset \in Int /\ Window \in Nat \ {0}
    BY GatewayAssumption DEF Types
  <1> QED
    BY <1>1, Z3 DEF WindowId

\* The key of a request that asks is a key.
LEMMA KeyType ==
    ASSUME Types, NEW r \in Requests
    PROVE  Key(r) \in Users \X Int /\ Count(r) \in Nat \ {0}
<1>1. req[r].win \in Int /\ Sender[r] \in Users
  BY GatewayAssumption DEF Types, ReqType, RequestState
<1>2. Key(r) \in DOMAIN keys => keys[Key(r)].count \in Nat \ {0}
  BY DEF Types, KeysType, Entry
<1> QED
  BY <1>1, <1>2 DEF Key, Count

\* The script keeps the type of the keys.
LEMMA ScriptType ==
    ASSUME Types, NEW r \in Requests, RunScript(r)
    PROVE  /\ DOMAIN keys' = DOMAIN keys \cup {Key(r)}
           /\ \A k \in DOMAIN keys : k # Key(r) => keys'[k] = keys[k]
           /\ keys'[Key(r)].count = Count(r)
           /\ Key(r) \in DOMAIN keys => keys'[Key(r)].expires = keys[Key(r)].expires
           /\ Key(r) \notin DOMAIN keys => Count(r) = 1 /\ keys'[Key(r)].expires = time + Window
           /\ KeysType'
<1>1. Key(r) \in Users \X Int /\ Count(r) \in Nat \ {0}
  BY KeyType
<1>2. /\ DOMAIN keys' = DOMAIN keys \cup {Key(r)}
      /\ \A k \in DOMAIN keys : k # Key(r) => keys'[k] = keys[k]
      /\ keys'[Key(r)] = [count |-> Count(r),
                          expires |-> IF Count(r) = 1 THEN Expiry ELSE keys[Key(r)].expires]
  BY DEF RunScript
<1>3. Expiry = time + Window /\ Expiry \in Int
  BY GatewayAssumption DEF Expiry, Types
<1>4. CASE Key(r) \in DOMAIN keys
  <2>1. keys[Key(r)].count \in Nat \ {0} /\ keys[Key(r)].expires \in Int
    BY <1>4 DEF Types, KeysType, Entry
  <2>2. Count(r) # 1
    BY <1>4, <2>1 DEF Count
  <2>3. keys'[Key(r)] \in Entry
    BY <1>1, <1>2, <2>1, <2>2 DEF Entry
  <2> QED
    BY <1>1, <1>2, <1>4, <2>2, <2>3 DEF Types, KeysType
<1>5. CASE Key(r) \notin DOMAIN keys
  <2>1. Count(r) = 1
    BY <1>5 DEF Count
  <2>2. keys'[Key(r)] \in Entry
    BY <1>1, <1>2, <1>3, <2>1 DEF Entry
  <2> QED
    BY <1>1, <1>2, <1>3, <1>5, <2>1, <2>2 DEF Types, KeysType
<1> QED
  BY <1>4, <1>5

\* A request stays one when a field of it changes.
LEMMA SetStage ==
    ASSUME NEW x \in RequestState, NEW n \in Stages PROVE [x EXCEPT !.stage = n] \in RequestState
  BY DEF RequestState
LEMMA SetWin ==
    ASSUME NEW x \in RequestState, NEW n \in Int PROVE [x EXCEPT !.win = n] \in RequestState
  BY DEF RequestState
LEMMA SetAsked ==
    ASSUME NEW x \in RequestState, NEW n \in Int PROVE [x EXCEPT !.asked = n] \in RequestState
  BY DEF RequestState
LEMMA SetRan ==
    ASSUME NEW x \in RequestState, NEW n \in Int PROVE [x EXCEPT !.ran = n] \in RequestState
  BY DEF RequestState
LEMMA SetRuns ==
    ASSUME NEW x \in RequestState, NEW n \in Nat PROVE [x EXCEPT !.runs = n] \in RequestState
  BY DEF RequestState
LEMMA SetCounted ==
    ASSUME NEW x \in RequestState, NEW n \in BOOLEAN PROVE [x EXCEPT !.counted = n] \in RequestState
  BY DEF RequestState
LEMMA SetCode ==
    ASSUME NEW x \in RequestState, NEW n \in Codes PROVE [x EXCEPT !.code = n] \in RequestState
  BY DEF RequestState

\* It goes to another stage and has nothing asked any more.
LEMMA SetStageAsked ==
    ASSUME NEW x \in RequestState, NEW s \in Stages
    PROVE  [x EXCEPT !.stage = s, !.asked = 0] \in RequestState
<1>1. PICK y : y = [x EXCEPT !.stage = s]
  OBVIOUS
<1>2. y \in RequestState
  BY <1>1, SetStage
<1>3. [y EXCEPT !.asked = 0] \in RequestState
  BY <1>2, SetAsked
<1> QED
  BY <1>1, <1>3

\* One request changes, and stays a request.
LEMMA OneChanges ==
    ASSUME ReqType, NEW r \in Requests, NEW q \in RequestState, req' = [req EXCEPT ![r] = q]
    PROVE  /\ ReqType'
           /\ req'[r] = q
           /\ \A s \in Requests : s # r => req'[s] = req[s]
  BY DEF ReqType

\* RequestState r goes to stage s and gets code n, the others stay.
Moves(r, s, n) ==
    /\ ReqType'
    /\ req'[r].stage = s /\ req'[r].code = n
    /\ req'[r].win = req[r].win /\ req'[r].ran = req[r].ran
    /\ req'[r].runs = req[r].runs /\ req'[r].counted = req[r].counted
    /\ \A q \in Requests : q # r => req'[q] = req[q]

\* An answer, the way to the service, and a failed call of Redis as moves.
LEMMA AnswerMoves ==
    ASSUME ReqType, NEW r \in Requests, NEW n \in Codes, Answer(r, n)
    PROVE  Moves(r, "answered", n)
<1>1. PICK x \in RequestState : x = req[r]
  BY DEF ReqType
<1>2. PICK y : y = [x EXCEPT !.stage = "answered", !.asked = 0]
  OBVIOUS
<1>3. PICK q : q = [y EXCEPT !.code = n]
  OBVIOUS
<1>4. y \in RequestState /\ q \in RequestState
  BY <1>2, <1>3, SetStageAsked, SetCode DEF Stages
<1>5. req' = [req EXCEPT ![r] = q]
  BY <1>1, <1>2, <1>3 DEF Answer, ReqType, RequestState
<1>6. /\ q.stage = "answered" /\ q.code = n
      /\ q.win = x.win /\ q.ran = x.ran /\ q.runs = x.runs /\ q.counted = x.counted
  BY <1>2, <1>3 DEF RequestState
<1> QED
  BY <1>1, <1>4, <1>5, <1>6, OneChanges DEF Moves

LEMMA ProceedMoves ==
    ASSUME ReqType, NEW r \in Requests, Proceed(r)
    PROVE  Moves(r, "placing", req[r].code)
<1>1. PICK x \in RequestState : x = req[r]
  BY DEF ReqType
<1>2. PICK q : q = [x EXCEPT !.stage = "placing"]
  OBVIOUS
<1>3. q \in RequestState
  BY <1>2, SetStage DEF Stages
<1>4. req' = [req EXCEPT ![r] = q]
  BY <1>1, <1>2 DEF Proceed, ReqType, RequestState
<1>5. /\ q.stage = "placing" /\ q.code = x.code
      /\ q.win = x.win /\ q.ran = x.ran /\ q.runs = x.runs /\ q.counted = x.counted
  BY <1>2 DEF RequestState
<1> QED
  BY <1>1, <1>3, <1>4, <1>5, OneChanges DEF Moves

LEMMA FailOpenMoves ==
    ASSUME ReqType, NEW r \in Requests, FailOpen(r)
    PROVE  Moves(r, "admitted", req[r].code)
<1>1. PICK x \in RequestState : x = req[r]
  BY DEF ReqType
<1>2. PICK q : q = [x EXCEPT !.stage = "admitted", !.asked = 0]
  OBVIOUS
<1>3. q \in RequestState
  BY <1>2, SetStageAsked DEF Stages
<1>4. req' = [req EXCEPT ![r] = q]
  BY <1>1, <1>2 DEF FailOpen, ReqType, RequestState
<1>5. /\ q.stage = "admitted" /\ q.code = x.code
      /\ q.win = x.win /\ q.ran = x.ran /\ q.runs = x.runs /\ q.counted = x.counted
  BY <1>2 DEF RequestState
<1> QED
  BY <1>1, <1>3, <1>4, <1>5, OneChanges DEF Moves

\* A request that goes to Redis names its window.
LEMMA AuthorizeMoves ==
    ASSUME Types, NEW r \in Requests, Authorize(r)
    PROVE  /\ ReqType'
           /\ req'[r].stage = "asking" /\ req'[r].code = req[r].code /\ req'[r].win = WindowId
           /\ req'[r].ran = req[r].ran /\ req'[r].runs = req[r].runs
           /\ req'[r].counted = req[r].counted
           /\ \A s \in Requests : s # r => req'[s] = req[s]
<1>1. PICK x \in RequestState : x = req[r]
  BY DEF Types, ReqType
<1>2. PICK y : y = [x EXCEPT !.stage = "asking"]
  OBVIOUS
<1>3. PICK z : z = [y EXCEPT !.win = WindowId]
  OBVIOUS
<1>4. PICK q : q = [z EXCEPT !.asked = time]
  OBVIOUS
<1>5. y \in RequestState
  BY <1>2, SetStage DEF Stages
<1>6. z \in RequestState
  BY <1>3, <1>5, WindowType, SetWin
<1>7. q \in RequestState
  BY <1>4, <1>6, SetAsked DEF Types
<1>8. req' = [req EXCEPT ![r] = q]
  BY <1>1, <1>2, <1>3, <1>4 DEF Authorize, Types, ReqType, RequestState
<1>9. /\ q.stage = "asking" /\ q.code = x.code /\ q.win = WindowId
      /\ q.ran = x.ran /\ q.runs = x.runs /\ q.counted = x.counted
  BY <1>2, <1>3, <1>4 DEF RequestState
<1> QED
  BY <1>1, <1>7, <1>8, <1>9, OneChanges DEF Types

\* The script ran for r, which was counted or not, and went on or was refused.
LEMMA AskMoves ==
    ASSUME Types, NEW r \in Requests, Allow(r) \/ AnswerLost(r)
    PROVE  /\ ReqType'
           /\ req'[r].win = req[r].win /\ req'[r].ran = time /\ req'[r].runs = req[r].runs + 1
           /\ \/ /\ Allow(r) /\ WithinLimit(Count(r))
                 /\ req'[r].stage = "admitted" /\ req'[r].counted = TRUE /\ req'[r].code = req[r].code
              \/ /\ Allow(r) /\ ~WithinLimit(Count(r))
                 /\ req'[r].stage = "answered" /\ req'[r].counted = req[r].counted /\ req'[r].code = 429
              \/ /\ AnswerLost(r)
                 /\ req'[r].stage \in {"asking", "admitted"} /\ req'[r].counted = req[r].counted
                 /\ req'[r].code = req[r].code
           /\ \A s \in Requests : s # r => req'[s] = req[s]
<1>1. req[r] \in RequestState /\ ReqType /\ time \in Int
  BY DEF Types, ReqType
<1>2. PICK c : c = Counted(r)
  OBVIOUS
<1>3. /\ c \in RequestState /\ c.ran = time /\ c.runs = req[r].runs + 1
      /\ c.stage = req[r].stage /\ c.win = req[r].win
      /\ c.counted = req[r].counted /\ c.code = req[r].code
  <2>1. PICK x \in RequestState : x = req[r]
    BY <1>1
  <2>2. PICK y : y = [x EXCEPT !.ran = time]
    OBVIOUS
  <2>3. y \in RequestState /\ y.runs = x.runs /\ y.runs + 1 \in Nat
    BY <1>1, <2>2, SetRan DEF RequestState
  <2>4. c = [y EXCEPT !.runs = y.runs + 1]
    BY <1>2, <2>1, <2>2 DEF Counted, RequestState
  <2>5. c \in RequestState
    BY <2>3, <2>4, SetRuns
  <2> QED
    BY <2>1, <2>2, <2>3, <2>4, <2>5 DEF RequestState
<1>4. CASE Allow(r) /\ WithinLimit(Count(r))
  <2>1. PICK y : y = [c EXCEPT !.stage = "admitted", !.asked = 0]
    OBVIOUS
  <2>2. PICK q : q = [y EXCEPT !.counted = TRUE]
    OBVIOUS
  <2>3. y \in RequestState /\ q \in RequestState
    BY <1>3, <2>1, <2>2, SetStageAsked, SetCounted DEF Stages
  <2>4. req' = [req EXCEPT ![r] = q]
    BY <1>2, <1>3, <1>4, <2>1, <2>2 DEF Allow, RequestState
  <2>5. /\ q.stage = "admitted" /\ q.counted = TRUE /\ q.code = c.code
        /\ q.win = c.win /\ q.ran = c.ran /\ q.runs = c.runs
    BY <1>3, <2>1, <2>2 DEF RequestState
  <2> QED
    BY <1>1, <1>3, <1>4, <2>3, <2>4, <2>5, OneChanges
<1>5. CASE Allow(r) /\ ~WithinLimit(Count(r))
  <2>1. PICK y : y = [c EXCEPT !.stage = "answered", !.asked = 0]
    OBVIOUS
  <2>2. PICK q : q = [y EXCEPT !.code = 429]
    OBVIOUS
  <2>3. y \in RequestState /\ 429 \in Codes
    BY <1>3, <2>1, SetStageAsked DEF Stages, Codes
  <2>6. q \in RequestState
    BY <2>2, <2>3, SetCode
  <2>4. req' = [req EXCEPT ![r] = q]
    BY <1>2, <1>3, <1>5, <2>1, <2>2 DEF Allow, RequestState
  <2>5. /\ q.stage = "answered" /\ q.counted = c.counted /\ q.code = 429
        /\ q.win = c.win /\ q.ran = c.ran /\ q.runs = c.runs
    BY <1>3, <2>1, <2>2 DEF RequestState
  <2> QED
    BY <1>1, <1>3, <1>5, <2>4, <2>5, <2>6, OneChanges
<1>6. CASE AnswerLost(r)
  <2>1. c.stage = "asking"
    BY <1>3, <1>6 DEF AnswerLost, At
  <2>2. CASE req' = [req EXCEPT ![r] = c]
    BY <1>1, <1>3, <1>6, <2>1, <2>2, OneChanges
  <2>3. CASE req' = [req EXCEPT ![r] = [c EXCEPT !.stage = "admitted", !.asked = 0]]
    <3>1. PICK q : q = [c EXCEPT !.stage = "admitted", !.asked = 0]
      OBVIOUS
    <3>2. q \in RequestState
      BY <1>3, <3>1, SetStageAsked DEF Stages
    <3>3. /\ q.stage = "admitted" /\ q.counted = c.counted /\ q.code = c.code
          /\ q.win = c.win /\ q.ran = c.ran /\ q.runs = c.runs
      BY <1>3, <3>1 DEF RequestState
    <3>4. req' = [req EXCEPT ![r] = q]
      BY <2>3, <3>1
    <3> QED
      BY <1>1, <1>3, <1>6, <3>2, <3>3, <3>4, OneChanges
  <2> QED
    BY <1>2, <1>6, <2>2, <2>3 DEF AnswerLost
<1> QED
  BY <1>4, <1>5, <1>6

\* The handler of an order goes on with a valid one only.
OrderMoves(r) ==
    IF Valid(Body[r]) THEN Moves(r, "placing", req[r].code) ELSE Moves(r, "answered", 400)

\* An action of a request, by what it does to the request.
LEMMA StepMoves ==
    ASSUME Types, NEW r \in Requests, GatewayStep(r)
    PROVE  \/ Unauthorized(r) /\ Moves(r, "answered", 401)
           \/ Authorize(r)
           \/ Allow(r) \/ AnswerLost(r)
           \/ FailOpen(r) /\ Moves(r, "admitted", req[r].code)
           \/ CreateOrder(r) /\ OrderMoves(r)
           \/ Deposit(r) /\ Moves(r, "placing", req[r].code)
           \/ Commit(r) /\ (Moves(r, "answered", 201) \/ Moves(r, "answered", 200))
           \/ PlaceFails(r) /\ Moves(r, "answered", 500)
<1> USE DEF Types
<1>0. 401 \in Codes /\ 400 \in Codes /\ 200 \in Codes /\ 201 \in Codes /\ 500 \in Codes
  BY DEF Codes
<1>1. Unauthorized(r) => Moves(r, "answered", 401)
  BY <1>0, AnswerMoves DEF Unauthorized
<1>2. FailOpen(r) => Moves(r, "admitted", req[r].code)
  BY FailOpenMoves
<1>3. CreateOrder(r) => OrderMoves(r)
  <2>1. CASE CreateOrder(r) /\ Valid(Body[r])
    BY <2>1, ProceedMoves DEF CreateOrder, OrderMoves
  <2>2. CASE CreateOrder(r) /\ ~Valid(Body[r])
    BY <1>0, <2>2, AnswerMoves DEF CreateOrder, OrderMoves
  <2> QED
    BY <2>1, <2>2
<1>4. Deposit(r) => Moves(r, "placing", req[r].code)
  BY ProceedMoves DEF Deposit
<1>5. Commit(r) => Moves(r, "answered", 201) \/ Moves(r, "answered", 200)
  BY <1>0, AnswerMoves DEF Commit
<1>6. PlaceFails(r) => Moves(r, "answered", 500)
  BY <1>0, AnswerMoves DEF PlaceFails
<1> QED
  BY <1>1, <1>2, <1>3, <1>4, <1>5, <1>6 DEF GatewayStep

\* The types hold initially, and a step keeps them.
LEMMA TypesInit == GatewayInit => Types
<1> SUFFICES ASSUME GatewayInit PROVE Types
  OBVIOUS
<1>1. Unsent \in RequestState
  BY DEF Unsent, RequestState, Stages, Codes
<1>2. ReqType
  BY <1>1 DEF GatewayInit, ReqType
<1>3. DOMAIN keys = {}
  BY DEF GatewayInit
<1>4. KeysType
  BY <1>3 DEF KeysType
<1>5. Window \in Nat
  BY GatewayAssumption
<1>6. time \in Nat
  BY <1>5 DEF GatewayInit
<1>7. offset \in Int
  BY DEF GatewayInit
<1>8. disturbed \in BOOLEAN
  BY Zenon DEF GatewayInit
<1> QED
  BY <1>2, <1>4, <1>6, <1>7, <1>8 DEF Types

LEMMA TypesStep == Types /\ [GatewayNext]_gatewayVars => Types'
<1> SUFFICES ASSUME Types, [GatewayNext]_gatewayVars PROVE Types'
  OBVIOUS
<1>1. ASSUME NEW r \in Requests, GatewayStep(r) PROVE Types'
  <2>1. CASE Authorize(r)
    BY <2>1, AuthorizeMoves DEF Authorize, limiterVars, Types, KeysType
  <2>2. CASE Allow(r) \/ AnswerLost(r)
    <3>1. RunScript(r) /\ UNCHANGED <<time, offset, disturbed>>
      BY <2>2 DEF Allow, AnswerLost
    <3> QED
      BY <2>2, <3>1, AskMoves, ScriptType DEF Types
  <2>3. CASE ReqType' /\ UNCHANGED limiterVars
    BY <2>3 DEF limiterVars, Types, KeysType
  <2> QED
    BY <1>1, <2>1, <2>2, <2>3, StepMoves
       DEF Moves, OrderMoves, Unauthorized, FailOpen, CreateOrder, Deposit, Commit, PlaceFails
<1>2. CASE Tick
  BY <1>2 DEF Tick, Restrict, Types, ReqType, KeysType
<1>3. CASE ClockSteps
  BY <1>3 DEF ClockSteps, Types, ReqType, KeysType
<1>4. CASE RedisRestarts
  <2>1. DOMAIN keys' = {}
    BY <1>4 DEF RedisRestarts
  <2> QED
    BY <1>4, <2>1 DEF RedisRestarts, Types, ReqType, KeysType
<1>5. CASE UNCHANGED gatewayVars
  BY <1>5 DEF gatewayVars, limiterVars, Types, ReqType, KeysType
<1> QED
  BY <1>1, <1>2, <1>3, <1>4, <1>5 DEF GatewayNext

-----------------------------------------------------------------------------
(* Answers *)

\* What is in the database was written by an answered request that the
\* handler let pass; what was answered with success is there.
AnswersInv ==
    /\ \A r \in Requests : At(r, "placing") /\ IsOrder(Body[r]) => Valid(Body[r])
    /\ \A r \in Requests : ~At(r, "answered") => req[r].code = 0
    /\ \A r \in Requests : req[r].code \in {200, 201} => Written(r) \in rows
    /\ \A o \in rows : \E r \in Requests :
         /\ o = Written(r) /\ At(r, "answered") /\ req[r].code \in {200, 201, 500}
         /\ IsOrder(Body[r]) => Valid(Body[r])

\* Nothing is answered and nothing written at first.
LEMMA AnswersInit == GatewayInit => AnswersInv
  BY DEF GatewayInit, AnswersInv, At, Unsent

\* A request that stays without an answer, or gets one that is no success,
\* leaves the database alone.
LEMMA AnswersKept ==
    ASSUME AnswersInv, NEW r \in Requests, ~At(r, "answered"), rows' = rows,
           \A q \in Requests : q # r => req'[q] = req[q],
           req'[r].stage # "answered" => req'[r].code = 0,
           req'[r].stage = "placing" /\ IsOrder(Body[r]) => Valid(Body[r]),
           req'[r].code \notin {200, 201}
    PROVE  AnswersInv'
<1>1. \A o \in rows' : \E q \in Requests :
         /\ q # r
         /\ o = Written(q) /\ At(q, "answered") /\ req[q].code \in {200, 201, 500}
         /\ IsOrder(Body[q]) => Valid(Body[q])
  BY DEF AnswersInv
<1> QED
  BY <1>1 DEF AnswersInv, At, Written

\* A step keeps AnswersInv: only Commit and PlaceFails write.
LEMMA AnswersStep == Types /\ AnswersInv /\ [GatewayNext]_gatewayVars => AnswersInv'
<1> SUFFICES ASSUME Types, AnswersInv, [GatewayNext]_gatewayVars PROVE AnswersInv'
  OBVIOUS
<1> USE DEF At
<1>1. ASSUME NEW r \in Requests, GatewayStep(r) PROVE AnswersInv'
  <2>0. ~At(r, "answered") => req[r].code = 0
    BY DEF AnswersInv
  <2>1. CASE Unauthorized(r) /\ Moves(r, "answered", 401)
    BY <2>1, AnswersKept DEF Unauthorized, Moves
  <2>2. CASE Authorize(r)
    <3>1. ~At(r, "answered") /\ rows' = rows
      BY <2>2 DEF Authorize
    <3>2. req'[r].stage = "asking" /\ req'[r].code = 0
      BY <2>0, <2>2, <3>1, AuthorizeMoves
    <3> QED
      BY <2>2, <3>1, <3>2, AnswersKept, AuthorizeMoves
  <2>3. CASE Allow(r) \/ AnswerLost(r)
    <3>1. ~At(r, "answered") /\ rows' = rows
      BY <2>3 DEF Allow, AnswerLost
    <3>2. /\ \/ req'[r].stage = "answered" /\ req'[r].code = 429
             \/ req'[r].stage \in {"asking", "admitted"} /\ req'[r].code = 0
          /\ \A q \in Requests : q # r => req'[q] = req[q]
      BY <2>0, <2>3, <3>1, AskMoves
    <3> QED
      BY <3>1, <3>2, AnswersKept
  <2>4. CASE FailOpen(r) /\ Moves(r, "admitted", req[r].code)
    <3>1. ~At(r, "answered") /\ rows' = rows
      BY <2>4 DEF FailOpen
    <3> QED
      BY <2>0, <2>4, <3>1, AnswersKept DEF Moves
  <2>5. CASE CreateOrder(r) /\ OrderMoves(r)
    <3>1. ~At(r, "answered") /\ rows' = rows
      BY <2>5 DEF CreateOrder
    <3> QED
      BY <2>0, <2>5, <3>1, AnswersKept DEF OrderMoves, Moves
  <2>7. CASE Deposit(r) /\ Moves(r, "placing", req[r].code)
    <3>1. ~At(r, "answered") /\ rows' = rows
      BY <2>7 DEF Deposit
    <3> QED
      BY <2>0, <2>7, <3>1, AnswersKept DEF Deposit, Moves
  <2>8. CASE Commit(r) /\ (Moves(r, "answered", 201) \/ Moves(r, "answered", 200))
    BY <2>8 DEF Commit, Moves, AnswersInv, Written
  <2>9. CASE PlaceFails(r) /\ Moves(r, "answered", 500)
    BY <2>9 DEF PlaceFails, Moves, AnswersInv, Written
  <2> QED
    BY <1>1, <2>1, <2>2, <2>3, <2>4, <2>5, <2>7, <2>8, <2>9, StepMoves
<1>2. CASE UNCHANGED <<req, rows>>
  BY <1>2 DEF AnswersInv, Written
<1> QED
  BY <1>1, <1>2 DEF GatewayNext, gatewayVars, Tick, ClockSteps, RedisRestarts

\* What AnswersInv says of every row is what clients are told.
LEMMA AnswersImplied == AnswersInv => AnswersAreTrue
<1> SUFFICES ASSUME AnswersInv PROVE AnswersAreTrue
  OBVIOUS
<1>1. ASSUME NEW r \in Requests
      PROVE  LET mine == {o \in rows : o.request = r}
             IN  /\ req[r].code \in {200, 201} => mine = {Written(r)}
                 /\ req[r].code \in {0, 400, 401, 429} => mine = {}
  <2>1. \A o \in rows : o.request = r => o = Written(r) /\ req[r].code \in {200, 201, 500}
    BY DEF AnswersInv, Written
  <2>2. Written(r).request = r
    BY DEF Written
  <2> QED
    BY <2>1, <2>2 DEF AnswersInv
<1>2. ASSUME NEW o \in rows, IsOrder(o.body)
      PROVE  o.body.price > 0 /\ o.body.qty \in 1 .. MaxQuantity
  <2>1. PICK r \in Requests : o = Written(r) /\ (IsOrder(Body[r]) => Valid(Body[r]))
    BY DEF AnswersInv
  <2>2. o.body = Body[r]
    BY <2>1 DEF Written
  <2> QED
    BY <1>2, <2>1, <2>2, Bodies, WidthAssumption DEF Valid
<1> QED
  BY <1>1, <1>2 DEF AnswersAreTrue

\* A client that is told of success has its order or deposit in the database
\* as it sent it; one that is refused has not; and no order is there that
\* CreateOrder should not have let pass.
THEOREM AnswersAlwaysTrue == GatewaySpec => []AnswersAreTrue
<1>1. GatewayInit => Types /\ AnswersInv
  BY TypesInit, AnswersInit
<1>2. Types /\ AnswersInv /\ [GatewayNext]_gatewayVars => (Types /\ AnswersInv)'
  BY TypesStep, AnswersStep
<1> QED
  BY <1>1, <1>2, AnswersImplied, PTL DEF GatewaySpec

-----------------------------------------------------------------------------
(* Windows *)

\* A window later the number is one more.
LEMMA QuotientAdd ==
    ASSUME NEW t \in Nat
    PROVE  (t + Window) \div Window = (t \div Window) + 1
  BY GatewayAssumption, Z3

\* Numbers of windows do not decrease.
LEMMA QuotientMonotone ==
    ASSUME NEW s \in Int, NEW t \in Int, s <= t
    PROVE  s \div Window \in Int /\ t \div Window \in Int /\ s \div Window <= t \div Window
  BY GatewayAssumption, Z3

\* Requests that were counted keep their window; nobody else is counted.
CountedSame ==
    \A r \in Requests :
        /\ req'[r].counted = req[r].counted
        /\ req[r].counted => req'[r].win = req[r].win /\ req'[r].ran = req[r].ran

\* Without a step of a clock and a loss of keys: no request names a window to
\* come, no key outlives the window after its own, nor does it expire before
\* the end of it; and the key of the current window counts every request that
\* was let through within it.
NoFuture ==
    /\ offset = 0
    /\ \A r \in Requests :
         /\ req[r].win <= time \div Window
         /\ req[r].counted => req[r].stage \notin {"unsent", "asking"}

KeysLast == \A k \in DOMAIN keys : k[2] + 1 <= keys[k].expires \div Window

WithinLimits == \A u \in Users, w \in Int : Cardinality(WithinWindow(u, w)) <= Limit

CurrentCounted ==
    \A u \in Users, w \in Int :
        w = time \div Window =>
            IF <<u, w>> \in DOMAIN keys
            THEN Cardinality(WithinWindow(u, w)) <= keys[<<u, w>>].count
            ELSE WithinWindow(u, w) = {}

QuotaParts == NoFuture /\ KeysLast /\ WithinLimits /\ CurrentCounted

QuotaInv == ~disturbed => QuotaParts

\* The requests within a window are finitely many.
LEMMA WithinFinite ==
    ASSUME NEW u, NEW w
    PROVE  IsFiniteSet(WithinWindow(u, w)) /\ Cardinality(WithinWindow(u, w)) \in Nat
<1>1. WithinWindow(u, w) \subseteq Requests
  BY DEF WithinWindow
<1> QED
  BY <1>1, GatewayAssumption, FS_Subset, FS_CardinalityType

\* Nothing counted changes, and so no window does.
LEMMA WithinSame ==
    ASSUME CountedSame
    PROVE  \A u \in Users, w \in Int : WithinWindow(u, w)' = WithinWindow(u, w)
  BY DEF CountedSame, WithinWindow

\* No key and nobody counted at first.
LEMMA QuotaInit == GatewayInit => QuotaInv
<1> SUFFICES ASSUME GatewayInit PROVE QuotaParts
  BY DEF QuotaInv
<1>1. \A r \in Requests : req[r].win = 0 /\ req[r].counted = FALSE
  BY DEF GatewayInit, Unsent
<1>2. 0 <= time \div Window /\ time \div Window \in Int
  <2>1. time = Window /\ Window \in Nat \ {0}
    BY GatewayAssumption DEF GatewayInit
  <2> QED
    BY <2>1, Z3
<1>3. NoFuture
  BY <1>1, <1>2 DEF GatewayInit, NoFuture
<1>4. DOMAIN keys = {}
  BY DEF GatewayInit
<1>5. \A u \in Users, w \in Int : WithinWindow(u, w) = {}
  BY <1>1 DEF WithinWindow
<1>6. WithinLimits
  BY <1>5, FS_EmptySet, GatewayAssumption DEF WithinLimits
<1> QED
  BY <1>3, <1>4, <1>5, <1>6 DEF QuotaParts, KeysLast, CurrentCounted

\* A step that counts nobody and leaves Redis and the clocks alone.
LEMMA QuotaKept ==
    ASSUME QuotaParts, CountedSame, UNCHANGED limiterVars,
           \A r \in Requests :
             /\ req'[r].win <= time \div Window
             /\ req'[r].counted => req'[r].stage \notin {"unsent", "asking"}
    PROVE  QuotaParts'
<1>1. \A u \in Users, w \in Int : WithinWindow(u, w)' = WithinWindow(u, w)
  BY WithinSame
<1>2. NoFuture'
  BY DEF limiterVars, QuotaParts, NoFuture
<1>3. KeysLast'
  BY DEF limiterVars, QuotaParts, KeysLast
<1>4. WithinLimits'
  BY <1>1 DEF QuotaParts, WithinLimits
<1>5. CurrentCounted'
  BY <1>1 DEF limiterVars, QuotaParts, CurrentCounted
<1> QED
  BY <1>2, <1>3, <1>4, <1>5 DEF QuotaParts

\* A key the script creates lasts as long as the others.
LEMMA QuotaKeys ==
    ASSUME Types, QuotaParts, NEW r \in Requests, RunScript(r), UNCHANGED time
    PROVE  KeysLast'
<1>1. (time + Window) \div Window = (time \div Window) + 1 /\ time \div Window \in Int
  BY QuotientAdd, QuotientMonotone DEF Types
<1>2. req[r].win <= time \div Window /\ req[r].win \in Int
  BY DEF QuotaParts, NoFuture, Types, ReqType, RequestState
<1>3. Key(r)[2] = req[r].win
  BY DEF Key
<1>4. ASSUME NEW k \in DOMAIN keys' PROVE k[2] + 1 <= keys'[k].expires \div Window
  <2>1. CASE k \in DOMAIN keys
    <3>1. keys'[k].expires = keys[k].expires
      BY <2>1, ScriptType
    <3> QED
      BY <2>1, <3>1 DEF QuotaParts, KeysLast
  <2>2. CASE k \notin DOMAIN keys
    <3>1. k = Key(r) /\ keys'[k].expires = time + Window
      BY <1>4, <2>2, ScriptType
    <3> QED
      BY <1>1, <1>2, <1>3, <3>1
  <2> QED
    BY <2>1, <2>2
<1> QED
  BY <1>4 DEF KeysLast

\* The script runs and counts nobody.
LEMMA QuotaUncounted ==
    ASSUME Types, QuotaParts, NEW r \in Requests, RunScript(r), CountedSame,
           UNCHANGED <<time, offset>>,
           \A q \in Requests :
             /\ req'[q].win <= time \div Window
             /\ req'[q].counted => req'[q].stage \notin {"unsent", "asking"}
    PROVE  QuotaParts'
<1>1. \A u \in Users, w \in Int : WithinWindow(u, w)' = WithinWindow(u, w)
  BY WithinSame
<1>2. NoFuture'
  BY DEF QuotaParts, NoFuture
<1>3. WithinLimits'
  BY <1>1 DEF QuotaParts, WithinLimits
<1>4. ASSUME NEW u \in Users, NEW w \in Int, w = time \div Window
      PROVE  IF <<u, w>> \in DOMAIN keys'
             THEN Cardinality(WithinWindow(u, w)) <= keys'[<<u, w>>].count
             ELSE WithinWindow(u, w) = {}
  <2>1. CASE <<u, w>> \in DOMAIN keys
    <3>1. /\ Cardinality(WithinWindow(u, w)) <= keys[<<u, w>>].count
          /\ Cardinality(WithinWindow(u, w)) \in Nat
      BY <1>4, <2>1, WithinFinite DEF QuotaParts, CurrentCounted
    <3>2. keys[<<u, w>>].count \in Nat
      BY <2>1 DEF Types, KeysType, Entry
    <3>3. keys'[<<u, w>>].count \in {keys[<<u, w>>].count, keys[<<u, w>>].count + 1}
      <4>1. CASE <<u, w>> = Key(r)
        BY <2>1, <4>1, ScriptType DEF Count
      <4>2. CASE <<u, w>> # Key(r)
        BY <2>1, <4>2, ScriptType
      <4> QED
        BY <4>1, <4>2
    <3>4. <<u, w>> \in DOMAIN keys'
      BY <2>1, ScriptType
    <3> QED
      BY <3>1, <3>2, <3>3, <3>4
  <2>2. CASE <<u, w>> \notin DOMAIN keys
    <3>1. WithinWindow(u, w) = {} /\ Cardinality(WithinWindow(u, w)) = 0
      BY <1>4, <2>2, FS_EmptySet DEF QuotaParts, CurrentCounted
    <3>2. <<u, w>> \in DOMAIN keys' => keys'[<<u, w>>].count \in Nat
      BY ScriptType DEF KeysType, Entry
    <3> QED
      BY <3>1, <3>2
  <2> QED
    BY <2>1, <2>2
<1>5. CurrentCounted'
  BY <1>1, <1>4 DEF CurrentCounted
<1> QED
  BY <1>2, <1>3, <1>5, QuotaKeys DEF QuotaParts

\* The script runs and counts r.
LEMMA QuotaCounted ==
    ASSUME Types, QuotaParts, NEW r \in Requests, RunScript(r), Count(r) <= Limit,
           UNCHANGED <<time, offset>>, ~req[r].counted,
           req'[r].counted, req'[r].win = req[r].win, req'[r].ran = time,
           req'[r].stage = "admitted",
           \A q \in Requests : q # r => req'[q] = req[q]
    PROVE  QuotaParts'
<1> DEFINE v == Sender[r]
           x == req[r].win
<1>0. v \in Users /\ x \in Int /\ Key(r) = <<v, x>> /\ Count(r) \in Nat
  BY GatewayAssumption, KeyType DEF Types, ReqType, RequestState, Key
<1>1. \A u \in Users, w \in Int :
        WithinWindow(u, w)' = IF u = v /\ w = x /\ time \div Window = w
                              THEN WithinWindow(u, w) \cup {r} ELSE WithinWindow(u, w)
  <2> SUFFICES ASSUME NEW u \in Users, NEW w \in Int, NEW q \in Requests
               PROVE  (/\ req'[q].counted /\ Sender[q] = u /\ req'[q].win = w
                       /\ req'[q].ran \div Window = w)
                      <=> (\/ q = r /\ u = v /\ w = x /\ time \div Window = w
                           \/ /\ req[q].counted /\ Sender[q] = u /\ req[q].win = w
                              /\ req[q].ran \div Window = w)
    BY DEF WithinWindow
  <2>1. CASE q = r
    BY <2>1
  <2>2. CASE q # r
    BY <2>2
  <2> QED
    BY <2>1, <2>2
<1>2. NoFuture'
  BY DEF QuotaParts, NoFuture
<1>3. CASE time \div Window = x
  <2>1. Cardinality(WithinWindow(v, x)) < Count(r)
    <3>1. Cardinality(WithinWindow(v, x)) \in Nat
      BY WithinFinite
    <3>2. CASE Key(r) \in DOMAIN keys
      <4>1. Cardinality(WithinWindow(v, x)) <= keys[<<v, x>>].count
        BY <1>0, <1>3, <3>2 DEF QuotaParts, CurrentCounted
      <4>2. Count(r) = keys[<<v, x>>].count + 1 /\ keys[<<v, x>>].count \in Nat
        BY <1>0, <3>2 DEF Count, Types, KeysType, Entry
      <4> QED
        BY <3>1, <4>1, <4>2
    <3>3. CASE Key(r) \notin DOMAIN keys
      <4>1. WithinWindow(v, x) = {}
        BY <1>0, <1>3, <3>3 DEF QuotaParts, CurrentCounted
      <4> QED
        BY <3>3, <4>1, FS_EmptySet DEF Count
    <3> QED
      BY <3>2, <3>3
  <2>2. Cardinality(WithinWindow(v, x) \cup {r}) <= Count(r)
    <3>1. IsFiniteSet(WithinWindow(v, x)) /\ Cardinality(WithinWindow(v, x)) \in Nat
      BY WithinFinite
    <3>2. Cardinality(WithinWindow(v, x) \cup {r})
            = IF r \in WithinWindow(v, x) THEN Cardinality(WithinWindow(v, x))
              ELSE Cardinality(WithinWindow(v, x)) + 1
      BY <3>1, FS_AddElement
    <3> QED
      BY <1>0, <2>1, <3>1, <3>2
  <2>3. ASSUME NEW u \in Users, NEW w \in Int
        PROVE  Cardinality(WithinWindow(u, w)') <= Limit
    <3>1. CASE u = v /\ w = x
      <4>1. WithinWindow(u, w)' = WithinWindow(v, x) \cup {r}
        BY <1>1, <1>3, <3>1
      <4>2. Cardinality(WithinWindow(v, x) \cup {r}) \in Nat /\ Limit \in Nat
        BY <1>0, <4>1, WithinFinite, FS_AddElement, FS_CardinalityType, GatewayAssumption
      <4> QED
        BY <1>0, <2>2, <4>1, <4>2
    <3>2. CASE ~(u = v /\ w = x)
      <4>1. WithinWindow(u, w)' = WithinWindow(u, w)
        BY <1>1, <3>2
      <4> QED
        BY <4>1 DEF QuotaParts, WithinLimits
    <3> QED
      BY <3>1, <3>2
  <2>4. ASSUME NEW u \in Users, NEW w \in Int, w = time \div Window
        PROVE  IF <<u, w>> \in DOMAIN keys'
               THEN Cardinality(WithinWindow(u, w)') <= keys'[<<u, w>>].count
               ELSE WithinWindow(u, w)' = {}
    <3>1. CASE u = v
      <4>1. w = x /\ <<u, w>> = Key(r)
        BY <1>0, <1>3, <2>4, <3>1
      <4>2. WithinWindow(u, w)' = WithinWindow(v, x) \cup {r}
        BY <1>1, <1>3, <3>1, <4>1
      <4>3. <<u, w>> \in DOMAIN keys' /\ keys'[<<u, w>>].count = Count(r)
        BY <4>1, ScriptType
      <4> QED
        BY <2>2, <4>2, <4>3
    <3>2. CASE u # v
      <4>1. WithinWindow(u, w)' = WithinWindow(u, w)
        BY <1>1, <3>2
      <4>2. <<u, w>> # Key(r)
        BY <1>0, <3>2
      <4>3. /\ <<u, w>> \in DOMAIN keys' <=> <<u, w>> \in DOMAIN keys
            /\ <<u, w>> \in DOMAIN keys => keys'[<<u, w>>] = keys[<<u, w>>]
        BY <4>2, ScriptType
      <4> QED
        BY <2>4, <4>1, <4>3 DEF QuotaParts, CurrentCounted
    <3> QED
      BY <3>1, <3>2
  <2>5. WithinLimits'
    BY <2>3 DEF WithinLimits
  <2>6. CurrentCounted'
    BY <2>4 DEF CurrentCounted
  <2> QED
    BY <1>2, <2>5, <2>6, QuotaKeys DEF QuotaParts
<1>4. CASE time \div Window # x
  <2>1. \A u \in Users, w \in Int : WithinWindow(u, w)' = WithinWindow(u, w)
    BY <1>1, <1>4
  <2>2. WithinLimits'
    BY <2>1 DEF QuotaParts, WithinLimits
  <2>3. ASSUME NEW u \in Users, NEW w \in Int, w = time \div Window
        PROVE  /\ <<u, w>> \in DOMAIN keys' <=> <<u, w>> \in DOMAIN keys
               /\ <<u, w>> \in DOMAIN keys => keys'[<<u, w>>] = keys[<<u, w>>]
    <3>1. <<u, w>> # Key(r)
      BY <1>0, <1>4, <2>3
    <3> QED
      BY <3>1, ScriptType
  <2>4. CurrentCounted'
    BY <2>1, <2>3 DEF QuotaParts, CurrentCounted
  <2> QED
    BY <1>2, <2>2, <2>4, QuotaKeys DEF QuotaParts
<1> QED
  BY <1>3, <1>4

\* A tick removes no key of the window it leads to.
LEMMA QuotaTick ==
    ASSUME Types, QuotaParts, Tick
    PROVE  QuotaParts'
<1>1. /\ time' = time + 1 /\ time \in Nat /\ UNCHANGED <<offset, req>>
      /\ DOMAIN keys' = {k \in DOMAIN keys : keys[k].expires > time'}
      /\ \A k \in DOMAIN keys' : keys'[k] = keys[k]
  BY DEF Tick, Restrict, Types
<1>2. /\ time \div Window \in Int /\ time' \div Window \in Int
      /\ time \div Window <= time' \div Window
  BY <1>1, QuotientMonotone
<1>3. \A u \in Users, w \in Int : WithinWindow(u, w)' = WithinWindow(u, w)
  BY <1>1 DEF WithinWindow
<1>4. NoFuture'
  <2>1. \A r \in Requests : req[r].win \in Int
    BY DEF Types, ReqType, RequestState
  <2> QED
    BY <1>1, <1>2, <2>1 DEF QuotaParts, NoFuture
<1>5. KeysLast'
  BY <1>1 DEF QuotaParts, KeysLast
<1>6. WithinLimits'
  BY <1>3 DEF QuotaParts, WithinLimits
<1>7. ASSUME NEW u \in Users, NEW w \in Int, w = time' \div Window
      PROVE  IF <<u, w>> \in DOMAIN keys'
             THEN Cardinality(WithinWindow(u, w)) <= keys'[<<u, w>>].count
             ELSE WithinWindow(u, w) = {}
  <2>1. CASE w = time \div Window
    <3>1. CASE <<u, w>> \in DOMAIN keys
      <4>1. w + 1 <= keys[<<u, w>>].expires \div Window /\ keys[<<u, w>>].expires \in Int
        BY <3>1 DEF QuotaParts, KeysLast, Types, KeysType, Entry
      <4>2. keys[<<u, w>>].expires > time'
        <5> SUFFICES ASSUME keys[<<u, w>>].expires <= time' PROVE FALSE
          BY <1>1, <4>1
        <5>1. keys[<<u, w>>].expires \div Window <= time' \div Window
          BY <1>1, <4>1, QuotientMonotone
        <5>2. keys[<<u, w>>].expires \div Window \in Int
          BY <4>1, QuotientMonotone
        <5> QED
          BY <1>2, <1>7, <4>1, <5>1, <5>2
      <4>3. <<u, w>> \in DOMAIN keys' /\ keys'[<<u, w>>] = keys[<<u, w>>]
        BY <1>1, <3>1, <4>2
      <4> QED
        BY <2>1, <3>1, <4>3 DEF QuotaParts, CurrentCounted
    <3>2. CASE <<u, w>> \notin DOMAIN keys
      BY <1>1, <2>1, <3>2 DEF QuotaParts, CurrentCounted
    <3> QED
      BY <3>1, <3>2
  <2>2. CASE w # time \div Window
    <3>1. \A r \in Requests : req[r].win # w
      <4>1. \A r \in Requests : req[r].win \in Int /\ req[r].win <= time \div Window
        BY DEF Types, ReqType, RequestState, QuotaParts, NoFuture
      <4> QED
        BY <1>2, <1>7, <2>2, <4>1
    <3>2. WithinWindow(u, w) = {} /\ Cardinality(WithinWindow(u, w)) = 0
      BY <3>1, FS_EmptySet DEF WithinWindow
    <3>3. <<u, w>> \in DOMAIN keys' => keys'[<<u, w>>].count \in Nat
      BY <1>1 DEF Types, KeysType, Entry
    <3> QED
      BY <3>2, <3>3
  <2> QED
    BY <2>1, <2>2
<1>8. CurrentCounted'
  BY <1>3, <1>7 DEF CurrentCounted
<1> QED
  BY <1>4, <1>5, <1>6, <1>8 DEF QuotaParts

\* A request that moves counts nobody.
LEMMA QuotaMoves ==
    ASSUME Types, QuotaParts, NEW r \in Requests, NEW s \in {"admitted", "placing", "answered"},
           NEW n, Moves(r, s, n), UNCHANGED limiterVars
    PROVE  QuotaParts'
<1>1. CountedSame
  BY DEF CountedSame, Moves
<1>2. \A q \in Requests :
        /\ req'[q].win <= time \div Window
        /\ req'[q].counted => req'[q].stage \notin {"unsent", "asking"}
  BY DEF Moves, QuotaParts, NoFuture
<1> QED
  BY <1>1, <1>2, QuotaKept

\* A step that disturbs nothing keeps QuotaParts.
LEMMA QuotaStep == Types /\ QuotaInv /\ [GatewayNext]_gatewayVars => QuotaInv'
<1> SUFFICES ASSUME Types, QuotaInv, [GatewayNext]_gatewayVars, ~disturbed' PROVE QuotaParts'
  BY DEF QuotaInv
<1>1. CASE ClockSteps \/ RedisRestarts
  BY <1>1 DEF ClockSteps, RedisRestarts
<1>2. ASSUME NEW r \in Requests, GatewayStep(r) PROVE QuotaParts'
  <2>1. UNCHANGED disturbed
    BY <1>2 DEF GatewayStep, Unauthorized, Authorize, Allow, AnswerLost, FailOpen,
                CreateOrder, Deposit, Commit, PlaceFails, limiterVars
  <2>2. QuotaParts
    BY <2>1 DEF QuotaInv
  <2>3. CASE Authorize(r)
    <3>1. req[r].stage = "unsent" /\ UNCHANGED limiterVars
      BY <2>3 DEF Authorize, At
    <3>2. ~req[r].counted
      BY <2>2, <3>1 DEF QuotaParts, NoFuture
    <3>3. WindowId <= time \div Window
      <4>1. offset = 0 /\ time + 0 = time
        BY <2>2 DEF QuotaParts, NoFuture, Types
      <4>2. time \div Window \in Int
        BY QuotientMonotone DEF Types
      <4> QED
        BY <4>1, <4>2 DEF WindowId
    <3>4. CountedSame
      BY <2>3, <3>2, AuthorizeMoves DEF CountedSame
    <3>5. \A q \in Requests :
            /\ req'[q].win <= time \div Window
            /\ req'[q].counted => req'[q].stage \notin {"unsent", "asking"}
      BY <2>2, <2>3, <3>2, <3>3, AuthorizeMoves DEF QuotaParts, NoFuture
    <3> QED
      BY <2>2, <3>1, <3>4, <3>5, QuotaKept
  <2>4. CASE Allow(r) \/ AnswerLost(r)
    <3>1. req[r].stage = "asking" /\ RunScript(r) /\ UNCHANGED <<time, offset>>
      BY <2>4 DEF Allow, AnswerLost, At
    <3>2. ~req[r].counted
      BY <2>2, <3>1 DEF QuotaParts, NoFuture
    <3>3. CASE Allow(r) /\ WithinLimit(Count(r)) /\ req'[r].stage = "admitted" /\ req'[r].counted = TRUE
      <4>1. Count(r) <= Limit
        BY <3>3 DEF WithinLimit
      <4> QED
        BY <2>2, <2>4, <3>1, <3>2, <3>3, <4>1, AskMoves, QuotaCounted
    <3>4. CASE req'[r].counted = req[r].counted
      <4>1. CountedSame
        BY <2>4, <3>2, <3>4, AskMoves DEF CountedSame
      <4>2. \A q \in Requests :
              /\ req'[q].win <= time \div Window
              /\ req'[q].counted => req'[q].stage \notin {"unsent", "asking"}
        BY <2>2, <2>4, <3>2, <3>4, AskMoves DEF QuotaParts, NoFuture
      <4> QED
        BY <2>2, <3>1, <4>1, <4>2, QuotaUncounted
    <3> QED
      BY <2>4, <3>3, <3>4, AskMoves
  <2>5. ASSUME NEW s \in {"admitted", "placing", "answered"}, NEW n, Moves(r, s, n),
               UNCHANGED limiterVars
        PROVE  QuotaParts'
    BY <2>2, <2>5, QuotaMoves
  <2>6. CASE CreateOrder(r) /\ OrderMoves(r)
    BY <2>5, <2>6 DEF CreateOrder, OrderMoves
  <2>7. CASE Unauthorized(r) /\ Moves(r, "answered", 401)
    BY <2>5, <2>7 DEF Unauthorized
  <2>8. CASE FailOpen(r) /\ Moves(r, "admitted", req[r].code)
    BY <2>5, <2>8 DEF FailOpen
  <2>9. CASE Deposit(r) /\ Moves(r, "placing", req[r].code)
    BY <2>5, <2>9 DEF Deposit
  <2>10. CASE Commit(r) /\ (Moves(r, "answered", 201) \/ Moves(r, "answered", 200))
    BY <2>5, <2>10 DEF Commit
  <2>11. CASE PlaceFails(r) /\ Moves(r, "answered", 500)
    BY <2>5, <2>11 DEF PlaceFails
  <2> QED
    BY <1>2, <2>3, <2>4, <2>6, <2>7, <2>8, <2>9, <2>10, <2>11, StepMoves
<1>3. CASE Tick
  <2>1. QuotaParts
    BY <1>3 DEF Tick, QuotaInv
  <2> QED
    BY <1>3, <2>1, QuotaTick
<1>4. CASE UNCHANGED gatewayVars
  <2>1. QuotaParts /\ UNCHANGED limiterVars /\ UNCHANGED req
    BY <1>4 DEF QuotaInv, gatewayVars, limiterVars
  <2>2. CountedSame
    BY <2>1 DEF CountedSame
  <2> QED
    BY <2>1, <2>2, QuotaKept DEF QuotaParts, NoFuture
<1> QED
  BY <1>1, <1>2, <1>3, <1>4 DEF GatewayNext

\* The windows named by requests are among those the limits hold for.
LEMMA QuotaImplied == Types /\ QuotaInv => QuotaHolds
<1> SUFFICES ASSUME Types, QuotaInv, ~disturbed,
                    NEW u \in Users, NEW w \in {req[r].win : r \in Requests}
             PROVE  Cardinality(WithinWindow(u, w)) <= Limit
  BY DEF QuotaHolds
<1>1. w \in Int
  BY DEF Types, ReqType, RequestState
<1> QED
  BY <1>1 DEF QuotaInv, QuotaParts, WithinLimits

\* As long as no clock is stepped and Redis keeps its keys, no user gets more
\* requests counted and let through within a window than the limit allows.
THEOREM QuotaAlwaysHolds == GatewaySpec => []QuotaHolds
<1>1. GatewayInit => Types /\ QuotaInv
  BY TypesInit, QuotaInit
<1>2. Types /\ QuotaInv /\ [GatewayNext]_gatewayVars => (Types /\ QuotaInv)'
  BY TypesStep, QuotaStep
<1> QED
  BY <1>1, <1>2, QuotaImplied, PTL DEF GatewaySpec

-----------------------------------------------------------------------------
(* Refusals *)

\* How often the script ran for each request of user u and window w.
RunsOf(u, w) == [r \in Requests |-> IF Sender[r] = u /\ req[r].win = w THEN req[r].runs ELSE 0]

\* No counter exceeds the runs of the script for its user and window, whatever
\* happens to Redis and the clocks; who was refused saw more than the limit.
RefusedInv ==
    /\ \A k \in DOMAIN keys : keys[k].count <= Runs(k[1], k[2])
    /\ \A r \in Requests : At(r, "unsent") => req[r].runs = 0
    /\ \A r \in Requests : req[r].code = 429 => Runs(Sender[r], req[r].win) > Limit

\* The runs are numbers.
LEMMA RunsType ==
    ASSUME ReqType, NEW u, NEW w
    PROVE  RunsOf(u, w) \in [Requests -> Nat] /\ Runs(u, w) \in Nat /\ Runs(u, w) = Sum(RunsOf(u, w))
<1>1. RunsOf(u, w) \in [Requests -> Nat]
  BY DEF RunsOf, ReqType, RequestState
<1>2. Runs(u, w) = Sum(RunsOf(u, w))
  BY DEF Runs, RunsOf
<1> QED
  BY <1>1, <1>2, SumType, GatewayAssumption

\* No counter and nobody refused at first.
LEMMA RefusedInit == GatewayInit => RefusedInv
<1> SUFFICES ASSUME GatewayInit PROVE RefusedInv
  OBVIOUS
<1>1. DOMAIN keys = {}
  BY DEF GatewayInit
<1>2. \A r \in Requests : req[r].runs = 0 /\ req[r].code = 0
  BY DEF GatewayInit, Unsent
<1> QED
  BY <1>1, <1>2 DEF RefusedInv

\* The runs stay when those of every request do, and its window if it has any.
LEMMA RunsSame ==
    ASSUME \A r \in Requests :
             /\ req'[r].runs = req[r].runs
             /\ req'[r].win = req[r].win \/ req[r].runs = 0,
           NEW u, NEW w
    PROVE  Runs(u, w)' = Runs(u, w)
<1>1. \A r \in Requests :
        (IF Sender[r] = u /\ req'[r].win = w THEN req'[r].runs ELSE 0)
          = IF Sender[r] = u /\ req[r].win = w THEN req[r].runs ELSE 0
  OBVIOUS
<1>2. [r \in Requests |-> IF Sender[r] = u /\ req'[r].win = w THEN req'[r].runs ELSE 0]
        = [r \in Requests |-> IF Sender[r] = u /\ req[r].win = w THEN req[r].runs ELSE 0]
  BY <1>1
<1> QED
  BY <1>2 DEF Runs

\* The script runs once more for r, and for the user and the window of r only.
LEMMA RunsOnce ==
    ASSUME ReqType, ReqType', NEW r \in Requests,
           req'[r].win = req[r].win, req'[r].runs = req[r].runs + 1,
           \A q \in Requests : q # r => req'[q] = req[q]
    PROVE  /\ Runs(Sender[r], req[r].win)' = Runs(Sender[r], req[r].win) + 1
           /\ \A u, w : Runs(u, w)' \in Nat /\ Runs(u, w) \in Nat /\ Runs(u, w)' >= Runs(u, w)
<1>1. ASSUME NEW u, NEW w
      PROVE  Runs(u, w)' = Runs(u, w) + (IF u = Sender[r] /\ w = req[r].win THEN 1 ELSE 0)
  <2>1. PICK f \in [Requests -> Nat] : f = RunsOf(u, w) /\ Runs(u, w) = Sum(f) /\ Sum(f) \in Nat
    BY RunsType
  <2>2. PICK g \in [Requests -> Nat] : g = RunsOf(u, w)' /\ Runs(u, w)' = Sum(g)
    <3>1. RunsOf(u, w)' \in [Requests -> Nat]
      BY DEF RunsOf, ReqType, RequestState
    <3>2. Runs(u, w)' = Sum(RunsOf(u, w)')
      BY DEF Runs, RunsOf
    <3> QED
      BY <3>1, <3>2
  <2>3. \A q \in Requests \ {r} : g[q] = f[q]
    BY <2>1, <2>2 DEF RunsOf
  <2>4. Sum(g) = Sum(f) - f[r] + g[r]
    BY <2>3, SumUpdate, GatewayAssumption
  <2>5. g[r] = f[r] + (IF u = Sender[r] /\ w = req[r].win THEN 1 ELSE 0)
    BY <2>1, <2>2 DEF RunsOf
  <2>6. f[r] \in Nat /\ g[r] \in Nat
    OBVIOUS
  <2> QED
    BY <2>1, <2>2, <2>4, <2>5, <2>6
<1>2. \A u, w : Runs(u, w) \in Nat
  BY RunsType
<1> QED
  BY <1>1, <1>2

\* A step in which the script does not run and nobody is refused.
LEMMA RefusedKept ==
    ASSUME RefusedInv, DOMAIN keys' \subseteq DOMAIN keys,
           \A k \in DOMAIN keys' : keys'[k] = keys[k],
           \A r \in Requests :
             /\ req'[r].runs = req[r].runs
             /\ req'[r].win = req[r].win \/ (req[r].runs = 0 /\ req'[r].code # 429)
             /\ req'[r].stage = "unsent" => req[r].stage = "unsent"
             /\ req'[r].code = 429 => req[r].code = 429
    PROVE  RefusedInv'
<1>1. \A u, w : Runs(u, w)' = Runs(u, w)
  BY RunsSame
<1>2. \A k \in DOMAIN keys' : keys'[k].count <= Runs(k[1], k[2])'
  BY <1>1 DEF RefusedInv
<1>3. \A r \in Requests : req'[r].stage = "unsent" => req'[r].runs = 0
  BY DEF RefusedInv, At
<1>4. ASSUME NEW r \in Requests, req'[r].code = 429
      PROVE  Runs(Sender[r], req[r].win)' > Limit
  <2>1. req'[r].win = req[r].win /\ req[r].code = 429
    BY <1>4
  <2>2. Runs(Sender[r], req[r].win) > Limit
    BY <2>1 DEF RefusedInv
  <2>3. PICK w : w = req[r].win /\ w = req'[r].win
    BY <2>1
  <2>4. Runs(Sender[r], w)' = Runs(Sender[r], w)
    BY <1>1
  <2> QED
    BY <2>2, <2>3, <2>4
<1> QED
  BY <1>2, <1>3, <1>4 DEF RefusedInv, At

\* The script runs for r.
LEMMA RefusedRun ==
    ASSUME Types, ReqType', RefusedInv, NEW r \in Requests, RunScript(r),
           req'[r].win = req[r].win, req'[r].runs = req[r].runs + 1,
           req'[r].stage # "unsent",
           req'[r].code = 429 => (req[r].code = 429 \/ Count(r) > Limit),
           \A q \in Requests : q # r => req'[q] = req[q]
    PROVE  RefusedInv'
<1>1. /\ Runs(Sender[r], req[r].win)' = Runs(Sender[r], req[r].win) + 1
      /\ \A u, w : Runs(u, w)' \in Nat /\ Runs(u, w) \in Nat /\ Runs(u, w)' >= Runs(u, w)
  BY RunsOnce DEF Types
<1>2. Count(r) <= Runs(Sender[r], req[r].win)' /\ Count(r) \in Nat
  <2>1. Key(r)[1] = Sender[r] /\ Key(r)[2] = req[r].win
    BY DEF Key
  <2>2. Key(r) \in DOMAIN keys =>
          keys[Key(r)].count <= Runs(Sender[r], req[r].win) /\ keys[Key(r)].count \in Nat
    BY <2>1 DEF RefusedInv, Types, KeysType, Entry
  <2>3. Runs(Sender[r], req[r].win) \in Nat
    BY <1>1
  <2> QED
    BY <1>1, <2>2, <2>3 DEF Count
<1>3. ASSUME NEW k \in DOMAIN keys'
      PROVE  keys'[k].count <= Runs(k[1], k[2])'
  <2>1. CASE k = Key(r)
    <3>1. keys'[k].count = Count(r) /\ k[1] = Sender[r] /\ k[2] = req[r].win
      BY <2>1, ScriptType DEF Key
    <3> QED
      BY <1>2, <3>1
  <2>2. CASE k # Key(r)
    <3>1. k \in DOMAIN keys /\ keys'[k] = keys[k]
      BY <1>3, <2>2, ScriptType
    <3>2. keys[k].count \in Nat /\ keys[k].count <= Runs(k[1], k[2])
      BY <3>1 DEF RefusedInv, Types, KeysType, Entry
    <3>3. Runs(k[1], k[2])' \in Nat /\ Runs(k[1], k[2]) \in Nat /\ Runs(k[1], k[2])' >= Runs(k[1], k[2])
      BY <1>1
    <3> QED
      BY <3>1, <3>2, <3>3
  <2> QED
    BY <2>1, <2>2
<1>4. \A q \in Requests : req'[q].stage = "unsent" => req'[q].runs = 0
  BY DEF RefusedInv, At
<1>5. ASSUME NEW q \in Requests, req'[q].code = 429
      PROVE  Runs(Sender[q], req[q].win)' > Limit
  <2>1. Limit \in Nat
    BY GatewayAssumption
  <2>2. CASE q = r /\ Count(r) > Limit
    BY <1>1, <1>2, <2>1, <2>2
  <2>3. CASE req[q].code = 429 /\ req'[q].win = req[q].win
    <3>1. Runs(Sender[q], req[q].win) > Limit
      BY <2>3 DEF RefusedInv
    <3>2. PICK w : w = req[q].win /\ w = req'[q].win
      BY <2>3
    <3>3. Runs(Sender[q], w)' \in Nat /\ Runs(Sender[q], w) \in Nat /\ Runs(Sender[q], w)' >= Runs(Sender[q], w)
      BY <1>1
    <3> QED
      BY <2>1, <3>1, <3>2, <3>3
  <2> QED
    BY <1>5, <2>2, <2>3
<1> QED
  BY <1>3, <1>4, <1>5 DEF RefusedInv, At

\* A step keeps RefusedInv.
LEMMA RefusedStep ==
    Types /\ AnswersInv /\ RefusedInv /\ [GatewayNext]_gatewayVars => RefusedInv'
<1> SUFFICES ASSUME Types, AnswersInv, RefusedInv, [GatewayNext]_gatewayVars PROVE RefusedInv'
  OBVIOUS
<1>1. ASSUME NEW r \in Requests, GatewayStep(r) PROVE RefusedInv'
  <2>1. ASSUME NEW s \in {"admitted", "placing", "answered"}, NEW n,
               n # 429 \/ n = req[r].code, Moves(r, s, n), UNCHANGED limiterVars
        PROVE  RefusedInv'
    <3>1. \A q \in Requests :
            /\ req'[q].runs = req[q].runs /\ req'[q].win = req[q].win
            /\ req'[q].stage = "unsent" => req[q].stage = "unsent"
            /\ req'[q].code = 429 => req[q].code = 429
      BY <2>1 DEF Moves
    <3> QED
      BY <2>1, <3>1, RefusedKept DEF limiterVars
  <2>2. CASE Authorize(r)
    <3>1. req[r].runs = 0 /\ req[r].code = 0 /\ UNCHANGED keys
      BY <2>2 DEF Authorize, At, AnswersInv, RefusedInv, limiterVars
    <3> QED
      BY <2>2, <3>1, AuthorizeMoves, RefusedKept
  <2>3. CASE Allow(r) \/ AnswerLost(r)
    <3>1. RunScript(r)
      BY <2>3 DEF Allow, AnswerLost
    <3>2. Count(r) \in Nat /\ Limit \in Nat
      BY KeyType, GatewayAssumption
    <3>3. /\ req'[r].stage # "unsent"
          /\ req'[r].code = 429 => (req[r].code = 429 \/ Count(r) > Limit)
      <4>1. ~WithinLimit(Count(r)) => Count(r) > Limit
        BY <3>2 DEF WithinLimit
      <4> QED
        BY <2>3, <4>1, AskMoves
    <3> QED
      BY <2>3, <3>1, <3>3, AskMoves, RefusedRun
  <2>6. CASE CreateOrder(r) /\ OrderMoves(r)
    BY <2>1, <2>6 DEF CreateOrder, OrderMoves
  <2>7. CASE Unauthorized(r) /\ Moves(r, "answered", 401)
    BY <2>1, <2>7 DEF Unauthorized
  <2>8. CASE FailOpen(r) /\ Moves(r, "admitted", req[r].code)
    BY <2>1, <2>8 DEF FailOpen
  <2>9. CASE Deposit(r) /\ Moves(r, "placing", req[r].code)
    BY <2>1, <2>9 DEF Deposit
  <2>10. CASE Commit(r) /\ (Moves(r, "answered", 201) \/ Moves(r, "answered", 200))
    BY <2>1, <2>10 DEF Commit
  <2>11. CASE PlaceFails(r) /\ Moves(r, "answered", 500)
    BY <2>1, <2>11 DEF PlaceFails
  <2> QED
    BY <1>1, <2>2, <2>3, <2>6, <2>7, <2>8, <2>9, <2>10, <2>11, StepMoves
<1>2. CASE Tick
  BY <1>2, RefusedKept DEF Tick, Restrict
<1>3. CASE ClockSteps
  BY <1>3, RefusedKept DEF ClockSteps
<1>4. CASE RedisRestarts
  <2>1. DOMAIN keys' = {} /\ UNCHANGED req
    BY <1>4 DEF RedisRestarts
  <2> QED
    BY <2>1, RefusedKept
<1>5. CASE UNCHANGED gatewayVars
  BY <1>5, RefusedKept DEF gatewayVars, limiterVars
<1> QED
  BY <1>1, <1>2, <1>3, <1>4, <1>5 DEF GatewayNext

\* Nobody is refused because of others, nor early: whatever becomes of Redis
\* and the clocks, the script has run for the user and the window of a refused
\* request more often than the limit says.
THEOREM RefusedAlwaysHadTheirQuota == GatewaySpec => []RefusedHadTheirQuota
<1>1. GatewayInit => Types /\ AnswersInv /\ RefusedInv
  BY TypesInit, AnswersInit, RefusedInit
<1>2. Types /\ AnswersInv /\ RefusedInv /\ [GatewayNext]_gatewayVars
        => (Types /\ AnswersInv /\ RefusedInv)'
  BY TypesStep, AnswersStep, RefusedStep
<1>3. RefusedInv => RefusedHadTheirQuota
  BY DEF RefusedInv, RefusedHadTheirQuota
<1> QED
  BY <1>1, <1>2, <1>3, PTL DEF GatewaySpec

-----------------------------------------------------------------------------
(* Amounts *)

\* A number below the modulus is its own remainder.
LEMMA SmallMod ==
    ASSUME NEW x \in Nat, NEW d \in Nat, x < d
    PROVE  x % d = x
  BY Z3

\* A quotient is no larger than what is divided.
LEMMA QuotientLess ==
    ASSUME NEW n \in Nat, NEW d \in Nat \ {0}
    PROVE  n \div d \in Nat /\ n \div d <= n
<1>1. n \div d \in Nat
  BY Z3
<1>2. n \div d <= n
  BY Z3
<1> QED
  BY <1>1, <1>2

\* Whatever fits an int64 is not changed by it.
LEMMA Int64Same ==
    ASSUME NEW n \in Nat, n <= MaxInt64
    PROVE  Int64(n) = n
<1>1. /\ n + MaxInt64 + 1 \in Nat /\ Width \in Nat /\ n + MaxInt64 + 1 < Width
  BY WidthAssumption DEF Width
<1>2. (n + MaxInt64 + 1) % Width = n + MaxInt64 + 1
  BY <1>1, SmallMod
<1> QED
  BY <1>2, WidthAssumption DEF Int64

\* The amounts of a valid order.
LEMMA ExactLock ==
    ASSUME NEW p \in Nat, NEW q \in Nat
    PROVE  LET exact == (p * q) \div Decimals
           IN  /\ exact <= MaxInt64 => LockAmount(p, q) = exact
               /\ p * q <= MaxInt64 => RestoredLock(p, q) = LockAmount(p, q)
<1>1. PICK n \in Nat : n = p * q
  BY Z3
<1>2. PICK e \in Nat : e = n \div Decimals /\ e <= n
  BY <1>1, QuotientLess, WidthAssumption
<1>3. Quo(n, Decimals) = e
  BY <1>2 DEF Quo
<1>4. e <= MaxInt64 => Int64(e) = e
  BY <1>2, Int64Same
<1>5. n <= MaxInt64 => Int64(n) = n /\ e <= MaxInt64
  BY <1>1, <1>2, Int64Same, WidthAssumption
<1>6. LockAmount(p, q) = Int64(e) /\ RestoredLock(p, q) = Quo(Int64(n), Decimals)
  BY <1>1, <1>3 DEF LockAmount, RestoredLock
<1> QED
  BY <1>1, <1>2, <1>3, <1>4, <1>5, <1>6

\* Valid orders are natural numbers, to which ExactLock applies.
LEMMA ExactLocks == AnswersInv => LocksAreExact
<1> SUFFICES ASSUME AnswersInv, NEW o \in rows, IsOrder(o.body), NEW b, b = o.body
             PROVE  LET exact == (b.price * b.qty) \div Decimals
                    IN  /\ exact <= MaxInt64 => LockAmount(b.price, b.qty) = exact
                        /\ b.price * b.qty <= MaxInt64 =>
                             RestoredLock(b.price, b.qty) = LockAmount(b.price, b.qty)
  BY DEF LocksAreExact
<1>1. b.price \in Nat /\ b.qty \in Nat
  <2>1. PICK r \in Requests : o = Written(r) /\ (IsOrder(Body[r]) => Valid(Body[r]))
    BY DEF AnswersInv
  <2>2. b = Body[r]
    BY <2>1 DEF Written
  <2> QED
    BY <2>1, <2>2, Bodies DEF Valid
<1> QED
  BY <1>1, ExactLock

\* What an order locks is what it costs, as long as that fits an int64; what
\* hydrate computes agrees as long as the product does.
THEOREM LocksAlwaysExact == GatewaySpec => []LocksAreExact
<1>1. GatewayInit => Types /\ AnswersInv
  BY TypesInit, AnswersInit
<1>2. Types /\ AnswersInv /\ [GatewayNext]_gatewayVars => (Types /\ AnswersInv)'
  BY TypesStep, AnswersStep
<1> QED
  BY <1>1, <1>2, ExactLocks, PTL DEF GatewaySpec

-----------------------------------------------------------------------------
(* The stop of the process *)

Starting == {"connecting", "migrating", "creating", "rebuilding"}
Stopping == {"closing", "exited"}

\* The goroutine that calls Shutdown exists once the group does, and run()
\* stops only after it; when it does not exist, or has returned without an
\* error, no handler runs.
StopInv ==
    /\ stage \in Starting \cup Stopping \cup {"serving"}
    /\ closer \in {"none", "waiting", "draining", "returned", "expired"}
    /\ stage \in Starting => closer = "none" /\ server = "none"
    /\ stage \in Stopping => closer \in {"none", "returned", "expired"}
    /\ closer \in {"none", "returned"} => ~Busy
    /\ closer # "expired" => \A r \in Requests : ~At(r, "cut")

\* What a handler does is a step of Gateway, and needs one that runs or a
\* server that accepts.
LEMMA RequestSteps ==
    ASSUME NEW r \in Requests, Request(r)
    PROVE  GatewayStep(r) /\ (Accepting \/ Busy)
<1>1. GatewayStep(r)
  BY DEF Request, GatewayStep
<1>2. Accepting \/ Busy
  BY DEF Request, Busy, At, Allow, AnswerLost, CreateOrder, Deposit, FailOpen, Commit, PlaceFails
<1> QED
  BY <1>1, <1>2

\* The pool closed before r had a connection.
LEMMA CutOffMoves ==
    ASSUME Types, NEW r \in Requests, CutOff(r)
    PROVE  /\ ReqType' /\ req[r].stage = "admitted" /\ req'[r].stage = "cut"
           /\ \A q \in Requests : q # r => req'[q] = req[q]
<1>1. PICK n \in Codes : CutWith(r, n)
  <2>1. 400 \in Codes /\ 500 \in Codes
    BY DEF Codes
  <2>2. CutWith(r, 400) \/ CutWith(r, 500)
    BY DEF CutOff
  <2> QED
    BY <2>1, <2>2
<1>2. ReqType
  BY DEF Types
<1>3. PICK x \in RequestState : x = req[r]
  BY <1>2 DEF ReqType
<1>4. PICK y : y = [x EXCEPT !.stage = "cut"]
  OBVIOUS
<1>5. PICK q : q = [y EXCEPT !.code = n]
  OBVIOUS
<1>6. y \in RequestState /\ q \in RequestState
  BY <1>4, <1>5, SetStage, SetCode DEF Stages
<1>7. req' = [req EXCEPT ![r] = q]
  BY <1>1, <1>2, <1>3, <1>4, <1>5 DEF CutWith, ReqType, RequestState
<1>8. q.stage = "cut"
  BY <1>4, <1>5 DEF RequestState
<1>9. req[r].stage = "admitted"
  BY DEF CutOff, At
<1> QED
  BY <1>2, <1>6, <1>7, <1>8, <1>9, OneChanges

\* The types of Gateway hold under Server.
LEMMA ServerTypes == Types /\ [Next]_vars => Types'
<1> SUFFICES ASSUME Types, [Next]_vars PROVE Types'
  OBVIOUS
<1>1. CASE UNCHANGED gatewayVars
  BY <1>1, TypesStep
<1>2. ASSUME NEW r \in Requests, Request(r) PROVE Types'
  BY <1>2, RequestSteps, TypesStep DEF GatewayNext
<1>3. ASSUME NEW r \in Requests, CutOff(r) PROVE Types'
  <2>1. ReqType' /\ UNCHANGED limiterVars
    BY <1>3, CutOffMoves DEF CutOff
  <2> QED
    BY <2>1 DEF limiterVars, Types, KeysType
<1> QED
  BY <1>1, <1>2, <1>3
     DEF Next, Requestless, Upgrade, Register, Leave, Unregister, SocketIs, vars

LEMMA StopInit == Init => StopInv
  BY DEF Init, ProcessInit, GatewayInit, Unsent, StopInv, Starting, Stopping, Busy, At

\* A step of a request: it starts only while the server accepts, and is cut
\* only when the closer gave up.
LEMMA StopRequest ==
    ASSUME Types, StopInv, NEW r \in Requests, Request(r) \/ CutOff(r), UNCHANGED processVars
    PROVE  StopInv'
<1>1. UNCHANGED <<stage, closer, server>>
  BY DEF processVars, group
<1>2. CASE Request(r)
  <2>1. GatewayStep(r) /\ closer \notin {"none", "returned"}
    BY <1>2, RequestSteps DEF StopInv, Accepting
  <2>2. /\ \A q \in Requests : q # r => req'[q] = req[q]
        /\ req'[r].stage # "cut"
    BY <2>1, StepMoves, AuthorizeMoves, AskMoves DEF Moves, OrderMoves
  <2> QED
    BY <1>1, <2>1, <2>2 DEF StopInv, At
<1>3. CASE CutOff(r)
  <2>1. Busy /\ stage = "closing"
    BY <1>3, CutOffMoves DEF Busy, CutOff
  <2>2. closer = "expired"
    BY <2>1 DEF StopInv, Stopping
  <2> QED
    BY <1>1, <2>2 DEF StopInv
<1> QED
  BY <1>2, <1>3

\* A step of the process: whoever leaves "serving" has seen the closer done.
LEMMA StopProcess ==
    ASSUME StopInv, ProcessNext(Busy, Querying), UNCHANGED req
    PROVE  StopInv'
<1>1. Busy' = Busy /\ \A r \in Requests : At(r, "cut")' = At(r, "cut")
  BY DEF Busy, At
<1> USE DEF StopInv, Starting, Stopping
<1>2. CASE ConnectPostgres
  BY <1>1, <1>2 DEF ConnectPostgres, GoTo, AttemptFails, GiveUp, group
<1>3. CASE RunMigrations
  BY <1>1, <1>3 DEF RunMigrations, GoTo, GiveUp, group
<1>4. CASE CreateTopic
  BY <1>1, <1>4 DEF CreateTopic, GoTo, AttemptFails, GiveUp, group
<1>5. CASE StartGroup
  BY <1>1, <1>5 DEF StartGroup
<1>6. CASE RebuildFails
  BY <1>1, <1>6 DEF RebuildFails, GiveUp, group
<1>7. CASE Signal \/ RelayStops \/ HubStops
  BY <1>1, <1>7 DEF Signal, RelayStops, HubStops, group
<1>8. CASE Hydrate \/ FetchMessage \/ WorkerStops \/ HandleMessage
  BY <1>1, <1>8 DEF Hydrate, FetchMessage, WorkerStops, HandleMessage, WorkerIs
<1>9. CASE ListenFails \/ ServerStops
  BY <1>1, <1>9 DEF ListenFails, ServerStops, ServerIs
<1>10. CASE BeginShutdown
  BY <1>1, <1>10 DEF BeginShutdown, CloserIs
<1>11. CASE Shutdown(Busy)
  BY <1>1, <1>11 DEF Shutdown, CloserIs
<1>12. CASE GroupDone
  BY <1>1, <1>12 DEF GroupDone, GoTo, group
<1>13. CASE ClosePool(Querying)
  BY <1>1, <1>13 DEF ClosePool, GoTo, group
<1> QED
  BY <1>2, <1>3, <1>4, <1>5, <1>6, <1>7, <1>8, <1>9, <1>10, <1>11, <1>12, <1>13 DEF ProcessNext

LEMMA StopStep == Types /\ StopInv /\ [Next]_vars => StopInv'
<1> SUFFICES ASSUME Types, StopInv, [Next]_vars PROVE StopInv'
  OBVIOUS
<1>1. CASE ProcessNext(Busy, Querying) /\ Requestless
  BY <1>1, StopProcess DEF Requestless, gatewayVars
<1>2. ASSUME NEW r \in Requests, Request(r) \/ CutOff(r), UNCHANGED processVars PROVE StopInv'
  BY <1>2, StopRequest
<1>3. CASE UNCHANGED <<processVars, gatewayVars>>
  BY <1>3 DEF processVars, group, gatewayVars, StopInv, Busy, At
<1> QED
  BY <1>1, <1>2, <1>3 DEF Next, Upgrade, Register, Leave, Unregister, SocketIs, vars

\* A stop that the deadline does not force is graceful: no handler runs when
\* run() begins to close Redis and the pool, and none has found them closed.
THEOREM StopAlwaysGraceful == Spec => []StopIsGraceful
<1>1. Init => Types /\ StopInv
  BY TypesInit, StopInit DEF Init
<1>2. Types /\ StopInv /\ [Next]_vars => (Types /\ StopInv)'
  BY ServerTypes, StopStep
<1>3. StopInv => StopIsGraceful
  BY DEF StopInv, Stopping, StopIsGraceful
<1> QED
  BY <1>1, <1>2, <1>3, PTL DEF Spec

-----------------------------------------------------------------------------
(* The types of Server *)

\* A key outlives the moment by no more than a window, and faults are counted.
Bounded ==
    /\ \A k \in DOMAIN keys : keys[k].expires > time /\ keys[k].expires <= time + Window
    /\ faults \in 0 .. MaxFaults

\* A fault the bound allows.
LEMMA FaultCounts == faults \in 0 .. MaxFaults /\ Fault => faults' \in 0 .. MaxFaults
BY GatewayAssumption DEF Fault

\* The script makes a key that lasts a window, and leaves the others.
LEMMA ScriptBounded ==
    ASSUME Types, Bounded, NEW r \in Requests, RunScript(r), time' = time
    PROVE  \A k \in DOMAIN keys' : keys'[k].expires > time' /\ keys'[k].expires <= time' + Window
<1>1. /\ DOMAIN keys' = DOMAIN keys \cup {Key(r)}
      /\ \A k \in DOMAIN keys : k # Key(r) => keys'[k] = keys[k]
      /\ Key(r) \in DOMAIN keys => keys'[Key(r)].expires = keys[Key(r)].expires
      /\ Key(r) \notin DOMAIN keys => keys'[Key(r)].expires = time + Window
  BY ScriptType
<1>2. time \in Nat /\ Window \in Nat \ {0}
  BY GatewayAssumption DEF Types
<1> TAKE k \in DOMAIN keys'
<1>3. CASE k = Key(r) /\ Key(r) \notin DOMAIN keys
  BY <1>1, <1>2, <1>3
<1>4. CASE k \in DOMAIN keys
  <2>1. keys'[k].expires = keys[k].expires
    BY <1>1, <1>4
  <2> QED
    BY <1>4, <2>1 DEF Bounded
<1> QED
  BY <1>1, <1>3, <1>4

\* An action of a request keeps the bounds.
LEMMA RequestBounded ==
    ASSUME Types, Bounded, NEW r \in Requests, GatewayStep(r)
    PROVE  Bounded'
<1>1. CASE Allow(r)
  BY <1>1, ScriptBounded DEF Allow, Bounded
<1>2. CASE AnswerLost(r)
  BY <1>2, ScriptBounded, FaultCounts DEF AnswerLost, Bounded
<1>3. CASE FailOpen(r) \/ PlaceFails(r)
  BY <1>3, FaultCounts DEF FailOpen, PlaceFails, limiterVars, Bounded
<1>4. CASE Unauthorized(r) \/ Authorize(r) \/ CreateOrder(r) \/ Deposit(r) \/ Commit(r)
  BY <1>4 DEF Unauthorized, Authorize, CreateOrder, Deposit, Commit, limiterVars, Bounded
<1> QED
  BY <1>1, <1>2, <1>3, <1>4 DEF GatewayStep

\* The parts of the types of Process.
StagesOK ==
    /\ stage \in {"connecting", "migrating", "creating", "rebuilding", "serving", "closing", "exited"}
    /\ attempts \in Nat
    /\ attempts < IF stage = "connecting" THEN PostgresAttempts
                  ELSE IF stage = "creating" THEN TopicAttempts ELSE 1

FlagsOK == signalled \in BOOLEAN /\ failed \in BOOLEAN /\ poisoned \in BOOLEAN

GroupOK ==
    /\ relay \in {"none", "running", "returned"} /\ hub \in {"none", "running", "returned"}
    /\ worker \in {"none", "hydrating", "fetching", "handling", "returned"}
    /\ server \in {"none", "listening", "returned"}
    /\ closer \in {"none", "waiting", "draining", "returned", "expired"}

LEMMA ProcessParts == ProcessTypeOK <=> StagesOK /\ FlagsOK /\ GroupOK
<1>1. PostgresAttempts \in Nat /\ TopicAttempts \in Nat
  BY AttemptsAssumption
<1>2. ASSUME NEW n \in Nat
      PROVE  attempts \in 0 .. n - 1 <=> attempts \in Nat /\ attempts < n
  OBVIOUS
<1>3. attempts \in 0 .. (IF stage = "connecting" THEN PostgresAttempts
                         ELSE IF stage = "creating" THEN TopicAttempts ELSE 1) - 1
        <=> /\ attempts \in Nat
            /\ attempts < IF stage = "connecting" THEN PostgresAttempts
                          ELSE IF stage = "creating" THEN TopicAttempts ELSE 1
  BY <1>1, <1>2
<1> QED
  BY <1>3 DEF ProcessTypeOK, StagesOK, FlagsOK, GroupOK

\* A loop of run() makes no more attempts than it may.
LEMMA StagesKept ==
    ASSUME StagesOK, ProcessNext(Busy, Querying)
    PROVE  StagesOK'
<1>1. PostgresAttempts \in Nat /\ PostgresAttempts > 0 /\ TopicAttempts \in Nat /\ TopicAttempts > 0
  BY AttemptsAssumption
<1> USE DEF StagesOK
<1>2. CASE ConnectPostgres
  BY <1>1, <1>2 DEF ConnectPostgres, GoTo, AttemptFails, GiveUp
<1>3. CASE RunMigrations
  BY <1>1, <1>3 DEF RunMigrations, GoTo, GiveUp
<1>4. CASE CreateTopic
  BY <1>1, <1>4 DEF CreateTopic, GoTo, AttemptFails, GiveUp
<1>5. CASE StartGroup \/ RebuildFails
  BY <1>1, <1>5 DEF StartGroup, RebuildFails, GiveUp
<1>6. CASE GroupDone \/ ClosePool(Querying)
  BY <1>1, <1>6 DEF GroupDone, ClosePool, GoTo
<1>7. CASE UNCHANGED <<stage, attempts>>
  BY <1>7
<1> QED
  BY <1>2, <1>3, <1>4, <1>5, <1>6, <1>7
     DEF ProcessNext, Signal, RelayStops, HubStops, Hydrate, FetchMessage, WorkerStops,
         HandleMessage, WorkerIs, ListenFails, ServerStops, ServerIs, BeginShutdown, Shutdown,
         CloserIs

LEMMA FlagsKept ==
    ASSUME FlagsOK, ProcessNext(Busy, Querying)
    PROVE  FlagsOK'
<1>1. signalled' = signalled \/ signalled' = TRUE
  BY DEF ProcessNext, ConnectPostgres, RunMigrations, CreateTopic, StartGroup, RebuildFails,
         GoTo, AttemptFails, GiveUp, Signal, RelayStops, HubStops, Hydrate, FetchMessage,
         WorkerStops, HandleMessage, WorkerIs, ListenFails, ServerStops, ServerIs,
         BeginShutdown, Shutdown, CloserIs, GroupDone, ClosePool
<1>2. failed' = failed \/ failed' = TRUE
  BY DEF ProcessNext, ConnectPostgres, RunMigrations, CreateTopic, StartGroup, RebuildFails,
         GoTo, AttemptFails, GiveUp, Signal, RelayStops, HubStops, Hydrate, FetchMessage,
         WorkerStops, HandleMessage, WorkerIs, ListenFails, ServerStops, ServerIs,
         BeginShutdown, Shutdown, CloserIs, GroupDone, ClosePool
<1>3. poisoned' = poisoned \/ poisoned' \in BOOLEAN
  BY DEF ProcessNext, ConnectPostgres, RunMigrations, CreateTopic, StartGroup, RebuildFails,
         GoTo, AttemptFails, GiveUp, Signal, RelayStops, HubStops, Hydrate, FetchMessage,
         WorkerStops, HandleMessage, WorkerIs, ListenFails, ServerStops, ServerIs,
         BeginShutdown, Shutdown, CloserIs, GroupDone, ClosePool
<1> QED
  BY <1>1, <1>2, <1>3 DEF FlagsOK

LEMMA GroupKept ==
    ASSUME GroupOK, ProcessNext(Busy, Querying)
    PROVE  GroupOK'
<1> USE DEF GroupOK
<1>1. CASE UNCHANGED group
  BY <1>1 DEF group
<1>2. CASE StartGroup
  BY <1>2 DEF StartGroup
<1>3. CASE RelayStops \/ HubStops
  BY <1>3 DEF RelayStops, HubStops
<1>4. CASE Hydrate \/ FetchMessage \/ WorkerStops \/ HandleMessage
  BY <1>4 DEF Hydrate, FetchMessage, WorkerStops, HandleMessage, WorkerIs
<1>5. CASE ListenFails \/ ServerStops
  BY <1>5 DEF ListenFails, ServerStops, ServerIs
<1>6. CASE BeginShutdown
  BY <1>6 DEF BeginShutdown, CloserIs
<1>7. CASE Shutdown(Busy)
  BY <1>7 DEF Shutdown, CloserIs
<1> QED
  BY <1>1, <1>2, <1>3, <1>4, <1>5, <1>6, <1>7
     DEF ProcessNext, ConnectPostgres, RunMigrations, CreateTopic, RebuildFails, GoTo,
         AttemptFails, GiveUp, Signal, GroupDone, ClosePool

\* The types of Process: each step, by what it writes.
LEMMA ProcessTypes ==
    ASSUME ProcessTypeOK, ProcessNext(Busy, Querying)
    PROVE  ProcessTypeOK'
<1>1. StagesOK' /\ FlagsOK' /\ GroupOK'
  BY ProcessParts, StagesKept, FlagsKept, GroupKept
<1>2. (ProcessTypeOK <=> StagesOK /\ FlagsOK /\ GroupOK)'
  BY ProcessParts, PTL
<1> QED
  BY <1>1, <1>2

SocketsOK == socket \in [Sockets -> {"unsent", "registering", "open", "leaving", "gone"}]

\* A step of Server keeps the types of all its parts.
LEMMA ServerBounded ==
    Types /\ Bounded /\ ProcessTypeOK /\ SocketsOK /\ [Next]_vars
        => Bounded' /\ ProcessTypeOK' /\ SocketsOK'
<1> SUFFICES ASSUME Types, Bounded, ProcessTypeOK, SocketsOK, [Next]_vars
             PROVE  Bounded' /\ ProcessTypeOK' /\ SocketsOK'
  OBVIOUS
<1>1. UNCHANGED gatewayVars => Bounded'
  BY DEF gatewayVars, limiterVars, Bounded
<1>2. UNCHANGED processVars => ProcessTypeOK'
  BY DEF processVars, group, ProcessTypeOK
<1>3. UNCHANGED socket => SocketsOK'
  BY DEF SocketsOK
<1>4. CASE ProcessNext(Busy, Querying) /\ Requestless
  BY <1>1, <1>3, <1>4, ProcessTypes DEF Requestless
<1>5. ASSUME NEW r \in Requests, Request(r), UNCHANGED <<processVars, socket>>
      PROVE  Bounded' /\ ProcessTypeOK' /\ SocketsOK'
  BY <1>2, <1>3, <1>5, RequestSteps, RequestBounded
<1>6. ASSUME NEW r \in Requests, CutOff(r), UNCHANGED <<processVars, socket>>
      PROVE  Bounded' /\ ProcessTypeOK' /\ SocketsOK'
  <2>1. Bounded'
    BY <1>6 DEF CutOff, limiterVars, Bounded
  <2> QED
    BY <1>2, <1>3, <1>6, <2>1
<1>7. ASSUME NEW s \in Sockets, Upgrade(s) \/ Register(s) \/ Leave(s) \/ Unregister(s)
      PROVE  Bounded' /\ ProcessTypeOK' /\ SocketsOK'
  <2>1. UNCHANGED <<processVars, gatewayVars>> /\ SocketsOK'
    BY <1>7 DEF Upgrade, Register, Leave, Unregister, SocketIs, SocketsOK
  <2> QED
    BY <1>1, <1>2, <2>1
<1>8. CASE UNCHANGED vars
  BY <1>1, <1>2, <1>3, <1>8 DEF vars
<1> QED
  BY <1>4, <1>5, <1>6, <1>7, <1>8 DEF Next

\* The parts of the type invariant.
LEMMA ServerTypesHold ==
    Types /\ Bounded /\ ProcessTypeOK /\ SocketsOK => TypeOK
<1> SUFFICES ASSUME Types, Bounded, ProcessTypeOK, SocketsOK PROVE TypeOK
  OBVIOUS
<1>1. time \in Nat /\ offset \in Int /\ disturbed \in BOOLEAN /\ faults \in 0 .. MaxFaults
  BY DEF Types, Bounded
<1>2. ASSUME NEW k \in DOMAIN keys
      PROVE  keys[k] \in [count : Nat \ {0}, expires : time + 1 .. time + Window]
  <2>1. keys[k] \in Entry /\ keys[k].expires > time /\ keys[k].expires <= time + Window
    BY DEF Types, KeysType, Bounded
  <2>2. PICK e \in Entry : e = keys[k]
    BY <2>1
  <2>3. Window \in Nat /\ e.expires \in Int
    BY GatewayAssumption DEF Entry
  <2>4. e.expires \in time + 1 .. time + Window
    BY <1>1, <2>1, <2>2, <2>3
  <2>5. e \in [count : Nat \ {0}, expires : time + 1 .. time + Window]
    BY <2>4 DEF Entry
  <2> QED
    BY <2>2, <2>5
<1>3. \A r \in Requests :
         /\ req[r].stage \in {"unsent", "asking", "admitted", "placing", "answered", "cut"}
         /\ req[r].code \in {0, 200, 201, 400, 401, 429, 500}
  BY DEF Types, ReqType, RequestState, Stages, Codes
<1> QED
  BY <1>1, <1>2, <1>3 DEF TypeOK, GatewayTypeOK, SocketsOK

\* The state of the process, of the requests and of the sockets keeps its type
\* whatever fails: attempts stay below their limits, counters positive, and
\* every key of Redis expires within a window.
THEOREM ServerTypeCorrect == Spec => []TypeOK
<1>1. Init => Types /\ Bounded /\ ProcessTypeOK /\ SocketsOK
  <2> SUFFICES ASSUME Init PROVE Types /\ Bounded /\ ProcessTypeOK /\ SocketsOK
    OBVIOUS
  <2>1. Types
    BY TypesInit DEF Init
  <2>2. Bounded
    BY GatewayAssumption DEF Init, GatewayInit, Bounded
  <2>3. ProcessTypeOK
    <3>1. StagesOK
      BY AttemptsAssumption DEF Init, ProcessInit, StagesOK
    <3>2. FlagsOK /\ GroupOK
      BY DEF Init, ProcessInit, FlagsOK, GroupOK
    <3> QED
      BY <3>1, <3>2, ProcessParts
  <2> QED
    BY <2>1, <2>2, <2>3 DEF Init, SocketsOK
<1>2. Types /\ Bounded /\ ProcessTypeOK /\ SocketsOK /\ [Next]_vars
        => (Types /\ Bounded /\ ProcessTypeOK /\ SocketsOK)'
  BY ServerTypes, ServerBounded
<1> QED
  BY <1>1, <1>2, ServerTypesHold, PTL DEF Spec
=============================================================================
