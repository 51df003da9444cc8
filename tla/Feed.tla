-------------------------------- MODULE Feed --------------------------------
(***************************************************************************)
(* How a change of the order book reaches the traders' screens.  The       *)
(* worker sets a flag when it is done with a message; snapshotLoop takes a *)
(* snapshot, publishes it on Redis and puts it into the Redis cache, which *)
(* GetOrderBook answers from; trades are published by goroutines of their  *)
(* own; the hub subscribes to what is published.                           *)
(*                                                                         *)
(* The book is the number of its changes.  The cache starts with the       *)
(* snapshot that RebuildOrderBook puts there.                              *)
(* Code: services/worker.go, adapters/redis/cache.go, adapters/ws/hub.go.  *)
(***************************************************************************)
EXTENDS Hub

CONSTANTS
    MaxChanges,    \* bound: how often the book changes
    MaxFaults      \* bound: how many transactions, calls or messages are lost

ASSUME FeedAssumption == MaxChanges \in Nat /\ MaxFaults \in Nat

VARIABLES
    book,          \* the number of changes the book has seen
    worker,        \* "idle", or between memory and database: "placing", "trading"
    needsRefresh,  \* the flag
    loop,          \* snapshotLoop: "idle", "refreshing", "taken", "published"
    snap,          \* the last snapshot it took
    leaving,       \* the trades whose goroutine has not published them yet
    wire,          \* what Redis has still to hand to the hub
    cached,        \* the value in the Redis cache
    written,       \* history: the changes whose transaction has committed
    faults

reportVars == <<needsRefresh, loop, snap>>
redisVars == <<wire, cached>>
vars == <<wsVars, book, worker, reportVars, leaving, redisVars, written, faults>>

Init ==
    /\ HubInit
    /\ book = 0 /\ worker = "idle"
    /\ needsRefresh = FALSE /\ loop = "idle" /\ snap = 0
    /\ leaving = {}
    /\ wire = <<>> /\ cached = 0
    /\ written = {}
    /\ faults = 0

Fault == faults < MaxFaults /\ faults' = faults + 1

Snapshot(v) == [type |-> "ORDERBOOK_UPDATE", version |-> v]
Trades(v) == [type |-> "TRADES_EXECUTED", version |-> v]

-----------------------------------------------------------------------------
(* The worker *)

\* PlaceOrder or CancelOrder in memory, under the mutex.
Change ==
    /\ worker = "idle" /\ book < MaxChanges
    /\ book' = book + 1
    /\ worker' \in {"placing", "trading"}
    /\ UNCHANGED <<wsVars, reportVars, leaving, redisVars, written, faults>>

\* The transaction has committed.
Report ==
    /\ worker # "idle" /\ worker' = "idle"
    /\ written' = written \cup {book}
    /\ leaving' = IF worker = "trading" THEN leaving \cup {book} ELSE leaving
    /\ needsRefresh' = TRUE
    /\ UNCHANGED <<wsVars, book, loop, snap, redisVars, faults>>

\* Mutant: the trades are published although they are not in the database.
LoseTxReporting ==
    /\ Fault
    /\ worker # "idle" /\ worker' = "idle"
    /\ leaving' = IF worker = "trading" THEN leaving \cup {book} ELSE leaving
    /\ UNCHANGED <<wsVars, book, reportVars, redisVars, written>>

\* It has not: nobody is told.
LoseTx ==
    /\ Fault
    /\ worker # "idle" /\ worker' = "idle"
    /\ UNCHANGED <<wsVars, book, reportVars, leaving, redisVars, written>>

PublishTrades(v) ==
    /\ v \in leaving /\ leaving' = leaving \ {v}
    /\ wire' = Append(wire, Trades(v))
    /\ UNCHANGED <<wsVars, book, worker, reportVars, cached, written, faults>>

\* The error is ignored.
PublishTradesFails(v) ==
    /\ Fault
    /\ v \in leaving /\ leaving' = leaving \ {v}
    /\ UNCHANGED <<wsVars, book, worker, reportVars, redisVars, written>>

-----------------------------------------------------------------------------
(* snapshotLoop and broadcastAndCache *)

\* Every 50 milliseconds; CompareAndSwap.
Tick ==
    /\ loop = "idle" /\ loop' = "refreshing"
    /\ needsRefresh /\ needsRefresh' = FALSE
    /\ UNCHANGED <<wsVars, book, worker, snap, leaving, redisVars, written, faults>>

\* Mutant: the flag is cleared when the snapshot is published.
PublishSnapshotClearing ==
    /\ loop = "taken" /\ loop' = "published"
    /\ needsRefresh' = FALSE
    /\ wire' = Append(wire, Snapshot(snap))
    /\ UNCHANGED <<wsVars, book, worker, snap, leaving, cached, written, faults>>

\* Mutant: a goroutine publishes the snapshot, and may be overtaken.
PublishSnapshotAsync ==
    /\ loop = "taken" /\ loop' = "published"
    /\ wire' \in {Append(wire, Snapshot(snap)), <<Snapshot(snap)>> \o wire}
    /\ UNCHANGED <<wsVars, book, worker, needsRefresh, snap, leaving, cached, written, faults>>

\* Under the read lock: the book is not in the middle of a change.
TakeSnapshot ==
    /\ loop = "refreshing" /\ loop' = "taken"
    /\ snap' = book
    /\ UNCHANGED <<wsVars, book, worker, needsRefresh, leaving, redisVars, written, faults>>

PublishSnapshot ==
    /\ loop = "taken" /\ loop' = "published"
    /\ wire' = Append(wire, Snapshot(snap))
    /\ UNCHANGED <<wsVars, book, worker, needsRefresh, snap, leaving, cached, written, faults>>

\* The error is ignored.
PublishSnapshotFails ==
    /\ Fault
    /\ loop = "taken" /\ loop' = "published"
    /\ UNCHANGED <<wsVars, book, worker, needsRefresh, snap, leaving, redisVars, written>>

SetCache ==
    /\ loop = "published" /\ loop' = "idle"
    /\ cached' = snap
    /\ UNCHANGED <<wsVars, book, worker, needsRefresh, snap, leaving, wire, written, faults>>

\* The error is logged.
SetCacheFails ==
    /\ Fault
    /\ loop = "published" /\ loop' = "idle"
    /\ UNCHANGED <<wsVars, book, worker, needsRefresh, snap, leaving, redisVars, written>>

-----------------------------------------------------------------------------
(* Redis *)

\* 60 seconds without a change.
Expire ==
    /\ cached # Nothing /\ cached' = Nothing
    /\ UNCHANGED <<wsVars, book, worker, reportVars, leaving, wire, written, faults>>

\* A subscriber that was disconnected misses a message.
LoseMessage ==
    /\ Fault
    /\ wire # <<>> /\ wire' = Tail(wire)
    /\ UNCHANGED <<wsVars, book, worker, reportVars, leaving, cached, written>>

HubReceives ==
    /\ wire # <<>> /\ wire' = Tail(wire)
    /\ Receive(Head(wire))
    /\ UNCHANGED <<book, worker, reportVars, leaving, cached, written, faults>>

-----------------------------------------------------------------------------

feedVars == <<book, worker, reportVars, leaving, redisVars, written, faults>>

HubStep == HubNext /\ UNCHANGED feedVars

LoopStep == Tick \/ TakeSnapshot \/ PublishSnapshot \/ SetCache

FaultStep ==
    \/ LoseTx \/ PublishSnapshotFails \/ SetCacheFails \/ LoseMessage
    \/ \E v \in leaving : PublishTradesFails(v)

Next ==
    \/ Change \/ Report \/ (\E v \in leaving : PublishTrades(v))
    \/ LoopStep \/ HubReceives \/ HubStep \/ Expire \/ FaultStep

\* Every one of these is a goroutine that never blocks for ever, Run a loop
\* over a select.
Fairness ==
    /\ WF_vars(Report) /\ WF_vars(LoopStep) /\ WF_vars(HubReceives)
    /\ WF_vars(RunStep /\ UNCHANGED feedVars)
    /\ \A c \in Clients : WF_vars(PumpStep(c) /\ UNCHANGED feedVars)

Spec == Init /\ [][Next]_vars /\ Fairness

-----------------------------------------------------------------------------
(* Properties *)

Versions == 0 .. MaxChanges
Messages == [type : {"ORDERBOOK_UPDATE", "TRADES_EXECUTED"}, version : Versions]

TypeOK ==
    /\ running \in BOOLEAN /\ clients \subseteq Clients
    /\ tradeChan \in Seq(Messages) /\ Len(tradeChan) <= TradeBuffer
    /\ latest \in Messages \cup {Nothing}
    /\ evicting \in [Clients -> Nat]
    /\ reader \in [Clients -> {"away", "registering", "registered", "reading", "leaving", "gone"}]
    /\ writing \subseteq Clients /\ open \subseteq Clients
    /\ send \in [Clients -> Seq(Messages)] /\ \A c \in Clients : Len(send[c]) <= SendBuffer
    /\ closes \in [Clients -> Nat]
    /\ shown \in [Clients -> Versions] /\ heard \in [Clients -> SUBSET Versions]
    /\ book \in Versions /\ worker \in {"idle", "placing", "trading"}
    /\ needsRefresh \in BOOLEAN /\ loop \in {"idle", "refreshing", "taken", "published"}
    /\ snap \in Versions /\ leaving \subseteq Versions
    /\ wire \in Seq(Messages) /\ cached \in Versions \cup {Nothing}
    /\ written \subseteq Versions /\ faults \in 0 .. MaxFaults

\* However a client leaves (its peer goes, its channel overflows, several times
\* over), its channel is closed once and never sent on afterwards: the hub
\* does not panic.
ChannelsCloseOnce ==
    \A c \in Clients : closes[c] <= 1 /\ (c \in clients => closes[c] = 0)

\* When worker and loop are at rest the cache has the current book or nothing:
\* no change that came during a refresh is forgotten.
RestIsCurrent ==
    worker = "idle" /\ loop = "idle" /\ ~needsRefresh /\ faults = 0
        => cached \in {book, Nothing}

\* Nobody hears of a trade that is not in the database.
TradesAreWritten == \A c \in Clients : heard[c] \subseteq written

\* What a client is shown, and what the cache holds, never goes back in time.
SnapshotsAdvance ==
    [][/\ \A c \in Clients : shown'[c] >= shown[c]
       /\ cached # Nothing /\ cached' # Nothing => cached' >= cached]_vars

\* A client whose connection, writer or reader has stopped, or that could not
\* keep up, does not stay registered.
DeadClientsLeave ==
    \A c \in Clients :
        c \in clients /\ reader[c] \in {"reading", "leaving"}
            /\ (c \notin open \/ c \notin writing \/ evicting[c] > 0)
          ~> c \notin clients \/ ~running

\* A change is shown to every client that was registered when it happened,
\* unless the client leaves: whatever is conflated or overflows, no screen
\* stays behind.
ChangesAreShown ==
    \A c \in Clients, v \in 1 .. MaxChanges :
        c \in clients /\ worker # "idle" /\ book = v
          ~> shown[c] >= v \/ c \notin clients \/ ~running \/ faults > 0
=============================================================================
