-------------------------------- MODULE Hub --------------------------------
(***************************************************************************)
(* The WebSocket hub.  Run owns the set of clients and is the only         *)
(* receiver of the channels register and unregister; a client has a pump   *)
(* that writes what is on its channel and one that reads until the         *)
(* connection fails.  A client whose channel is full is unregistered by a  *)
(* goroutine of its own, as Run cannot send to itself.                     *)
(* A message has a type and the number of the change of the book it tells  *)
(* of.  Code: internal/adapters/ws/hub.go.                                 *)
(***************************************************************************)
EXTENDS Integers, Sequences, FiniteSets

CONSTANTS
    Clients,       \* the connections that browsers open
    SendBuffer,    \* capacity of a client's channel (256 in the code)
    TradeBuffer,   \* capacity of tradeChan (2048 in the code)
    Nothing        \* no snapshot

ASSUME BufferAssumption == SendBuffer \in Nat \ {0} /\ TradeBuffer \in Nat \ {0}

VARIABLES
    running,      \* Run has not returned
    clients,      \* h.clients
    tradeChan,    \* h.tradeChan
    latest,       \* h.latestSnapshot
    evicting,     \* per client: the goroutines that wait to unregister it
    reader,       \* per client: HandleWebSocket, then readPump
    writing,      \* the clients whose writePump runs
    send,         \* c.send
    closes,       \* how often it was closed
    open,         \* the connections that are open
    (* history *)
    shown,        \* per client: the last snapshot it was sent
    heard         \* per client: the trades it was sent

hubVars == <<running, clients, tradeChan, latest, evicting>>
clientVars == <<reader, writing, send, closes, open>>
wsVars == <<hubVars, clientVars, shown, heard>>

HubInit ==
    /\ running = TRUE
    /\ clients = {}
    /\ tradeChan = <<>> /\ latest = Nothing
    /\ evicting = [c \in Clients |-> 0]
    /\ reader = [c \in Clients |-> "away"]
    /\ writing = {}
    /\ send = [c \in Clients |-> <<>>]
    /\ closes = [c \in Clients |-> 0]
    /\ open = {}
    /\ shown = [c \in Clients |-> 0]
    /\ heard = [c \in Clients |-> {}]

-----------------------------------------------------------------------------
(* A client *)

\* HandleWebSocket, up to the send on register.
Connect(c) ==
    /\ reader[c] = "away"
    /\ reader' = [reader EXCEPT ![c] = "registering"]
    /\ open' = open \cup {c}
    /\ UNCHANGED <<hubVars, writing, send, closes, shown, heard>>

\* The send on register has returned.
StartPumps(c) ==
    /\ reader[c] = "registered"
    /\ reader' = [reader EXCEPT ![c] = "reading"]
    /\ writing' = writing \cup {c}
    /\ UNCHANGED <<hubVars, send, closes, open, shown, heard>>

WriteMessage(c) ==
    /\ c \in writing \cap open /\ send[c] # <<>>
    /\ send' = [send EXCEPT ![c] = Tail(@)]
    /\ LET m == Head(send[c])
       IN  IF m.type = "ORDERBOOK_UPDATE"
           THEN shown' = [shown EXCEPT ![c] = m.version] /\ UNCHANGED heard
           ELSE heard' = [heard EXCEPT ![c] = @ \cup {m.version}] /\ UNCHANGED shown
    /\ UNCHANGED <<hubVars, reader, writing, closes, open>>

\* Mutant: the connection stays open when its writer gives up.
WriterStopsOpen(c) ==
    /\ c \in writing /\ writing' = writing \ {c}
    /\ UNCHANGED <<hubVars, reader, send, closes, open, shown, heard>>

\* A message or a ping cannot be written, or c.send is closed.
WriterStops(c) ==
    /\ c \in writing /\ writing' = writing \ {c}
    /\ open' = open \ {c}
    /\ UNCHANGED <<hubVars, reader, send, closes, shown, heard>>

\* ReadMessage fails: the connection is closed, the peer is gone or silent.
ReaderStops(c) ==
    /\ reader[c] = "reading"
    /\ reader' = [reader EXCEPT ![c] = "leaving"]
    /\ UNCHANGED <<hubVars, writing, send, closes, open, shown, heard>>

-----------------------------------------------------------------------------
(* Run *)

Register(c) ==
    /\ running
    /\ reader[c] = "registering" /\ reader' = [reader EXCEPT ![c] = "registered"]
    /\ clients' = clients \cup {c}
    /\ UNCHANGED <<running, tradeChan, latest, evicting, writing, send, closes, open, shown, heard>>

\* Mutant: a client that was unregistered before is closed again.
DisconnectAgain(c) ==
    /\ clients' = clients \ {c}
    /\ closes' = [closes EXCEPT ![c] = @ + 1]
    /\ open' = open \ {c}

\* DisconnectClient; the connection is closed in any case, here or by readPump.
Disconnect(c) ==
    /\ clients' = clients \ {c}
    /\ closes' = [closes EXCEPT ![c] = IF c \in clients THEN @ + 1 ELSE @]
    /\ open' = open \ {c}

\* readPump reaches the channel.
Unregister(c) ==
    /\ running
    /\ reader[c] = "leaving" /\ reader' = [reader EXCEPT ![c] = "gone"]
    /\ Disconnect(c)
    /\ UNCHANGED <<running, tradeChan, latest, evicting, writing, send, shown, heard>>

\* A goroutine of broadcastToAll reaches it.
Evict(c) ==
    /\ running
    /\ evicting[c] > 0 /\ evicting' = [evicting EXCEPT ![c] = @ - 1]
    /\ Disconnect(c)
    /\ UNCHANGED <<running, tradeChan, latest, reader, writing, send, shown, heard>>

\* Mutant: one more message than the channel has room for.
FullLate(c) == Len(send[c]) > SendBuffer

Full(c) == Len(send[c]) = SendBuffer

\* Mutant: what a client cannot take is dropped.
BroadcastSkipping(m) ==
    /\ send' = [c \in Clients |-> IF c \in clients /\ ~Full(c) THEN Append(send[c], m) ELSE send[c]]
    /\ UNCHANGED evicting

\* broadcastToAll.
Broadcast(m) ==
    /\ send' = [c \in Clients |-> IF c \in clients /\ ~Full(c) THEN Append(send[c], m) ELSE send[c]]
    /\ evicting' = [c \in Clients |-> IF c \in clients /\ Full(c) THEN evicting[c] + 1 ELSE evicting[c]]

BroadcastTrades ==
    /\ running
    /\ tradeChan # <<>> /\ tradeChan' = Tail(tradeChan)
    /\ Broadcast(Head(tradeChan))
    /\ UNCHANGED <<running, clients, latest, reader, writing, closes, open, shown, heard>>

\* Every 100 milliseconds.
BroadcastSnapshot ==
    /\ running
    /\ latest # Nothing /\ latest' = Nothing
    /\ Broadcast(latest)
    /\ UNCHANGED <<running, clients, tradeChan, reader, writing, closes, open, shown, heard>>

Stop ==
    /\ running /\ running' = FALSE
    /\ UNCHANGED <<clients, tradeChan, latest, evicting, clientVars, shown, heard>>

-----------------------------------------------------------------------------
(* The goroutine that reads the subscription *)

\* Trades wait, or are dropped when the channel is full; of the snapshots
\* only the latest waits.
Receive(m) ==
    /\ running
    /\ IF m.type = "ORDERBOOK_UPDATE"
       THEN latest' = m /\ UNCHANGED tradeChan
       ELSE /\ tradeChan' = IF Len(tradeChan) < TradeBuffer THEN Append(tradeChan, m) ELSE tradeChan
            /\ UNCHANGED latest
    /\ UNCHANGED <<running, clients, evicting, clientVars, shown, heard>>

-----------------------------------------------------------------------------

RunStep ==
    \/ BroadcastTrades \/ BroadcastSnapshot
    \/ \E c \in Clients : Register(c) \/ Unregister(c) \/ Evict(c)

\* A pump does not wait for ever: writes, pings and reads have deadlines, and
\* fail on a closed connection.
PumpStep(c) ==
    \/ StartPumps(c) \/ WriteMessage(c)
    \/ c \notin open /\ (WriterStops(c) \/ ReaderStops(c))

\* Peers come, stop taking messages, and go.
PeerStep(c) == Connect(c) \/ WriterStops(c) \/ ReaderStops(c)

HubNext == RunStep \/ Stop \/ \E c \in Clients : PumpStep(c) \/ PeerStep(c)

=============================================================================
