----------------------------- MODULE FeedProofs -----------------------------
(* What TLAPS proves about Feed, for any number of clients, any buffers and *)
(* any number of changes and faults.                                       *)
EXTENDS Feed, TLAPS

-----------------------------------------------------------------------------
(* Types.  The steps of the hub first. *)

\* A message is a snapshot or a batch of trades.
LEMMA MessagesHaveType ==
    ASSUME NEW v \in Versions
    PROVE  Snapshot(v) \in Messages /\ Trades(v) \in Messages
  BY DEF Snapshot, Trades, Messages

\* What waits in a sequence of messages is a message.
LEMMA HeadTail ==
    ASSUME NEW s \in Seq(Messages), s # <<>>
    PROVE  /\ Head(s) \in Messages /\ Tail(s) \in Seq(Messages)
           /\ Len(Tail(s)) = Len(s) - 1
  OBVIOUS

\* A broadcast keeps the channels' type and their bound.
LEMMA BroadcastType ==
    ASSUME TypeOK, NEW m \in Messages, Broadcast(m)
    PROVE  /\ send' \in [Clients -> Seq(Messages)]
           /\ \A c \in Clients : Len(send'[c]) <= SendBuffer
           /\ evicting' \in [Clients -> Nat]
  <1>1. ASSUME NEW c \in Clients
        PROVE  send'[c] \in Seq(Messages) /\ Len(send'[c]) <= SendBuffer
    <2>1. send[c] \in Seq(Messages) /\ Len(send[c]) <= SendBuffer
      BY DEF TypeOK
    <2>2. CASE c \in clients /\ ~Full(c)
      <3>1. send'[c] = Append(send[c], m)
        BY <2>2 DEF Broadcast
      <3>2. Len(send[c]) # SendBuffer /\ Len(send[c]) \in Nat
        BY <2>1, <2>2 DEF Full
      <3> QED
        BY <2>1, <3>1, <3>2, BufferAssumption
    <2>3. CASE ~(c \in clients /\ ~Full(c))
      <3>1. send'[c] = send[c]
        BY <2>3 DEF Broadcast
      <3> QED
        BY <2>1, <3>1
    <2> QED
      BY <2>2, <2>3
  <1>2. send' = [c \in Clients |-> send'[c]]
    BY DEF Broadcast
  <1>3. evicting' \in [Clients -> Nat]
    BY DEF TypeOK, Broadcast
  <1> QED
    BY <1>1, <1>2, <1>3

\* Every step of Run, of the pumps and of the peers keeps the type.
LEMMA HubStepType == TypeOK /\ HubStep => TypeOK'
  <1> SUFFICES ASSUME TypeOK, HubStep PROVE TypeOK'
    OBVIOUS
  <1> USE DEF HubStep, feedVars, reportVars, redisVars, hubVars, clientVars
  <1>1. CASE BroadcastTrades
    <2>1. Head(tradeChan) \in Messages /\ Tail(tradeChan) \in Seq(Messages)
          /\ Len(Tail(tradeChan)) <= TradeBuffer
      BY <1>1, HeadTail, BufferAssumption DEF TypeOK, BroadcastTrades
    <2>2. Broadcast(Head(tradeChan))
      BY <1>1 DEF BroadcastTrades
    <2> QED
      BY <1>1, <2>1, <2>2, BroadcastType DEF TypeOK, BroadcastTrades
  <1>2. CASE BroadcastSnapshot
    <2>1. latest \in Messages /\ Broadcast(latest)
      BY <1>2 DEF TypeOK, BroadcastSnapshot
    <2> QED
      BY <1>2, <2>1, BroadcastType DEF TypeOK, BroadcastSnapshot
  <1>3. ASSUME NEW c \in Clients, Register(c) PROVE TypeOK'
    BY <1>3 DEF TypeOK, Register
  <1>4. ASSUME NEW c \in Clients, Unregister(c) PROVE TypeOK'
    BY <1>4 DEF TypeOK, Unregister, Disconnect
  <1>5. ASSUME NEW c \in Clients, Evict(c) PROVE TypeOK'
    BY <1>5 DEF TypeOK, Evict, Disconnect
  <1>6. CASE Stop
    BY <1>6 DEF TypeOK, Stop
  <1>7. ASSUME NEW c \in Clients, StartPumps(c) PROVE TypeOK'
    BY <1>7 DEF TypeOK, StartPumps
  <1>8. ASSUME NEW c \in Clients, WriteMessage(c) PROVE TypeOK'
    <2>1. send[c] \in Seq(Messages) /\ send[c] # <<>> /\ Len(send[c]) <= SendBuffer
      BY <1>8 DEF TypeOK, WriteMessage
    <2>2. Head(send[c]) \in Messages /\ Tail(send[c]) \in Seq(Messages)
          /\ Len(Tail(send[c])) <= SendBuffer
      BY <2>1, HeadTail, BufferAssumption
    <2>3. Head(send[c]).version \in Versions
      BY <2>2 DEF Messages
    <2>4. send' \in [Clients -> Seq(Messages)] /\ \A d \in Clients : Len(send'[d]) <= SendBuffer
      BY <1>8, <2>2 DEF TypeOK, WriteMessage
    <2>5. shown' \in [Clients -> Versions] /\ heard' \in [Clients -> SUBSET Versions]
      <3>1. CASE Head(send[c]).type = "ORDERBOOK_UPDATE"
        BY <1>8, <2>3, <3>1 DEF TypeOK, WriteMessage
      <3>2. CASE Head(send[c]).type # "ORDERBOOK_UPDATE"
        <4>1. heard[c] \cup {Head(send[c]).version} \in SUBSET Versions
          BY <2>3 DEF TypeOK
        <4>2. shown' = shown /\ heard' = [heard EXCEPT ![c] = @ \cup {Head(send[c]).version}]
          BY <1>8, <3>2 DEF WriteMessage
        <4> QED
          BY <4>1, <4>2 DEF TypeOK
      <3> QED
        BY <3>1, <3>2
    <2> QED
      BY <1>8, <2>4, <2>5 DEF TypeOK, WriteMessage
  <1>9. ASSUME NEW c \in Clients, WriterStops(c) PROVE TypeOK'
    BY <1>9 DEF TypeOK, WriterStops
  <1>10. ASSUME NEW c \in Clients, ReaderStops(c) PROVE TypeOK'
    BY <1>10 DEF TypeOK, ReaderStops
  <1>11. ASSUME NEW c \in Clients, Connect(c) PROVE TypeOK'
    BY <1>11 DEF TypeOK, Connect
  <1> QED
    BY <1>1, <1>2, <1>3, <1>4, <1>5, <1>6, <1>7, <1>8, <1>9, <1>10, <1>11
       DEF HubNext, RunStep, PumpStep, PeerStep

\* The hub's subscription hands it a message: the type is kept.
LEMMA ReceiveType == TypeOK /\ HubReceives => TypeOK'
  <1> SUFFICES ASSUME TypeOK, HubReceives PROVE TypeOK'
    OBVIOUS
  <1> USE DEF reportVars, hubVars, clientVars
  <1>1. Head(wire) \in Messages /\ Tail(wire) \in Seq(Messages)
    BY HeadTail DEF TypeOK, HubReceives
  <1>2. CASE Head(wire).type = "ORDERBOOK_UPDATE"
    <2>1. latest' = Head(wire) /\ tradeChan' = tradeChan
      BY <1>2 DEF HubReceives, Receive
    <2> QED
      BY <1>1, <2>1 DEF TypeOK, HubReceives, Receive
  <1>3. CASE Head(wire).type # "ORDERBOOK_UPDATE"
    <2>1. /\ tradeChan' = IF Len(tradeChan) < TradeBuffer THEN Append(tradeChan, Head(wire))
                                                          ELSE tradeChan
          /\ latest' = latest
      BY <1>3 DEF HubReceives, Receive
    <2>2. tradeChan' \in Seq(Messages) /\ Len(tradeChan') <= TradeBuffer
      BY <1>1, <2>1, BufferAssumption DEF TypeOK
    <2> QED
      BY <1>1, <2>1, <2>2 DEF TypeOK, HubReceives, Receive
  <1> QED
    BY <1>2, <1>3

\* The worker, its loop and Redis keep the type.
LEMMA ReportType ==
    TypeOK /\ (Change \/ Report \/ (\E v \in leaving : PublishTrades(v))
               \/ LoopStep \/ Expire \/ FaultStep) => TypeOK'
  <1> USE FeedAssumption, MessagesHaveType
      DEF wsVars, hubVars, clientVars, reportVars, redisVars, TypeOK, Versions, Fault
  <1>1. ASSUME TypeOK, Change PROVE TypeOK'
    BY <1>1 DEF Change
  <1>2. ASSUME TypeOK, Report PROVE TypeOK'
    BY <1>2 DEF Report
  <1>3. ASSUME TypeOK, NEW v \in leaving, PublishTrades(v) PROVE TypeOK'
    <2>1. wire' \in Seq(Messages)
      BY <1>3 DEF PublishTrades
    <2> QED
      BY <1>3, <2>1 DEF PublishTrades
  <1>4. ASSUME TypeOK, LoopStep PROVE TypeOK'
    <2>1. CASE Tick
      BY <1>4, <2>1 DEF Tick
    <2>2. CASE TakeSnapshot
      BY <1>4, <2>2 DEF TakeSnapshot
    <2>3. CASE PublishSnapshot
      <3>1. wire' \in Seq(Messages)
        BY <1>4, <2>3 DEF PublishSnapshot
      <3> QED
        BY <1>4, <2>3, <3>1 DEF PublishSnapshot
    <2>4. CASE SetCache
      BY <1>4, <2>4 DEF SetCache
    <2> QED
      BY <1>4, <2>1, <2>2, <2>3, <2>4 DEF LoopStep
  <1>5. ASSUME TypeOK, Expire PROVE TypeOK'
    BY <1>5 DEF Expire
  <1>6. ASSUME TypeOK, FaultStep PROVE TypeOK'
    <2>1. CASE LoseTx
      BY <1>6, <2>1 DEF LoseTx
    <2>2. CASE PublishSnapshotFails
      BY <1>6, <2>2 DEF PublishSnapshotFails
    <2>3. CASE SetCacheFails
      BY <1>6, <2>3 DEF SetCacheFails
    <2>4. CASE LoseMessage
      <3>1. wire' \in Seq(Messages)
        BY <1>6, <2>4, HeadTail DEF LoseMessage
      <3> QED
        BY <1>6, <2>4, <3>1 DEF LoseMessage
    <2>5. ASSUME NEW v \in leaving, PublishTradesFails(v) PROVE TypeOK'
      BY <1>6, <2>5 DEF PublishTradesFails
    <2> QED
      BY <1>6, <2>1, <2>2, <2>3, <2>4, <2>5 DEF FaultStep
  <1> QED
    BY <1>1, <1>2, <1>3, <1>4, <1>5, <1>6

\* The state of the feed keeps its type: no channel exceeds its capacity.
THEOREM TypeCorrect == Spec => []TypeOK
  <1>1. Init => TypeOK
    <2>1. <<>> \in Seq(Messages) /\ Len(<<>>) = 0
      OBVIOUS
    <2>2. 0 \in Versions /\ 0 \in 0 .. MaxFaults
      BY FeedAssumption DEF Versions
    <2>3. ASSUME Init
          PROVE  /\ send \in [Clients -> Seq(Messages)] /\ \A c \in Clients : Len(send[c]) <= SendBuffer
                 /\ tradeChan \in Seq(Messages) /\ Len(tradeChan) <= TradeBuffer
                 /\ wire \in Seq(Messages)
      BY <2>1, <2>3, BufferAssumption DEF Init, HubInit
    <2>4. ASSUME Init
          PROVE  /\ evicting \in [Clients -> Nat] /\ closes \in [Clients -> Nat]
                 /\ reader \in [Clients -> {"away", "registering", "registered",
                                           "reading", "leaving", "gone"}]
                 /\ shown \in [Clients -> Versions] /\ heard \in [Clients -> SUBSET Versions]
                 /\ running \in BOOLEAN /\ clients \subseteq Clients
                 /\ writing \subseteq Clients /\ open \subseteq Clients
                 /\ latest \in Messages \cup {Nothing}
      BY <2>2, <2>4 DEF Init, HubInit
    <2> QED
      BY <2>2, <2>3, <2>4 DEF Init, TypeOK
  <1>2. TypeOK /\ [Next]_vars => TypeOK'
    <2> SUFFICES ASSUME TypeOK, [Next]_vars PROVE TypeOK'
      OBVIOUS
    <2>1. CASE UNCHANGED vars
      BY <2>1 DEF vars, wsVars, hubVars, clientVars, reportVars, redisVars, TypeOK
    <2> QED
      BY <2>1, HubStepType, ReceiveType, ReportType DEF Next
  <1> QED
    BY <1>1, <1>2, PTL DEF Spec

-----------------------------------------------------------------------------
(* Channels.  A channel is closed when its client leaves the set, and a    *)
(* client enters the set once, from HandleWebSocket.                       *)

ChannelInv ==
    /\ ChannelsCloseOnce
    /\ \A c \in Clients : reader[c] \in {"away", "registering"} => c \notin clients /\ closes[c] = 0

\* No client's channel is closed twice or sent on after it was closed.
THEOREM ChannelsAlwaysCloseOnce == Spec => []ChannelsCloseOnce
  <1>1. Init => ChannelInv
    BY DEF Init, HubInit, ChannelInv, ChannelsCloseOnce
  <1>2. TypeOK /\ ChannelInv /\ [Next]_vars => ChannelInv'
    <2> SUFFICES ASSUME TypeOK, ChannelInv, [Next]_vars PROVE ChannelInv'
      OBVIOUS
    <2> USE DEF TypeOK, ChannelInv, ChannelsCloseOnce
    <2>1. CASE UNCHANGED <<clients, closes, reader>>
      BY <2>1
    <2>2. ASSUME NEW c \in Clients, Register(c) PROVE ChannelInv'
      BY <2>2 DEF Register
    <2>3. ASSUME NEW c \in Clients, Unregister(c) PROVE ChannelInv'
      BY <2>3 DEF Unregister, Disconnect
    <2>4. ASSUME NEW c \in Clients, Evict(c) PROVE ChannelInv'
      BY <2>4 DEF Evict, Disconnect
    <2>5. ASSUME NEW c \in Clients, StartPumps(c) \/ ReaderStops(c) \/ Connect(c)
          PROVE  ChannelInv'
      BY <2>5 DEF StartPumps, ReaderStops, Connect, hubVars
    <2>6. CASE HubStep
      <3>1. ASSUME BroadcastTrades \/ BroadcastSnapshot \/ Stop
                   \/ \E c \in Clients : WriteMessage(c) \/ WriterStops(c)
            PROVE  UNCHANGED <<clients, closes, reader>>
        BY <3>1 DEF BroadcastTrades, BroadcastSnapshot, Stop, WriteMessage, WriterStops,
                    hubVars, clientVars
      <3> QED
        BY <2>1, <2>2, <2>3, <2>4, <2>5, <2>6, <3>1
           DEF HubStep, HubNext, RunStep, PumpStep, PeerStep
    <2>7. CASE UNCHANGED vars \/ HubReceives \/ Change \/ Report \/ LoopStep \/ Expire \/ FaultStep
               \/ \E v \in leaving : PublishTrades(v)
      <3>1. UNCHANGED <<clients, closes, reader>>
        BY <2>7 DEF vars, wsVars, hubVars, clientVars, HubReceives, Receive, Change, Report,
             LoopStep, Tick, TakeSnapshot, PublishSnapshot, SetCache, Expire, FaultStep,
             LoseTx, PublishSnapshotFails, SetCacheFails, LoseMessage, PublishTradesFails,
             PublishTrades
      <3> QED
        BY <2>1, <3>1
    <2> QED
      BY <2>6, <2>7 DEF Next
  <1>3. ChannelInv => ChannelsCloseOnce
    BY DEF ChannelInv
  <1> QED
    BY <1>1, <1>2, <1>3, TypeCorrect, PTL DEF Spec

-----------------------------------------------------------------------------
(* Refreshes.  What the loop has not taken yet is announced by the flag,   *)
(* or the loop is about to look.                                           *)

RefreshInv ==
    worker = "idle" /\ ~needsRefresh /\ faults = 0
      => \/ loop = "refreshing"
         \/ loop \in {"taken", "published"} /\ snap = book
         \/ loop = "idle" /\ cached \in {book, Nothing}

\* At rest the cache has the current book, or has expired.
THEOREM RestAlwaysCurrent == Spec => []RestIsCurrent
  <1>1. Init => RefreshInv
    BY DEF Init, RefreshInv
  <1>2. TypeOK /\ RefreshInv /\ [Next]_vars => RefreshInv'
    <2> SUFFICES ASSUME TypeOK, RefreshInv, [Next]_vars PROVE RefreshInv'
      OBVIOUS
    <2> USE DEF RefreshInv, reportVars, redisVars
    <2>1. CASE Change \/ Report \/ Expire \/ \E v \in leaving : PublishTrades(v)
      BY <2>1 DEF Change, Report, Expire, PublishTrades
    <2>2. CASE LoopStep
      BY <2>2 DEF LoopStep, Tick, TakeSnapshot, PublishSnapshot, SetCache
    <2>3. CASE FaultStep
      <3>1. faults' = faults + 1 /\ faults \in Nat
        BY <2>3 DEF FaultStep, LoseTx, PublishSnapshotFails, SetCacheFails, LoseMessage,
                    PublishTradesFails, Fault, TypeOK
      <3> QED
        BY <3>1
    <2>4. CASE HubReceives \/ HubStep \/ UNCHANGED vars
      BY <2>4 DEF HubReceives, HubStep, feedVars, vars
    <2> QED
      BY <2>1, <2>2, <2>3, <2>4 DEF Next
  <1>3. RefreshInv => RestIsCurrent
    BY DEF RefreshInv, RestIsCurrent
  <1> QED
    BY <1>1, <1>2, <1>3, TypeCorrect, PTL DEF Spec

-----------------------------------------------------------------------------
(* Trades.  Whatever carries trades carries trades of the database.        *)

Told == {m \in Messages : m.type = "TRADES_EXECUTED" => m.version \in written}

TradeInv ==
    /\ leaving \subseteq written
    /\ wire \in Seq(Told) /\ tradeChan \in Seq(Told) /\ send \in [Clients -> Seq(Told)]
    /\ latest \in {m \in Told : m.type = "ORDERBOOK_UPDATE"} \cup {Nothing}
    /\ TradesAreWritten

\* What is in the database stays there: what may be told may always be told.
LEMMA ToldGrows ==
    ASSUME written \subseteq written'
    PROVE  Told \subseteq Told' /\ \A s : s \in Seq(Told) => s \in Seq(Told)'
  <1>1. Told \subseteq Told'
    BY DEF Told
  <1>2. ASSUME NEW s, s \in Seq(Told) PROVE s \in Seq(Told)'
    BY <1>1, <1>2
  <1> QED
    BY <1>1, <1>2

\* The head and the tail of what may be told may be told.
LEMMA ToldHeadTail ==
    ASSUME NEW s \in Seq(Told), s # <<>>
    PROVE  Head(s) \in Told /\ Tail(s) \in Seq(Told)
  OBVIOUS

\* A broadcast of something that may be told keeps the channels so.
LEMMA BroadcastTold ==
    ASSUME send \in [Clients -> Seq(Told)], NEW m \in Told, Broadcast(m)
    PROVE  send' \in [Clients -> Seq(Told)]
  <1>1. ASSUME NEW c \in Clients PROVE send'[c] \in Seq(Told)
    <2>1. send[c] \in Seq(Told) /\ Append(send[c], m) \in Seq(Told)
      OBVIOUS
    <2> QED
      BY <2>1 DEF Broadcast
  <1> QED
    BY <1>1 DEF Broadcast

\* The hub only passes on what it was told.
LEMMA HubStepTold == TypeOK /\ TradeInv /\ HubStep => TradeInv'
  <1> SUFFICES ASSUME TypeOK, TradeInv, HubStep PROVE TradeInv'
    OBVIOUS
  <1>1. written' = written /\ leaving' = leaving /\ wire' = wire /\ Told' = Told
    BY DEF HubStep, feedVars, redisVars, Told
  <1> USE DEF TradeInv, TradesAreWritten
  <1>2. CASE BroadcastTrades
    <2>1. Head(tradeChan) \in Told /\ Tail(tradeChan) \in Seq(Told)
      BY <1>2, ToldHeadTail DEF BroadcastTrades
    <2>2. send' \in [Clients -> Seq(Told)]
      BY <1>2, <2>1, BroadcastTold DEF BroadcastTrades
    <2> QED
      BY <1>1, <1>2, <2>1, <2>2 DEF BroadcastTrades
  <1>3. CASE BroadcastSnapshot
    <2>1. latest \in Told
      BY <1>3 DEF BroadcastSnapshot
    <2>2. send' \in [Clients -> Seq(Told)]
      BY <1>3, <2>1, BroadcastTold DEF BroadcastSnapshot
    <2> QED
      BY <1>1, <1>3, <2>2 DEF BroadcastSnapshot
  <1>4. ASSUME NEW c \in Clients, WriteMessage(c) PROVE TradeInv'
    <2>1. Head(send[c]) \in Told /\ Tail(send[c]) \in Seq(Told)
      BY <1>4, ToldHeadTail DEF WriteMessage
    <2>2. send' \in [Clients -> Seq(Told)]
      BY <1>4, <2>1 DEF WriteMessage
    <2>3. Head(send[c]).type \in {"ORDERBOOK_UPDATE", "TRADES_EXECUTED"}
      BY <2>1 DEF Told, Messages
    <2>4. CASE Head(send[c]).type = "ORDERBOOK_UPDATE"
      BY <1>1, <1>4, <2>2, <2>4 DEF WriteMessage, hubVars
    <2>5. CASE Head(send[c]).type = "TRADES_EXECUTED"
      <3>1. Head(send[c]).version \in written
        BY <2>1, <2>5 DEF Told
      <3>2. heard' = [heard EXCEPT ![c] = @ \cup {Head(send[c]).version}]
        BY <1>4, <2>5 DEF WriteMessage
      <3>3. \A d \in Clients : heard'[d] \subseteq written
        BY <3>1, <3>2 DEF TypeOK
      <3> QED
        BY <1>1, <1>4, <2>2, <3>3 DEF WriteMessage, hubVars
    <2> QED
      BY <2>3, <2>4, <2>5
  <1>5. CASE UNCHANGED <<send, tradeChan, latest, heard>>
    BY <1>1, <1>5
  <1>6. ASSUME Stop \/ \E c \in Clients : \/ Register(c) \/ Unregister(c) \/ Evict(c)
                       \/ StartPumps(c) \/ WriterStops(c) \/ ReaderStops(c) \/ Connect(c)
        PROVE  UNCHANGED <<send, tradeChan, latest, heard>>
    BY <1>6 DEF Stop, Register, Unregister, Evict, StartPumps, WriterStops, ReaderStops,
                Connect, hubVars, clientVars
  <1> QED
    BY <1>2, <1>3, <1>4, <1>5, <1>6 DEF HubStep, HubNext, RunStep, PumpStep, PeerStep

\* The hub is told only what it may be told.
LEMMA ReceiveTold == TypeOK /\ TradeInv /\ HubReceives => TradeInv'
  <1> SUFFICES ASSUME TypeOK, TradeInv, HubReceives PROVE TradeInv'
    OBVIOUS
  <1> USE DEF TradeInv, TradesAreWritten
  <1>1. /\ written' = written /\ leaving' = leaving /\ Told' = Told
        /\ send' = send /\ heard' = heard
    BY DEF HubReceives, Receive, clientVars, Told
  <1>2. Head(wire) \in Told /\ wire' \in Seq(Told)
    BY ToldHeadTail DEF HubReceives
  <1>3. CASE Head(wire).type = "ORDERBOOK_UPDATE"
    BY <1>1, <1>2, <1>3 DEF HubReceives, Receive
  <1>4. CASE Head(wire).type # "ORDERBOOK_UPDATE"
    <2>1. Append(tradeChan, Head(wire)) \in Seq(Told)
      BY <1>2
    <2>2. tradeChan' \in Seq(Told) /\ latest' = latest
      BY <1>4, <2>1 DEF HubReceives, Receive
    <2> QED
      BY <1>1, <1>2, <2>2
  <1> QED
    BY <1>3, <1>4

\* Only trades whose transaction has committed are on their way to anybody.
THEOREM TradesAlwaysWritten == Spec => []TradesAreWritten
  <1>1. Init => TradeInv
    <2>1. <<>> \in Seq(Told)
      OBVIOUS
    <2> QED
      BY <2>1 DEF Init, HubInit, TradeInv, TradesAreWritten
  <1>2. TypeOK /\ TradeInv /\ [Next]_vars => TradeInv'
    <2> SUFFICES ASSUME TypeOK, TradeInv, [Next]_vars PROVE TradeInv'
      OBVIOUS
    <2>1. CASE HubStep
      BY <2>1, HubStepTold
    <2>2. CASE HubReceives
      BY <2>2, ReceiveTold
    <2> USE DEF TradeInv, TradesAreWritten, wsVars, hubVars, clientVars, reportVars, redisVars
    <2>3. CASE Report
      <3>1. written \subseteq written' /\ leaving' \subseteq written'
        BY <2>3 DEF Report
      <3> HIDE DEF TradeInv, TradesAreWritten
      <3>2. /\ wire' \in Seq(Told)' /\ tradeChan' \in Seq(Told)'
            /\ \A c \in Clients : send[c] \in Seq(Told)'
        BY <2>3, <3>1, ToldGrows DEF Report, TradeInv
      <3>3. send' \in [Clients -> Seq(Told)']
        BY <2>3, <3>2 DEF Report, TradeInv
      <3>4. latest' \in {m \in Told' : m.type = "ORDERBOOK_UPDATE"} \cup {Nothing}
        BY <2>3, <3>1, ToldGrows DEF Report, TradeInv
      <3>5. \A c \in Clients : heard'[c] \subseteq written'
        BY <2>3, <3>1 DEF Report, TradeInv, TradesAreWritten
      <3> QED
        BY <3>1, <3>2, <3>3, <3>4, <3>5 DEF TradeInv, TradesAreWritten
    <2>4. CASE UNCHANGED vars \/ Change \/ Tick \/ TakeSnapshot \/ SetCache \/ Expire
               \/ LoseTx \/ PublishSnapshotFails \/ SetCacheFails
               \/ \E v \in leaving : PublishTradesFails(v)
      <3>1. /\ UNCHANGED <<written, wire, tradeChan, send, latest, heard>>
            /\ leaving' \subseteq leaving
        BY <2>4 DEF vars, Change, Tick, TakeSnapshot, SetCache, Expire, LoseTx,
                    PublishSnapshotFails, SetCacheFails, PublishTradesFails
      <3> QED
        BY <3>1 DEF Told
    <2>5. CASE LoseMessage
      BY <2>5, ToldHeadTail DEF LoseMessage, Told
    <2>6. ASSUME PublishSnapshot \/ \E v \in leaving : PublishTrades(v)
          PROVE  TradeInv'
      <3>1. PICK m \in Told : wire' = Append(wire, m)
        <4>1. ASSUME NEW v \in Versions
              PROVE  Snapshot(v) \in Told /\ (v \in written => Trades(v) \in Told)
          BY <4>1 DEF Snapshot, Trades, Told, Messages
        <4> QED
          BY <2>6, <4>1 DEF PublishSnapshot, PublishTrades, TypeOK
      <3>2. /\ UNCHANGED <<written, tradeChan, send, latest, heard>>
            /\ leaving' \subseteq leaving
        BY <2>6 DEF PublishSnapshot, PublishTrades
      <3>3. wire' \in Seq(Told)
        BY <3>1
      <3> QED
        BY <3>2, <3>3 DEF Told
    <2> QED
      BY <2>1, <2>2, <2>3, <2>4, <2>5, <2>6 DEF Next, LoopStep, FaultStep
  <1>3. TradeInv => TradesAreWritten
    BY DEF TradeInv
  <1> QED
    BY <1>1, <1>2, <1>3, TypeCorrect, PTL DEF Spec

-----------------------------------------------------------------------------
(* Snapshots.  The way of a snapshot is from snap over wire, latest and a  *)
(* client's channel to the screen, and none overtakes another.             *)

\* The versions of the snapshots in a sequence of messages, and in latest.
Snaps(s) == {s[i].version : i \in {j \in 1 .. Len(s) : s[j].type = "ORDERBOOK_UPDATE"}}
Waiting == IF latest = Nothing THEN {} ELSE {latest.version}

\* They are sent in the order they were taken.
Rising(s) ==
    \A i, j \in 1 .. Len(s) :
        i < j /\ s[i].type = "ORDERBOOK_UPDATE" /\ s[j].type = "ORDERBOOK_UPDATE"
            => s[i].version <= s[j].version

Behind(S, T) == \A v \in S, w \in T : v <= w

\* On the wire, and on the way from the hub to a client.
OnWire == Snaps(wire) \cup {snap}
AtHub(c) == Snaps(send[c]) \cup Waiting

AdvanceInv ==
    /\ snap <= book /\ (cached # Nothing => cached <= snap)
    /\ Snaps(tradeChan) = {} /\ Rising(wire) /\ \A c \in Clients : Rising(send[c])
    /\ latest # Nothing => latest.type = "ORDERBOOK_UPDATE"
    /\ Behind(Snaps(wire), {snap}) /\ Behind(Waiting, OnWire)
    /\ \A c \in Clients : /\ Behind(Snaps(send[c]), Waiting \cup OnWire)
                          /\ Behind({shown[c]}, AtHub(c) \cup OnWire)

\* The snapshots of a longer and of a shorter sequence.
LEMMA SnapsAppend ==
    ASSUME NEW s \in Seq(Messages), NEW m \in Messages
    PROVE  /\ m.type = "ORDERBOOK_UPDATE" => Snaps(Append(s, m)) = Snaps(s) \cup {m.version}
           /\ m.type # "ORDERBOOK_UPDATE" => Snaps(Append(s, m)) = Snaps(s)
<1> DEFINE t == Append(s, m)
           n == Len(s)
<1>1. /\ n \in Nat /\ Len(t) = n + 1 /\ t[n + 1] = m
      /\ \A i \in 1 .. n : t[i] = s[i]
  OBVIOUS
<1>2. 1 .. Len(t) = (1 .. n) \cup {n + 1}
  BY <1>1
<1> HIDE DEF t, n
<1>3. \A v : v \in Snaps(t) <=>
         \/ \E i \in 1 .. n : s[i].type = "ORDERBOOK_UPDATE" /\ v = s[i].version
         \/ m.type = "ORDERBOOK_UPDATE" /\ v = m.version
  BY <1>1, <1>2 DEF Snaps
<1>4. \A v : v \in Snaps(s) <=>
         \E i \in 1 .. n : s[i].type = "ORDERBOOK_UPDATE" /\ v = s[i].version
  BY DEF Snaps, n
<1>5. m.type = "ORDERBOOK_UPDATE" => Snaps(t) = Snaps(s) \cup {m.version}
  BY <1>3, <1>4
<1>6. m.type # "ORDERBOOK_UPDATE" => Snaps(t) = Snaps(s)
  BY <1>3, <1>4
<1> QED
  BY <1>5, <1>6 DEF t

LEMMA SnapsTail ==
    ASSUME NEW s \in Seq(Messages), s # <<>>
    PROVE  /\ Snaps(Tail(s)) \subseteq Snaps(s)
           /\ Head(s).type = "ORDERBOOK_UPDATE" => Head(s).version \in Snaps(s)
           /\ Rising(s) => Rising(Tail(s))
           /\ Rising(s) /\ Head(s).type = "ORDERBOOK_UPDATE"
                => Behind({Head(s).version}, Snaps(Tail(s)))
<1> DEFINE t == Tail(s)
<1>1. /\ Len(s) \in Nat /\ Len(t) = Len(s) - 1 /\ 1 \in 1 .. Len(s) /\ Head(s) = s[1]
      /\ \A i \in 1 .. Len(t) : t[i] = s[i + 1] /\ i + 1 \in 1 .. Len(s) /\ 1 < i + 1
  OBVIOUS
<1> HIDE DEF t
<1>2. Snaps(t) \subseteq Snaps(s)
  BY <1>1 DEF Snaps
<1>3. Head(s).type = "ORDERBOOK_UPDATE" => Head(s).version \in Snaps(s)
  BY <1>1 DEF Snaps
<1>4. ASSUME Rising(s) PROVE Rising(t)
  <2>1. \A i, j \in 1 .. Len(t) : i < j => i + 1 < j + 1
    BY <1>1
  <2> QED
    BY <1>1, <1>4, <2>1 DEF Rising
<1>5. ASSUME Rising(s), Head(s).type = "ORDERBOOK_UPDATE" PROVE Behind({Head(s).version}, Snaps(t))
  BY <1>1, <1>5 DEF Rising, Snaps, Behind
<1> QED
  BY <1>2, <1>3, <1>4, <1>5 DEF t

\* A message that is no snapshot, or not older than any, may be sent.
LEMMA RisingAppend ==
    ASSUME NEW s \in Seq(Messages), NEW m \in Messages, Rising(s),
           m.type = "ORDERBOOK_UPDATE" => Behind(Snaps(s), {m.version})
    PROVE  Rising(Append(s, m))
<1> DEFINE t == Append(s, m)
           n == Len(s)
<1>1. /\ n \in Nat /\ Len(t) = n + 1 /\ t[n + 1] = m
      /\ \A i \in 1 .. n : t[i] = s[i]
  OBVIOUS
<1>2. \A i, j \in 1 .. Len(t) : i < j => i \in 1 .. n /\ (j \in 1 .. n \/ j = n + 1)
  BY <1>1
<1>3. \A i \in 1 .. n : s[i].type = "ORDERBOOK_UPDATE" => s[i].version \in Snaps(s)
  BY DEF Snaps
<1>4. \A i, j \in 1 .. n : i < j /\ s[i].type = "ORDERBOOK_UPDATE" /\ s[j].type = "ORDERBOOK_UPDATE"
                             => s[i].version <= s[j].version
  BY DEF Rising
<1> HIDE DEF t, n
<1>5. ASSUME NEW i \in 1 .. Len(t), NEW j \in 1 .. Len(t), i < j,
             t[i].type = "ORDERBOOK_UPDATE", t[j].type = "ORDERBOOK_UPDATE"
      PROVE  t[i].version <= t[j].version
  <2>1. CASE j \in 1 .. n
    BY <1>1, <1>2, <1>4, <1>5, <2>1
  <2>2. CASE j = n + 1
    BY <1>1, <1>2, <1>3, <1>5, <2>2 DEF Behind
  <2> QED
    BY <1>2, <1>5, <2>1, <2>2
<1> QED
  BY <1>5 DEF Rising, t

\* The versions are numbers, and those on the wire or at the hub have types.
LEMMA SnapsType ==
    ASSUME TypeOK
    PROVE  /\ Snaps(wire) \subseteq Versions /\ Waiting \subseteq Versions /\ snap \in Versions
           /\ \A c \in Clients : Snaps(send[c]) \subseteq Versions /\ shown[c] \in Versions
           /\ Versions \subseteq Int
<1>1. ASSUME NEW s \in Seq(Messages) PROVE Snaps(s) \subseteq Versions
  <2>1. \A i \in 1 .. Len(s) : s[i] \in Messages
    OBVIOUS
  <2>2. \A m \in Messages : m.version \in Versions
    BY DEF Messages
  <2> QED
    BY <2>1, <2>2 DEF Snaps
<1>2. Waiting \subseteq Versions
  BY DEF Waiting, TypeOK, Messages
<1> QED
  BY <1>1, <1>2 DEF TypeOK, Versions

\* What a step does to screens and cache.
Advances ==
    /\ \A c \in Clients : shown'[c] >= shown[c]
    /\ cached # Nothing /\ cached' # Nothing => cached' >= cached

\* A broadcast appends to the channels what is not older than what they hold.
LEMMA BroadcastAdvances ==
    ASSUME TypeOK, NEW m \in Messages, Broadcast(m), \A c \in Clients : Rising(send[c]),
           m.type = "ORDERBOOK_UPDATE" => \A c \in Clients : Behind(Snaps(send[c]), {m.version})
    PROVE  \A c \in Clients :
              /\ Rising(send'[c])
              /\ Snaps(send'[c]) \subseteq
                   Snaps(send[c]) \cup (IF m.type = "ORDERBOOK_UPDATE" THEN {m.version} ELSE {})
<1> TAKE c \in Clients
<1>1. send[c] \in Seq(Messages)
  BY DEF TypeOK
<1>2. send'[c] = Append(send[c], m) \/ send'[c] = send[c]
  BY DEF Broadcast
<1>3. CASE send'[c] = Append(send[c], m)
  BY <1>1, <1>3, RisingAppend, SnapsAppend
<1>4. CASE send'[c] = send[c]
  BY <1>4
<1> QED
  BY <1>2, <1>3, <1>4

\* The hub passes snapshots on in their order.
LEMMA HubAdvances ==
    ASSUME TypeOK, AdvanceInv, HubStep
    PROVE  AdvanceInv' /\ Advances
<1>1. UNCHANGED <<book, snap, cached, wire>> /\ OnWire' = OnWire
  BY DEF HubStep, feedVars, reportVars, redisVars, OnWire, Snaps
<1>2. /\ snap <= book /\ (cached # Nothing => cached <= snap)
      /\ Snaps(tradeChan) = {} /\ Rising(wire) /\ \A c \in Clients : Rising(send[c])
      /\ latest # Nothing => latest.type = "ORDERBOOK_UPDATE"
      /\ Behind(Snaps(wire), {snap}) /\ Behind(Waiting, OnWire)
      /\ \A c \in Clients : /\ Behind(Snaps(send[c]), Waiting \cup OnWire)
                            /\ Behind({shown[c]}, Snaps(send[c]) \cup Waiting \cup OnWire)
  BY DEF AdvanceInv, AtHub
<1>3. /\ OnWire \subseteq Int /\ Waiting \subseteq Int
      /\ \A c \in Clients : Snaps(send[c]) \subseteq Int /\ shown[c] \in Int
      /\ cached # Nothing => cached \in Int
  BY SnapsType DEF OnWire, TypeOK
<1>4. ASSUME UNCHANGED shown, Snaps(tradeChan') = {},
             \A c \in Clients : Rising(send'[c]) /\ Snaps(send'[c]) \subseteq AtHub(c),
             Waiting' = {} \/ (Waiting' = Waiting
                               /\ \A c \in Clients : Snaps(send'[c]) \subseteq Snaps(send[c])),
             latest' \in {latest, Nothing}
      PROVE  AdvanceInv' /\ Advances
  <2>1. Rising(wire)' /\ Behind(Snaps(wire), {snap})' /\ (snap <= book)'
        /\ (cached # Nothing => cached <= snap)'
    BY <1>1, <1>2 DEF Rising, Snaps
  <2>2. Behind(Waiting', OnWire)
    BY <1>2, <1>4 DEF Behind
  <2>3. latest' # Nothing => latest'.type = "ORDERBOOK_UPDATE"
    BY <1>2, <1>4
  <2>4. ASSUME NEW c \in Clients
        PROVE  /\ Behind(Snaps(send'[c]), Waiting' \cup OnWire)
               /\ Behind({shown[c]}, Snaps(send'[c]) \cup Waiting' \cup OnWire)
    BY <1>2, <1>4 DEF Behind, AtHub
  <2>5. Advances
    BY <1>1, <1>3, <1>4 DEF Advances
  <2> QED
    BY <1>1, <1>4, <2>1, <2>2, <2>3, <2>4, <2>5 DEF AdvanceInv, AtHub
<1>5. CASE BroadcastTrades
  <2>1. Head(tradeChan) \in Messages /\ tradeChan \in Seq(Messages) /\ tradeChan # <<>>
        /\ tradeChan' = Tail(tradeChan) /\ Broadcast(Head(tradeChan)) /\ UNCHANGED <<shown, latest>>
    BY <1>5, HeadTail DEF BroadcastTrades, TypeOK
  <2>2. Snaps(tradeChan') = {} /\ Head(tradeChan).type # "ORDERBOOK_UPDATE"
    BY <1>2, <2>1, SnapsTail
  <2>3. \A c \in Clients : Rising(send'[c]) /\ Snaps(send'[c]) \subseteq Snaps(send[c])
    BY <1>2, <2>1, <2>2, BroadcastAdvances
  <2>4. Waiting' = Waiting
    BY <2>1 DEF Waiting
  <2> QED
    BY <1>4, <2>1, <2>2, <2>3, <2>4 DEF AtHub
<1>6. CASE BroadcastSnapshot
  <2>1. latest \in Messages /\ Broadcast(latest) /\ latest # Nothing /\ latest' = Nothing
        /\ UNCHANGED <<shown, tradeChan>>
    BY <1>6 DEF BroadcastSnapshot, TypeOK
  <2>2. Waiting = {latest.version} /\ Waiting' = {} /\ latest.type = "ORDERBOOK_UPDATE"
    BY <1>2, <2>1 DEF Waiting
  <2>3. \A c \in Clients : Rising(send'[c]) /\ Snaps(send'[c]) \subseteq Snaps(send[c]) \cup Waiting
    <3>1. \A c \in Clients : Behind(Snaps(send[c]), {latest.version})
      BY <1>2, <2>2 DEF Behind
    <3> QED
      BY <1>2, <2>1, <2>2, <3>1, BroadcastAdvances
  <2>4. Snaps(tradeChan') = {}
    BY <1>2, <2>1
  <2> QED
    BY <1>4, <2>1, <2>2, <2>3, <2>4 DEF AtHub
<1>7. CASE UNCHANGED <<send, tradeChan, latest, shown>>
  <2>1. Waiting' = Waiting /\ Snaps(tradeChan') = {}
    BY <1>2, <1>7 DEF Waiting
  <2>2. \A c \in Clients : Rising(send'[c]) /\ Snaps(send'[c]) \subseteq Snaps(send[c])
    BY <1>2, <1>7
  <2> QED
    BY <1>4, <1>7, <2>1, <2>2 DEF AtHub
<1>8. ASSUME NEW c \in Clients, WriteMessage(c) PROVE AdvanceInv' /\ Advances
  <2>1. /\ send[c] \in Seq(Messages) /\ send[c] # <<>>
        /\ send' = [send EXCEPT ![c] = Tail(@)] /\ UNCHANGED <<tradeChan, latest>>
        /\ send \in [Clients -> Seq(Messages)] /\ shown \in [Clients -> Versions]
    BY <1>8 DEF WriteMessage, TypeOK, hubVars
  <2>2. Waiting' = Waiting /\ Snaps(tradeChan') = {}
    BY <1>2, <2>1 DEF Waiting
  <2>3. \A d \in Clients : Rising(send'[d]) /\ Snaps(send'[d]) \subseteq Snaps(send[d])
    BY <1>2, <2>1, SnapsTail
  <2>4. CASE Head(send[c]).type # "ORDERBOOK_UPDATE"
    <3>1. UNCHANGED shown
      BY <1>8, <2>4 DEF WriteMessage
    <3> QED
      BY <1>4, <2>1, <2>2, <2>3, <3>1 DEF AtHub
  <2>5. CASE Head(send[c]).type = "ORDERBOOK_UPDATE"
    <3> DEFINE v == Head(send[c]).version
    <3>1. shown' = [shown EXCEPT ![c] = v]
      BY <1>8, <2>5 DEF WriteMessage
    <3>2. v \in Snaps(send[c]) /\ Behind({v}, Snaps(send'[c]))
      BY <1>2, <2>1, <2>5, SnapsTail
    <3> HIDE DEF v
    <3>3. shown[c] <= v /\ v \in Int /\ Behind({v}, Waiting \cup OnWire)
      BY <1>2, <1>3, <3>2 DEF Behind
    <3>4. Advances
      BY <1>1, <1>3, <2>1, <3>1, <3>3 DEF Advances
    <3>5. ASSUME NEW d \in Clients
          PROVE  /\ Behind(Snaps(send'[d]), Waiting' \cup OnWire)
                 /\ Behind({shown'[d]}, Snaps(send'[d]) \cup Waiting' \cup OnWire)
      <4>1. Behind(Snaps(send'[d]), Waiting' \cup OnWire)
        BY <1>2, <2>2, <2>3 DEF Behind
      <4>2. CASE d = c
        BY <2>1, <2>2, <3>1, <3>2, <3>3, <4>1, <4>2 DEF Behind
      <4>3. CASE d # c
        BY <1>2, <2>1, <2>2, <2>3, <3>1, <4>1, <4>3 DEF Behind
      <4> QED
        BY <4>2, <4>3
    <3>6. Rising(wire)' /\ Behind(Snaps(wire), {snap})' /\ (snap <= book)'
          /\ (cached # Nothing => cached <= snap)' /\ Behind(Waiting', OnWire)
      BY <1>1, <1>2, <2>2 DEF Rising, Snaps
    <3> QED
      BY <1>1, <1>2, <2>1, <2>2, <2>3, <3>4, <3>5, <3>6 DEF AdvanceInv, AtHub
  <2> QED
    BY <2>4, <2>5
<1>9. ASSUME Stop \/ \E c \in Clients : \/ Register(c) \/ Unregister(c) \/ Evict(c)
                     \/ StartPumps(c) \/ WriterStops(c) \/ ReaderStops(c) \/ Connect(c)
      PROVE  UNCHANGED <<send, tradeChan, latest, shown>>
  BY <1>9 DEF Stop, Register, Unregister, Evict, StartPumps, WriterStops, ReaderStops,
              Connect, hubVars, clientVars
<1> QED
  BY <1>5, <1>6, <1>7, <1>8, <1>9 DEF HubStep, HubNext, RunStep, PumpStep, PeerStep

\* What the worker, its loop and Redis do: the hub's state stays, a snapshot
\* is taken, sent or lost, the cache gets the last one or expires.
LEMMA LoopAdvances ==
    ASSUME TypeOK, AdvanceInv, UNCHANGED <<send, tradeChan, latest, shown>>,
           book' \in Int, book <= book',
           \/ UNCHANGED snap /\ Rising(wire') /\ Snaps(wire') \subseteq OnWire
              /\ cached' \in {cached, snap, Nothing}
           \/ snap' = book /\ UNCHANGED <<wire, cached>>
    PROVE  AdvanceInv' /\ Advances
<1>1. /\ snap <= book /\ (cached # Nothing => cached <= snap)
      /\ Snaps(tradeChan) = {} /\ Rising(wire) /\ \A c \in Clients : Rising(send[c])
      /\ latest # Nothing => latest.type = "ORDERBOOK_UPDATE"
      /\ Behind(Snaps(wire), {snap}) /\ Behind(Waiting, OnWire)
      /\ \A c \in Clients : /\ Behind(Snaps(send[c]), Waiting \cup OnWire)
                            /\ Behind({shown[c]}, AtHub(c) \cup OnWire)
  BY DEF AdvanceInv
<1>2. /\ snap \in Int /\ book \in Int /\ OnWire \subseteq Int /\ Waiting \subseteq Int
      /\ \A c \in Clients : Snaps(send[c]) \subseteq Int /\ shown[c] \in Int
      /\ cached # Nothing => cached \in Int
  BY SnapsType DEF OnWire, TypeOK
<1>3. /\ Waiting' = Waiting /\ Snaps(tradeChan') = {}
      /\ \A c \in Clients : AtHub(c)' = AtHub(c) /\ Snaps(send'[c]) = Snaps(send[c]) /\ Rising(send'[c])
                            /\ shown'[c] = shown[c]
      /\ latest' # Nothing => latest'.type = "ORDERBOOK_UPDATE"
  BY <1>1 DEF Waiting, AtHub, Snaps
<1>4. /\ snap' <= book' /\ (cached' # Nothing => cached' <= snap')
      /\ Rising(wire') /\ Behind(Snaps(wire'), {snap'})
      /\ cached # Nothing /\ cached' # Nothing => cached' >= cached
      /\ \A w \in OnWire' : \E v \in OnWire : v <= w
  <2>1. CASE UNCHANGED snap /\ Rising(wire') /\ Snaps(wire') \subseteq OnWire
             /\ cached' \in {cached, snap, Nothing}
    <3>1. OnWire' \subseteq OnWire
      BY <2>1 DEF OnWire, Snaps
    <3>2. Behind(Snaps(wire'), {snap'})
      BY <1>1, <1>2, <2>1 DEF Behind, OnWire
    <3>3. \A w \in OnWire' : \E v \in OnWire : v <= w
      BY <1>2, <3>1
    <3>4. /\ snap' <= book' /\ (cached' # Nothing => cached' <= snap')
          /\ cached # Nothing /\ cached' # Nothing => cached' >= cached
      BY <1>1, <1>2, <2>1
    <3> QED
      BY <2>1, <3>2, <3>3, <3>4
  <2>2. CASE snap' = book /\ UNCHANGED <<wire, cached>>
    <3>1. OnWire' = Snaps(wire) \cup {book} /\ Snaps(wire') = Snaps(wire) /\ Rising(wire')
      BY <1>1, <2>2 DEF OnWire, Snaps
    <3>2. Behind(Snaps(wire'), {snap'})
      BY <1>1, <1>2, <2>2, <3>1 DEF Behind, OnWire
    <3>3. ASSUME NEW w \in OnWire' PROVE \E v \in OnWire : v <= w
      <4>1. CASE w \in Snaps(wire)
        BY <1>2, <4>1 DEF OnWire
      <4>2. CASE w = book
        BY <1>1, <4>2 DEF OnWire
      <4> QED
        BY <3>1, <3>3, <4>1, <4>2
    <3>4. /\ snap' <= book' /\ (cached' # Nothing => cached' <= snap')
          /\ cached # Nothing /\ cached' # Nothing => cached' >= cached
      BY <1>1, <1>2, <2>2
    <3> QED
      BY <3>1, <3>2, <3>3, <3>4
  <2> QED
    BY <2>1, <2>2
<1>5. OnWire' \subseteq Int
  <2>1. CASE UNCHANGED snap /\ Snaps(wire') \subseteq OnWire
    BY <1>2, <2>1 DEF OnWire, Snaps
  <2>2. CASE snap' = book /\ UNCHANGED wire
    BY <1>2, <2>2 DEF OnWire, Snaps
  <2> QED
    BY <2>1, <2>2
<1>6. ASSUME NEW S, S \subseteq Int, Behind(S, OnWire) PROVE Behind(S, OnWire')
  <2>1. ASSUME NEW x \in S, NEW w \in OnWire' PROVE x <= w
    <3>1. PICK v \in OnWire : v <= w
      BY <1>4
    <3>2. x <= v
      BY <1>6 DEF Behind
    <3> QED
      BY <1>2, <1>5, <1>6, <3>1, <3>2
  <2> QED
    BY <2>1 DEF Behind
<1>7. Behind(Waiting', OnWire')
  BY <1>1, <1>2, <1>3, <1>6
<1>8. ASSUME NEW c \in Clients
      PROVE  /\ Behind(Snaps(send'[c]), Waiting' \cup OnWire')
             /\ Behind({shown'[c]}, AtHub(c)' \cup OnWire')
  <2>1. Behind(Snaps(send[c]), OnWire) /\ Behind({shown[c]}, OnWire)
    BY <1>1 DEF Behind
  <2>2. Behind(Snaps(send[c]), OnWire') /\ Behind({shown[c]}, OnWire')
    BY <1>2, <1>6, <2>1
  <2>3. Behind(Snaps(send[c]), Waiting) /\ Behind({shown[c]}, AtHub(c))
    BY <1>1 DEF Behind
  <2> QED
    BY <1>3, <2>2, <2>3 DEF Behind
<1>9. Advances
  BY <1>2, <1>3, <1>4 DEF Advances
<1> QED
  BY <1>3, <1>4, <1>7, <1>8, <1>9 DEF AdvanceInv

\* The hub puts the next message into latest or into the channel of trades.
LEMMA ReceiveAdvances ==
    ASSUME TypeOK, AdvanceInv, HubReceives
    PROVE  AdvanceInv' /\ Advances
<1> DEFINE m == Head(wire)
<1>1. /\ snap <= book /\ (cached # Nothing => cached <= snap)
      /\ Snaps(tradeChan) = {} /\ Rising(wire) /\ \A c \in Clients : Rising(send[c])
      /\ latest # Nothing => latest.type = "ORDERBOOK_UPDATE"
      /\ Behind(Snaps(wire), {snap}) /\ Behind(Waiting, OnWire)
      /\ \A c \in Clients : /\ Behind(Snaps(send[c]), Waiting \cup OnWire)
                            /\ Behind({shown[c]}, AtHub(c) \cup OnWire)
  BY DEF AdvanceInv
<1>2. /\ UNCHANGED <<send, shown, snap, book, cached>>
      /\ wire \in Seq(Messages) /\ wire # <<>> /\ wire' = Tail(wire)
      /\ m \in Messages /\ tradeChan \in Seq(Messages)
  BY HeadTail DEF HubReceives, Receive, clientVars, reportVars, TypeOK
<1>3. /\ Snaps(wire') \subseteq Snaps(wire) /\ Rising(wire')
      /\ m.type = "ORDERBOOK_UPDATE" => m.version \in Snaps(wire) /\ Behind({m.version}, Snaps(wire'))
  BY <1>1, <1>2, SnapsTail
<1>4. OnWire' \subseteq OnWire /\ Behind(Snaps(wire'), {snap'})
  BY <1>1, <1>2, <1>3 DEF OnWire, Behind, Snaps
<1>5. Advances
  <2>1. (\A c \in Clients : shown[c] \in Int) /\ (cached # Nothing => cached \in Int)
    BY SnapsType DEF TypeOK
  <2> QED
    BY <1>2, <2>1 DEF Advances
<1>6. /\ Snaps(tradeChan') = {}
      /\ latest' # Nothing => latest'.type = "ORDERBOOK_UPDATE"
      /\ Waiting' = Waiting \/ (m.type = "ORDERBOOK_UPDATE" /\ Waiting' \subseteq {m.version})
  <2>1. CASE m.type = "ORDERBOOK_UPDATE"
    <3>1. latest' = m /\ tradeChan' = tradeChan
      BY <2>1 DEF HubReceives, Receive
    <3> QED
      BY <1>1, <2>1, <3>1 DEF Waiting
  <2>2. CASE m.type # "ORDERBOOK_UPDATE"
    <3>1. latest' = latest /\ (tradeChan' = Append(tradeChan, m) \/ tradeChan' = tradeChan)
      BY <2>2 DEF HubReceives, Receive
    <3> QED
      BY <1>1, <1>2, <2>2, <3>1, SnapsAppend DEF Waiting
  <2> QED
    BY <2>1, <2>2
<1> HIDE DEF m
<1>7. Behind(Waiting', OnWire')
  <2>1. CASE Waiting' = Waiting
    BY <1>1, <1>4, <2>1 DEF Behind
  <2>2. CASE m.type = "ORDERBOOK_UPDATE" /\ Waiting' \subseteq {m.version}
    <3>1. m.version <= snap /\ snap' = snap
      BY <1>1, <1>2, <1>3, <2>2 DEF Behind
    <3>2. OnWire' = Snaps(wire') \cup {snap}
      BY <1>2 DEF OnWire, Snaps
    <3> QED
      BY <1>3, <2>2, <3>1, <3>2 DEF Behind
  <2> QED
    BY <1>6, <2>1, <2>2
<1>8. ASSUME NEW c \in Clients
      PROVE  /\ Behind(Snaps(send'[c]), Waiting' \cup OnWire')
             /\ Behind({shown'[c]}, AtHub(c)' \cup OnWire')
  <2>1. Waiting' \subseteq Waiting \cup OnWire
    BY <1>3, <1>6 DEF OnWire
  <2>2. Snaps(send'[c]) = Snaps(send[c]) /\ shown'[c] = shown[c] /\ AtHub(c)' = Snaps(send[c]) \cup Waiting'
    BY <1>2 DEF AtHub, Snaps
  <2> QED
    BY <1>1, <1>4, <2>1, <2>2 DEF Behind, AtHub
<1> QED
  BY <1>1, <1>2, <1>3, <1>4, <1>5, <1>6, <1>7, <1>8 DEF AdvanceInv

\* What a client is shown, and what the cache holds, never goes back in time,
\* however the messages are received, conflated or lost.
THEOREM SnapshotsAlwaysAdvance == Spec => SnapshotsAdvance
<1>1. Init => AdvanceInv
  <2> SUFFICES ASSUME Init PROVE AdvanceInv
    OBVIOUS
  <2>1. /\ wire = <<>> /\ tradeChan = <<>> /\ latest = Nothing /\ snap = 0 /\ book = 0 /\ cached = 0
        /\ \A c \in Clients : send[c] = <<>> /\ shown[c] = 0
    BY DEF Init, HubInit
  <2>2. Snaps(<<>>) = {} /\ Rising(<<>>)
    BY DEF Snaps, Rising
  <2>3. OnWire = {0} /\ Waiting = {} /\ \A c \in Clients : AtHub(c) = {}
    BY <2>1, <2>2 DEF OnWire, Waiting, AtHub
  <2> QED
    BY <2>1, <2>2, <2>3 DEF AdvanceInv, Behind
<1>2. TypeOK /\ TypeOK' /\ AdvanceInv /\ [Next]_vars => AdvanceInv' /\ Advances
  <2> SUFFICES ASSUME TypeOK, TypeOK', AdvanceInv, [Next]_vars PROVE AdvanceInv' /\ Advances
    OBVIOUS
  <2> USE DEF wsVars, hubVars, clientVars, reportVars, redisVars
  <2>1. /\ book \in Int /\ book' \in Int /\ snap \in Int /\ snap \in Versions
        /\ wire \in Seq(Messages) /\ Rising(wire) /\ Snaps(wire) \subseteq OnWire
        /\ Behind(Snaps(wire), {snap})
    BY DEF TypeOK, Versions, AdvanceInv, OnWire
  <2>2. ASSUME UNCHANGED <<send, tradeChan, latest, shown, snap, wire>>, book' \in {book, book + 1},
               cached' \in {cached, snap, Nothing}
        PROVE  AdvanceInv' /\ Advances
    BY <2>1, <2>2, LoopAdvances
  <2>3. ASSUME UNCHANGED <<send, tradeChan, latest, shown, snap, book, cached>>,
               Rising(wire'), Snaps(wire') \subseteq OnWire
        PROVE  AdvanceInv' /\ Advances
    BY <2>1, <2>3, LoopAdvances
  <2>4. CASE Change \/ Report \/ LoseTx
    <3>1. UNCHANGED <<send, tradeChan, latest, shown, snap, wire, cached>> /\ book' \in {book, book + 1}
      BY <2>4 DEF Change, Report, LoseTx
    <3> QED
      BY <2>2, <3>1
  <2>5. CASE Tick \/ SetCache \/ SetCacheFails \/ Expire \/ PublishSnapshotFails
             \/ (\E v \in leaving : PublishTradesFails(v)) \/ UNCHANGED vars
    <3>1. /\ UNCHANGED <<send, tradeChan, latest, shown, snap, wire, book>>
          /\ cached' \in {cached, snap, Nothing}
      BY <2>5 DEF Tick, SetCache, SetCacheFails, Expire, PublishSnapshotFails, PublishTradesFails, vars
    <3> QED
      BY <2>2, <3>1
  <2>6. CASE LoseMessage
    <3>1. UNCHANGED <<send, tradeChan, latest, shown, snap, book, cached>> /\ wire # <<>> /\ wire' = Tail(wire)
      BY <2>6 DEF LoseMessage
    <3>2. Rising(wire') /\ Snaps(wire') \subseteq OnWire
      BY <2>1, <3>1, SnapsTail
    <3> QED
      BY <2>3, <3>1, <3>2
  <2>7. CASE PublishSnapshot
    <3>1. UNCHANGED <<send, tradeChan, latest, shown, snap, book, cached>> /\ wire' = Append(wire, Snapshot(snap))
      BY <2>7 DEF PublishSnapshot
    <3>2. Snapshot(snap) \in Messages /\ Snapshot(snap).version = snap
          /\ Snapshot(snap).type = "ORDERBOOK_UPDATE"
      BY <2>1, MessagesHaveType DEF Snapshot
    <3>3. Rising(wire') /\ Snaps(wire') = Snaps(wire) \cup {snap}
      BY <2>1, <3>1, <3>2, RisingAppend, SnapsAppend
    <3> QED
      BY <2>3, <3>1, <3>3 DEF OnWire
  <2>8. ASSUME NEW v \in leaving, PublishTrades(v) PROVE AdvanceInv' /\ Advances
    <3>1. UNCHANGED <<send, tradeChan, latest, shown, snap, book, cached>> /\ wire' = Append(wire, Trades(v))
      BY <2>8 DEF PublishTrades
    <3>2. Trades(v) \in Messages /\ Trades(v).type # "ORDERBOOK_UPDATE"
      <4>1. v \in Versions
        BY DEF TypeOK
      <4> QED
        BY <4>1, MessagesHaveType DEF Trades
    <3>3. Rising(wire') /\ Snaps(wire') = Snaps(wire)
      BY <2>1, <3>1, <3>2, RisingAppend, SnapsAppend
    <3> QED
      BY <2>1, <2>3, <3>1, <3>3
  <2>9. CASE TakeSnapshot
    <3>1. UNCHANGED <<send, tradeChan, latest, shown, wire, book, cached>> /\ snap' = book
      BY <2>9 DEF TakeSnapshot
    <3> QED
      BY <2>1, <3>1, LoopAdvances
  <2> QED
    BY <2>4, <2>5, <2>6, <2>7, <2>8, <2>9, HubAdvances, ReceiveAdvances DEF Next, LoopStep, FaultStep
<1>3. Advances => [/\ \A c \in Clients : shown'[c] >= shown[c]
                   /\ cached # Nothing /\ cached' # Nothing => cached' >= cached]_vars
  BY DEF Advances
<1> QED
  BY <1>1, <1>2, <1>3, TypeCorrect, PTL DEF Spec, SnapshotsAdvance
=============================================================================
