---------------------------- MODULE OutboxProofs ----------------------------
(***************************************************************************)
(* The safety of Outbox, for any number of commands, any limit of a fetch  *)
(* and any number of faults.  The inductive invariant adds to the          *)
(* properties what the relay and the worker hold in their hands: the       *)
(* fetched events are committed, the sent ones are on the topic, and       *)
(* everything the worker has put behind it has been handled.               *)
(***************************************************************************)
EXTENDS Outbox, FiniteSetTheorems, WellFoundedInduction, TLAPS

BatchIsCommitted == batch \subseteq Committed

SentIsPublished == sent \subseteq Published

WorkerIsAhead == working => position > offset

PassedIsHandled == 1 .. HandledPosition \subseteq done

IInv ==
    /\ TypeOK
    /\ ProcessedArePublished /\ PublishedAreCommitted /\ CommittedAreHandled
    /\ BatchIsCommitted /\ SentIsPublished
    /\ WorkerIsAhead /\ PassedIsHandled

\* At the start nothing is published, marked or handled.
LEMMA InitIInv == Init => IInv
<1> SUFFICES ASSUME Init PROVE IInv
  OBVIOUS
<1> USE DEF Init
<1>1. Len(topic) = 0 /\ topic \in Seq(Commands)
  OBVIOUS
<1>2. Published = {}
  BY <1>1 DEF Published
<1>3. TypeOK
  <2>1. notify \in BOOLEAN /\ refused \in BOOLEAN /\ working \in BOOLEAN
    OBVIOUS
  <2>2. /\ tx \in [Commands -> {"none", "open", "committed", "aborted"}]
        /\ relay \in {"fetching", "retrying", "publishing", "returned", "waiting"}
        /\ offset \in 0 .. Len(topic) /\ position \in offset .. Len(topic)
        /\ faults \in 0 .. MaxFaults
    BY <1>1, BoundsAssumption
  <2> QED  BY <1>1, <2>1, <2>2 DEF TypeOK
<1>4. HandledPosition = 0 /\ 1 .. HandledPosition = {} /\ 1 .. offset = {}
  BY DEF HandledPosition
<1> QED
  BY <1>2, <1>3, <1>4 DEF IInv, ProcessedArePublished, PublishedAreCommitted,
     CommittedAreHandled, BatchIsCommitted, SentIsPublished, WorkerIsAhead, PassedIsHandled

-----------------------------------------------------------------------------

\* What times copies of c do to the topic.
LEMMA Appended ==
  ASSUME NEW c \in Commands, NEW times \in Nat, topic \in Seq(Commands),
         topic' = topic \o [i \in 1 .. times |-> c]
  PROVE  /\ topic' \in Seq(Commands)
         /\ Len(topic') = Len(topic) + times
         /\ \A i \in 1 .. Len(topic) : topic'[i] = topic[i]
         /\ \A i \in Len(topic) + 1 .. Len(topic) + times : topic'[i] = c
<1> DEFINE copies == [i \in 1 .. times |-> c]
<1>1. copies \in Seq(Commands) /\ Len(copies) = times
  OBVIOUS
<1>2. \A i \in 1 .. times : copies[i] = c
  OBVIOUS
<1>3. topic' = topic \o copies
  OBVIOUS
<1> HIDE DEF copies
<1>4. topic' \in Seq(Commands) /\ Len(topic') = Len(topic) + times
  BY <1>1, <1>3
<1>5. \A i \in 1 .. Len(topic) : topic'[i] = topic[i]
  BY <1>1, <1>3
<1>6. ASSUME NEW i \in Len(topic) + 1 .. Len(topic) + times
      PROVE  topic'[i] = c
  <2>1. topic'[i] = copies[i - Len(topic)] /\ i - Len(topic) \in 1 .. times
    BY <1>1, <1>3
  <2> QED  BY <2>1, <1>2
<1> QED  BY <1>4, <1>5, <1>6

-----------------------------------------------------------------------------

\* The handlers only add to what is committed.
LEMMA HandlersKeepIInv ==
  ASSUME IInv, NEW c \in Commands,
         Begin(c) \/ CallNotify(c) \/ Commit(c) \/ Abort(c) \/ CommitUnseen(c)
  PROVE  IInv'
<1> USE BoundsAssumption
    DEF IInv, TypeOK, ProcessedArePublished, PublishedAreCommitted, CommittedAreHandled,
        BatchIsCommitted, SentIsPublished, WorkerIsAhead, PassedIsHandled, HandledPosition,
        Published, Committed, tableVars, relayVars, workerVars, Fault
<1>1. CASE Begin(c)
  BY <1>1 DEF Begin
<1>2. CASE CallNotify(c)
  BY <1>2 DEF CallNotify, Notify
<1>3. CASE Commit(c)
  BY <1>3 DEF Commit
<1>4. CASE Abort(c)
  BY <1>4 DEF Abort
<1>5. CASE CommitUnseen(c)
  BY <1>5 DEF CommitUnseen
<1> QED
  BY <1>1, <1>2, <1>3, <1>4, <1>5

\* The relay marks what it has sent and fetches what is committed.
LEMMA RelayKeepsIInv ==
  ASSUME IInv, NEW c \in Commands,
         Fetch \/ FetchFails \/ Mark \/ MarkFails \/ Select \/ Wake \/ TimeOut
  PROVE  IInv'
<1> USE BoundsAssumption
    DEF IInv, TypeOK, ProcessedArePublished, PublishedAreCommitted, CommittedAreHandled,
        BatchIsCommitted, SentIsPublished, WorkerIsAhead, PassedIsHandled, HandledPosition,
        Published, Committed, tableVars, relayVars, workerVars, Fault
<1>1. CASE Fetch
  BY <1>1 DEF Fetch, Oldest, Unprocessed
<1>2. CASE FetchFails
  BY <1>2 DEF FetchFails
<1>3. CASE Mark
  BY <1>3 DEF Mark
<1>4. CASE MarkFails
  BY <1>4 DEF MarkFails
<1>5. CASE Select
  BY <1>5 DEF Select
<1>6. CASE Wake
  <2>1. /\ relay' = "fetching" /\ notify' \in BOOLEAN
        /\ UNCHANGED <<tableVars, told, batch, sent, topic, workerVars, done, preceded,
                       refused, faults>>
    BY <1>6 DEF Wake
  <2> QED  BY <2>1
<1>7. CASE TimeOut
  BY <1>7 DEF TimeOut
<1> QED
  BY <1>1, <1>2, <1>3, <1>4, <1>5, <1>6, <1>7

\* The worker handles one message after the other.
LEMMA WorkerKeepsIInv ==
  ASSUME IInv, NEW c \in Commands,
         FetchMessage \/ HandleMessage \/ CommitMessage \/ Rejoin \/ Crash
  PROVE  IInv'
<1> USE BoundsAssumption
    DEF IInv, TypeOK, ProcessedArePublished, PublishedAreCommitted, CommittedAreHandled,
        BatchIsCommitted, SentIsPublished, WorkerIsAhead, PassedIsHandled, HandledPosition,
        Published, Committed, tableVars, relayVars, workerVars, Fault
<1>1. CASE FetchMessage
  BY <1>1 DEF FetchMessage
<1>2. CASE HandleMessage
  <2>1. /\ working' = FALSE /\ done' = done \cup {position}
        /\ UNCHANGED <<tableVars, told, notify, relayVars, topic, offset, position, preceded,
                       refused, faults>>
    BY <1>2 DEF HandleMessage
  <2>2. position \in 1 .. Len(topic) /\ offset < position /\ 1 .. position - 1 \subseteq done
    <3>1. working
      BY <1>2 DEF HandleMessage
    <3> QED  BY <3>1
  <2>3. 1 .. position \subseteq done'
    <3>1. \A i \in 1 .. position : i \in 1 .. position - 1 \/ i = position
      BY <2>2
    <3> QED  BY <2>1, <2>2, <3>1
  <2>4. CommittedAreHandled' /\ PassedIsHandled' /\ WorkerIsAhead'
    BY <2>1, <2>3
  <2>5. TypeOK'
    BY <2>1, <2>2
  <2> QED  BY <2>1, <2>4, <2>5
<1>3. CASE CommitMessage
  BY <1>3 DEF CommitMessage
<1>4. CASE Rejoin
  BY <1>4 DEF Rejoin
<1>5. CASE Crash
  <2>1. /\ position' = offset /\ working' = FALSE /\ notify' \in BOOLEAN
        /\ relay' = "fetching" /\ batch' = {} /\ sent' = {}
        /\ faults < MaxFaults /\ faults' = faults + 1
        /\ UNCHANGED <<marked, topic, offset, done, preceded, refused>>
    BY <1>5 DEF Crash
  <2>2. /\ tx' \in [Commands -> {"none", "open", "committed", "aborted"}]
        /\ \A d \in Commands : tx[d] = "committed" <=> tx'[d] = "committed"
        /\ told' \subseteq Commands
    BY <1>5 DEF Crash
  <2>3. TypeOK'
    <3>1. offset \in 0 .. Len(topic) /\ faults + 1 \in 0 .. MaxFaults
      BY <2>1
    <3>2. working' \in BOOLEAN
      BY <2>1
    <3>3. offset \in offset .. Len(topic)
      BY <3>1
    <3>4. position' \in offset' .. Len(topic')
      BY <2>1, <3>3
    <3> QED  BY <2>1, <2>2, <3>1, <3>2, <3>4
  <2>4. Committed' = Committed
    BY <2>2
  <2>5. HandledPosition' = offset /\ Published' = Published
    BY <2>1
  <2> QED  BY <2>1, <2>3, <2>4, <2>5
<1> QED
  BY <1>1, <1>2, <1>3, <1>4, <1>5

\* What is sent arrives: Sending adds the event to the topic, however often it
\* gets through, and changes no place of the topic that was there before.
LEMMA SendingKeeps ==
  ASSUME TypeOK, NEW c \in Commands, NEW times \in Nat, Sending(c, times)
  PROVE  /\ topic' \in Seq(Commands) /\ Len(topic') = Len(topic) + times
         /\ Published \subseteq Published' /\ Published' \subseteq Published \cup {c}
         /\ times > 0 => c \in Published'
<1>1. topic \in Seq(Commands) /\ topic' = topic \o [i \in 1 .. times |-> c]
  BY DEF TypeOK, Sending
<1>2. /\ topic' \in Seq(Commands) /\ Len(topic') = Len(topic) + times
      /\ \A i \in 1 .. Len(topic) : topic'[i] = topic[i]
      /\ \A i \in Len(topic) + 1 .. Len(topic) + times : topic'[i] = c
  BY <1>1, Appended
<1>3. Len(topic) \in Nat
  BY <1>1
<1>4. Published \subseteq Published'
  BY <1>2, <1>3 DEF Published
<1>5. ASSUME NEW i \in 1 .. Len(topic') PROVE topic'[i] \in Published \cup {c}
  <2>1. i \in 1 .. Len(topic) \/ i \in Len(topic) + 1 .. Len(topic) + times
    BY <1>2, <1>3
  <2> QED  BY <1>2, <2>1 DEF Published
<1>6. Published' \subseteq Published \cup {c}
  BY <1>5 DEF Published
<1>7. ASSUME times > 0 PROVE c \in Published'
  <2>1. Len(topic) + 1 \in 1 .. Len(topic') /\ topic'[Len(topic) + 1] = c
    BY <1>2, <1>3, <1>7
  <2> QED  BY <2>1 DEF Published
<1> QED  BY <1>2, <1>4, <1>6, <1>7

\* Publishing, once, twice or not at all.
LEMMA PublishingKeepsIInv ==
  ASSUME IInv, NEW c \in Commands, NEW times \in Nat, Sending(c, times),
         sent' \subseteq sent \cup {c}, times = 0 => sent' \subseteq sent,
         refused' \in BOOLEAN, faults' \in 0 .. MaxFaults
  PROVE  IInv'
<1>1. /\ topic' \in Seq(Commands) /\ Len(topic') = Len(topic) + times
      /\ Published \subseteq Published' /\ Published' \subseteq Published \cup {c}
      /\ times > 0 => c \in Published'
  BY SendingKeeps DEF IInv
<1>2. /\ c \in batch /\ batch' = batch \ {c}
      /\ UNCHANGED <<tx, marked, told, notify, relay, offset, position, working, done, preceded>>
  BY DEF Sending, tableVars, workerVars
<1>3. Len(topic) \in Nat /\ 0 .. Len(topic) \subseteq 0 .. Len(topic')
  BY <1>1 DEF IInv, TypeOK
<1>4. /\ offset' \in 0 .. Len(topic') /\ position' \in offset' .. Len(topic')
      /\ done' \subseteq 1 .. Len(topic')
  BY <1>1, <1>2, <1>3 DEF IInv, TypeOK
<1>5. TypeOK'
  BY <1>1, <1>2, <1>4 DEF IInv, TypeOK
<1>6. Committed' = Committed /\ HandledPosition' = HandledPosition
  BY <1>2 DEF Committed, HandledPosition
<1>7. c \in Committed
  BY <1>2 DEF IInv, BatchIsCommitted
<1>8. sent' \subseteq Published'
  BY <1>1 DEF IInv, SentIsPublished
<1> QED
  BY <1>1, <1>2, <1>5, <1>6, <1>7, <1>8 DEF IInv, ProcessedArePublished, PublishedAreCommitted,
     CommittedAreHandled, BatchIsCommitted, SentIsPublished, WorkerIsAhead, PassedIsHandled

-----------------------------------------------------------------------------

\* Every step of a handler, the relay, the worker or a fault preserves the invariant.
LEMMA StepIInv == IInv /\ [Next]_vars => IInv'
<1> SUFFICES ASSUME IInv, [Next]_vars PROVE IInv'
  OBVIOUS
<1> USE DEF Next
<1>1. CASE HandlerStep
  BY <1>1, HandlersKeepIInv DEF HandlerStep
<1>2. CASE RelayStep
  <2>1. ASSUME NEW c \in Commands, Publish(c) PROVE IInv'
    <3>1. Sending(c, 1) /\ sent' = sent \cup {c} /\ refused' = refused /\ faults' = faults
      BY <2>1 DEF Publish
    <3>2. refused' \in BOOLEAN /\ faults' \in 0 .. MaxFaults
      BY <3>1 DEF IInv, TypeOK
    <3> QED  BY <3>1, <3>2, PublishingKeepsIInv
  <2>2. 1 \in Commands
    BY BoundsAssumption DEF Commands
  <2> QED  BY <1>2, <2>1, <2>2, RelayKeepsIInv DEF RelayStep
<1>3. CASE WorkerStep \/ CommitMessage
  <2>1. 1 \in Commands
    BY BoundsAssumption DEF Commands
  <2> QED  BY <1>3, <2>1, WorkerKeepsIInv DEF WorkerStep
<1>4. CASE FaultStep
  <2>1. faults' \in 0 .. MaxFaults
    BY <1>4, BoundsAssumption DEF FaultStep, FetchFails, MarkFails, Rejoin, Crash, CommitUnseen,
       PublishTwice, PublishFails, Fault, IInv, TypeOK
  <2>2. ASSUME NEW c \in Commands, PublishTwice(c) PROVE IInv'
    <3>1. Sending(c, 2) /\ sent' = sent \cup {c} /\ refused' = refused
      BY <2>2 DEF PublishTwice
    <3>2. refused' \in BOOLEAN
      BY <3>1 DEF IInv, TypeOK
    <3> QED  BY <2>1, <3>1, <3>2, PublishingKeepsIInv
  <2>3. ASSUME NEW c \in Commands, PublishFails(c) PROVE IInv'
    <3>1. sent' \subseteq sent /\ refused' \in BOOLEAN
      BY <2>3 DEF PublishFails
    <3>2. CASE Sending(c, 0)
      BY <2>1, <3>1, <3>2, PublishingKeepsIInv
    <3>3. CASE Sending(c, 1)
      BY <2>1, <3>1, <3>3, PublishingKeepsIInv
    <3> QED  BY <2>3, <3>2, <3>3 DEF PublishFails
  <2>4. 1 \in Commands
    BY BoundsAssumption DEF Commands
  <2> QED
    BY <1>4, <2>2, <2>3, <2>4, HandlersKeepIInv, RelayKeepsIInv, WorkerKeepsIInv DEF FaultStep
<1>5. CASE UNCHANGED vars
  BY <1>5 DEF vars, tableVars, relayVars, workerVars, IInv, TypeOK, ProcessedArePublished,
     PublishedAreCommitted, CommittedAreHandled, BatchIsCommitted, SentIsPublished,
     WorkerIsAhead, PassedIsHandled, HandledPosition, Published, Committed
<1> QED
  BY <1>1, <1>2, <1>3, <1>4, <1>5

\* The inductive invariant holds throughout, for any number of faults.
THEOREM Invariance == Spec => []IInv
  BY InitIInv, StepIInv, PTL DEF Spec

\* The state keeps its shape.
THEOREM TypeCorrect == Spec => []TypeOK
<1>1. IInv => TypeOK
  BY DEF IInv
<1> QED  BY <1>1, Invariance, PTL

\* Whatever fails, an event is not marked as processed before it is on the topic.
THEOREM ProcessedAlwaysPublished == Spec => []ProcessedArePublished
<1>1. IInv => ProcessedArePublished
  BY DEF IInv
<1> QED  BY <1>1, Invariance, PTL

\* The worker never sees a command whose transaction has not committed.
THEOREM OnlyCommittedPublished == Spec => []PublishedAreCommitted
<1>1. IInv => PublishedAreCommitted
  BY DEF IInv
<1> QED  BY <1>1, Invariance, PTL

\* No crash, rebalance or late flush makes the worker skip a message.
THEOREM NoMessageSkipped == Spec => []CommittedAreHandled
<1>1. IInv => CommittedAreHandled
  BY DEF IInv
<1> QED  BY <1>1, Invariance, PTL

-----------------------------------------------------------------------------
(* Outbox implements Delivery, but for its fairness: a transaction commits, *)
(* a committed command is handled, and nothing else is to be seen.          *)

\* Every step is a step of Delivery or changes nothing that Delivery shows.
LEMMA StepDelivers ==
  IInv /\ [Next]_vars => [Abstract!Next]_<<Committed, Delivered>>
<1> SUFFICES ASSUME IInv, [Next]_vars PROVE [Abstract!Next]_<<Committed, Delivered>>
  OBVIOUS
<1> USE DEF Abstract!Next, Abstract!Accept, Abstract!Deliver
<1>1. ASSUME UNCHANGED <<topic, done>>, NEW c \in Commands, tx[c] = "open",
             tx' = [tx EXCEPT ![c] = "committed"]
      PROVE  Abstract!Next
  <2>1. Committed' = Committed \cup {c}
    BY <1>1 DEF IInv, TypeOK, Committed
  <2>2. Delivered' = Delivered
    BY <1>1 DEF Delivered
  <2> QED  BY <2>1, <2>2
<1>2. ASSUME UNCHANGED <<topic, done>>, Committed' = Committed
      PROVE  UNCHANGED <<Committed, Delivered>>
  BY <1>2 DEF Delivered
<1>3. CASE HandlerStep
  <2>1. PICK c \in Commands : Begin(c) \/ CallNotify(c) \/ Commit(c) \/ Abort(c)
    BY <1>3 DEF HandlerStep
  <2>2. CASE Commit(c)
    BY <1>1, <2>2 DEF Commit
  <2>3. CASE ~Commit(c)
    <3>1. UNCHANGED <<topic, done>>
      BY <2>1, <2>3 DEF Begin, CallNotify, Abort, tableVars, workerVars
    <3>2. Committed' = Committed
      BY <2>1, <2>3 DEF Begin, CallNotify, Abort, tableVars, Committed, IInv, TypeOK
    <3> QED  BY <1>2, <3>1, <3>2
  <2> QED  BY <2>2, <2>3
<1>4. ASSUME NEW c \in Commands, NEW times \in Nat, Sending(c, times)
      PROVE  UNCHANGED <<Committed, Delivered>>
  <2>1. topic' = topic \o [i \in 1 .. times |-> c] /\ done' = done /\ tx' = tx
    BY <1>4 DEF Sending, tableVars
  <2>2. topic \in Seq(Commands) /\ done \subseteq 1 .. Len(topic)
    BY DEF IInv, TypeOK
  <2>3. \A i \in 1 .. Len(topic) : topic'[i] = topic[i]
    BY <2>1, <2>2, Appended
  <2> QED  BY <2>1, <2>2, <2>3 DEF Delivered, Committed
<1>5. CASE RelayStep
  <2>1. CASE \E c \in Commands : Publish(c)
    BY <1>4, <2>1 DEF Publish
  <2>2. CASE Fetch \/ Mark \/ Select \/ Wake \/ TimeOut
    <3>1. UNCHANGED <<topic, done, tx>>
      BY <2>2 DEF Fetch, Mark, Select, Wake, TimeOut, tableVars
    <3> QED  BY <1>2, <3>1 DEF Committed
  <2> QED  BY <1>5, <2>1, <2>2 DEF RelayStep
<1>6. CASE HandleMessage
  <2>1. done' = done \cup {position} /\ topic' = topic /\ tx' = tx
    BY <1>6 DEF HandleMessage, tableVars
  <2>2. position \in 1 .. Len(topic)
    BY <1>6 DEF HandleMessage, IInv, TypeOK, WorkerIsAhead
  <2>3. topic[position] \in Committed
    BY <2>2 DEF IInv, PublishedAreCommitted, Published
  <2>4. Delivered' = Delivered \cup {topic[position]} /\ Committed' = Committed
    BY <2>1 DEF Delivered, Committed
  <2>5. topic[position] \in Commands
    BY <2>3 DEF Committed
  <2> QED  BY <2>3, <2>4, <2>5
<1>7. CASE FetchMessage \/ CommitMessage
  <2>1. UNCHANGED <<topic, done, tx>>
    BY <1>7 DEF FetchMessage, CommitMessage, tableVars
  <2> QED  BY <1>2, <2>1 DEF Committed
<1>8. CASE FaultStep
  <2>1. CASE FetchFails \/ MarkFails \/ Rejoin
    <3>1. UNCHANGED <<topic, done, tx>>
      BY <2>1 DEF FetchFails, MarkFails, Rejoin, tableVars
    <3> QED  BY <1>2, <3>1 DEF Committed
  <2>2. CASE Crash
    BY <1>2, <2>2 DEF Crash, Committed, IInv, TypeOK
  <2>3. CASE \E c \in Commands : CommitUnseen(c)
    BY <1>1, <2>3 DEF CommitUnseen, workerVars
  <2>4. CASE \E c \in Commands : PublishTwice(c) \/ PublishFails(c)
    BY <1>4, <2>4 DEF PublishTwice, PublishFails
  <2> QED  BY <1>8, <2>1, <2>2, <2>3, <2>4 DEF FaultStep
<1>9. CASE UNCHANGED vars
  BY <1>2, <1>9 DEF vars, tableVars, Committed
<1> QED
  BY <1>3, <1>5, <1>6, <1>7, <1>8, <1>9 DEF Next, WorkerStep

\* Commands are handled only when they have committed, and at least what has
\* been handled stays handled, whatever fails on the way.
THEOREM SafelyDelivers ==
  Spec => Abstract!Init /\ [][Abstract!Next]_<<Committed, Delivered>>
<1>1. Init => Abstract!Init
  BY DEF Init, Abstract!Init, Committed, Delivered
<1> QED  BY <1>1, StepDelivers, Invariance, PTL DEF Spec

-----------------------------------------------------------------------------
(* Wakeups, duplicates and the order of the topic                           *)

\* The oldest event of a set is fetched, and with an event every older one.
LEMMA OldestFirst ==
  ASSUME NEW S \in SUBSET Commands
  PROVE  /\ Oldest(S) \subseteq S
         /\ S # {} => Oldest(S) # {}
         /\ \A c \in S, d \in Oldest(S) : c < d => c \in Oldest(S)
<1>1. IsFiniteSet(S) /\ S \subseteq Nat /\ Limit \in Nat \ {0}
  <2>1. IsFiniteSet(1 .. MaxCommands)
    BY BoundsAssumption, FS_Interval
  <2>2. S \in SUBSET (1 .. MaxCommands)
    BY DEF Commands
  <2>3. IsFiniteSet(S)
    BY <2>1, <2>2, FS_Subset
  <2> QED  BY <2>2, <2>3, BoundsAssumption
<1>2. ASSUME S # {} PROVE Oldest(S) # {}
  <2>1. PICK m \in S : \A n \in S : ~(n < m)
    <3>1. PICK m \in S : \A n \in S : <<n, m>> \notin OpToRel(<, Nat)
      BY <1>1, <1>2, WFMin, NatLessThanWellFounded
    <3> QED  BY <1>1, <3>1 DEF OpToRel
  <2>2. {e \in S : e < m} = {}
    BY <1>1, <2>1
  <2>3. Cardinality({e \in S : e < m}) = 0
    BY <2>2, FS_EmptySet
  <2>4. m \in Oldest(S)
    BY <1>1, <2>3 DEF Oldest
  <2> QED  BY <2>4
<1>3. ASSUME NEW c \in S, NEW d \in Oldest(S), c < d PROVE c \in Oldest(S)
  <2>1. d \in S /\ Cardinality({e \in S : e < d}) < Limit
    BY DEF Oldest
  <2>2. {e \in S : e < c} \in SUBSET {e \in S : e < d}
    <3>1. ASSUME NEW e \in S, e < c PROVE e < d
      BY <1>1, <1>3, <2>1, <3>1
    <3> QED  BY <3>1
  <2>3. IsFiniteSet({e \in S : e < d})
    BY <1>1, FS_Subset
  <2>4. Cardinality({e \in S : e < c}) <= Cardinality({e \in S : e < d})
    BY <2>2, <2>3, FS_Subset
  <2>5. /\ Cardinality({e \in S : e < c}) \in Nat
        /\ Cardinality({e \in S : e < d}) \in Nat
    BY <2>2, <2>3, FS_Subset, FS_CardinalityType
  <2>6. Cardinality({e \in S : e < c}) < Limit
    BY <1>1, <2>1, <2>4, <2>5
  <2> QED  BY <2>6 DEF Oldest
<1> QED  BY <1>2, <1>3 DEF Oldest

\* Until the first fault, nobody is told of a command before it has committed
\* but of a cancellation; a batch that has been published is not empty; and a
\* relay that has found nothing has missed no token.
Heard ==
    \A c \in Unprocessed : notify \/ c \notin told \/ c \in Cancellations

WakeupInv ==
    faults = 0 =>
        /\ \A c \in Commands : tx[c] \in {"none", "open"} /\ c \notin Cancellations => c \notin told
        /\ relay = "publishing" => batch \cup sent # {}
        /\ relay \in {"returned", "waiting"} => Heard

LEMMA WakeupInit == Init => WakeupInv
<1> SUFFICES ASSUME Init PROVE WakeupInv
  OBVIOUS
<1>1. told = {} /\ relay = "fetching"
  BY DEF Init
<1> QED  BY <1>1 DEF WakeupInv

\* A fault ends what WakeupInv and NoFaultNoDuplicate speak of.
LEMMA Faulty == IInv /\ FaultStep => faults' # 0
<1> SUFFICES ASSUME IInv, FaultStep PROVE faults' # 0
  OBVIOUS
<1>1. faults \in Nat
  BY BoundsAssumption DEF IInv, TypeOK
<1>2. faults' = faults + 1
  BY DEF FaultStep, FetchFails, MarkFails, Rejoin, Crash, CommitUnseen, PublishTwice,
         PublishFails, Fault
<1> QED  BY <1>1, <1>2

\* Every other step leaves the number of faults as it is.
LEMMA Faultless ==
  ASSUME HandlerStep \/ RelayStep \/ WorkerStep \/ CommitMessage
  PROVE  faults' = faults /\ refused' = refused
  BY DEF HandlerStep, Begin, CallNotify, Commit, Abort, RelayStep, Fetch, Publish, Sending,
         Mark, Select, Wake, TimeOut, WorkerStep, FetchMessage, HandleMessage, CommitMessage

LEMMA WakeupStep == IInv /\ WakeupInv /\ [Next]_vars => WakeupInv'
<1> SUFFICES ASSUME IInv, WakeupInv, [Next]_vars, faults' = 0
             PROVE  /\ \A c \in Commands : tx'[c] \in {"none", "open"} /\ c \notin Cancellations
                                             => c \notin told'
                    /\ relay' = "publishing" => batch' \cup sent' # {}
                    /\ relay' \in {"returned", "waiting"} => Heard'
  BY DEF WakeupInv
<1> USE DEF Heard, Unprocessed, Committed
<1>1. CASE HandlerStep
  <2>1. faults = 0 /\ tx \in [Commands -> {"none", "open", "committed", "aborted"}]
    BY <1>1, Faultless DEF IInv, TypeOK
  <2>2. PICK c \in Commands : Begin(c) \/ CallNotify(c) \/ Commit(c) \/ Abort(c)
    BY <1>1 DEF HandlerStep
  <2>3. CASE Begin(c)
    BY <2>1, <2>3 DEF Begin, WakeupInv, relayVars
  <2>4. CASE CallNotify(c)
    BY <2>1, <2>4 DEF CallNotify, Notify, WakeupInv, relayVars, tableVars
  <2>5. CASE Commit(c)
    BY <2>1, <2>5 DEF Commit, WakeupInv, relayVars
  <2>6. CASE Abort(c)
    BY <2>1, <2>6 DEF Abort, WakeupInv, relayVars
  <2> QED  BY <2>2, <2>3, <2>4, <2>5, <2>6
<1>2. CASE RelayStep
  <2>1. faults = 0
    BY <1>2, Faultless
  <2>2. CASE Fetch
    <3>1. Unprocessed \in SUBSET Commands
      OBVIOUS
    <3>2. batch' = {} => Unprocessed = {}
      BY <2>2, <3>1, OldestFirst DEF Fetch
    <3> QED  BY <2>1, <2>2, <3>2 DEF Fetch, WakeupInv, tableVars
  <2>3. CASE \E c \in Commands : Publish(c)
    BY <2>1, <2>3 DEF Publish, Sending, WakeupInv, tableVars
  <2>4. CASE Mark
    BY <2>1, <2>4 DEF Mark, WakeupInv
  <2>5. CASE Select
    BY <2>1, <2>5 DEF Select, WakeupInv, tableVars
  <2>6. CASE Wake
    BY <2>1, <2>6 DEF Wake, WakeupInv, tableVars
  <2>7. CASE TimeOut
    BY <2>1, <2>7 DEF TimeOut, WakeupInv, tableVars
  <2> QED  BY <1>2, <2>2, <2>3, <2>4, <2>5, <2>6, <2>7 DEF RelayStep
<1>3. CASE WorkerStep \/ CommitMessage
  BY <1>3, Faultless
     DEF WorkerStep, FetchMessage, HandleMessage, CommitMessage, WakeupInv, tableVars, relayVars
<1>4. CASE FaultStep
  BY <1>4, Faulty
<1>5. CASE UNCHANGED vars
  BY <1>5 DEF vars, tableVars, relayVars, WakeupInv
<1> QED  BY <1>1, <1>2, <1>3, <1>4, <1>5 DEF Next

\* While no fault strikes, no committed order or deposit waits for the timeout
\* of a relay whose token has been lost.
THEOREM NoWakeupEverLost == Spec => []NoWakeupIsLost
<1>1. WakeupInv => NoWakeupIsLost
  BY DEF WakeupInv, Heard, NoWakeupIsLost
<1> QED  BY <1>1, InitIInv, StepIInv, WakeupInit, WakeupStep, PTL DEF Spec

\* Until the first fault, what has been published is marked, or sent by the
\* batch in hand, and the rest of that batch has not been published.
DuplicateInv ==
    faults = 0 =>
        /\ \A i, j \in 1 .. Len(topic) : topic[i] = topic[j] => i = j
        /\ Published \subseteq marked \cup sent
        /\ relay # "publishing" => Published \subseteq marked
        /\ relay = "publishing" => batch \cap Published = {}

LEMMA DuplicateInit == Init => DuplicateInv
<1> SUFFICES ASSUME Init PROVE DuplicateInv
  OBVIOUS
<1>1. 1 .. Len(topic) = {}
  BY DEF Init
<1>2. Published = {}
  BY <1>1 DEF Published
<1> QED  BY <1>1, <1>2 DEF DuplicateInv

LEMMA DuplicateStep == IInv /\ DuplicateInv /\ [Next]_vars => DuplicateInv'
<1> SUFFICES ASSUME IInv, DuplicateInv, [Next]_vars, faults' = 0 PROVE DuplicateInv'
  BY DEF DuplicateInv
<1>1. ASSUME UNCHANGED <<relayVars, topic, marked>>, faults = 0 PROVE DuplicateInv'
  BY <1>1 DEF DuplicateInv, Published, relayVars
<1>2. CASE HandlerStep
  BY <1>1, <1>2, Faultless
     DEF HandlerStep, Begin, CallNotify, Commit, Abort, tableVars
<1>3. CASE RelayStep
  <2>1. faults = 0
    BY <1>3, Faultless
  <2>2. CASE Fetch
    <3>1. batch' \subseteq Unprocessed /\ UNCHANGED <<topic, marked>> /\ sent' = {}
      BY <2>2, OldestFirst DEF Fetch, Unprocessed, Committed, tableVars
    <3>2. Published \subseteq marked
      BY <2>1, <2>2 DEF Fetch, DuplicateInv
    <3>3. Published' = Published
      BY <3>1 DEF Published
    <3> QED  BY <2>1, <3>1, <3>2, <3>3 DEF DuplicateInv, Unprocessed
  <2>3. ASSUME NEW c \in Commands, Publish(c) PROVE DuplicateInv'
    <3>1. Sending(c, 1) /\ sent' = sent \cup {c} /\ c \in batch /\ batch' = batch \ {c}
          /\ relay = "publishing" /\ UNCHANGED <<marked, relay>>
      BY <2>3 DEF Publish, Sending, tableVars
    <3>2. Published' \subseteq Published \cup {c}
      BY <3>1, SendingKeeps DEF IInv
    <3>3. c \notin Published /\ \A i, j \in 1 .. Len(topic) : topic[i] = topic[j] => i = j
      BY <2>1, <3>1 DEF DuplicateInv
    <3>4. topic \in Seq(Commands) /\ topic' = topic \o [i \in 1 .. 1 |-> c]
      BY <3>1 DEF Sending, IInv, TypeOK
    <3>5. /\ Len(topic') = Len(topic) + 1 /\ Len(topic) \in Nat
          /\ \A i \in 1 .. Len(topic) : topic'[i] = topic[i]
          /\ topic'[Len(topic) + 1] = c
      BY <3>4, Appended
    <3>6. ASSUME NEW i \in 1 .. Len(topic'), NEW j \in 1 .. Len(topic'), topic'[i] = topic'[j]
          PROVE  i = j
      <4>1. /\ i \in 1 .. Len(topic) \/ i = Len(topic) + 1
            /\ j \in 1 .. Len(topic) \/ j = Len(topic) + 1
        BY <3>5
      <4>2. \A k \in 1 .. Len(topic) : topic[k] # c
        BY <3>3 DEF Published
      <4> QED  BY <3>3, <3>5, <3>6, <4>1, <4>2
    <3> QED  BY <2>1, <3>1, <3>2, <3>3, <3>6 DEF DuplicateInv
  <2>4. CASE Mark
    <3>1. marked' = marked \cup sent /\ relay' # "publishing" /\ UNCHANGED <<topic, sent>>
      BY <2>4 DEF Mark
    <3>2. Published' = Published
      BY <3>1 DEF Published
    <3> QED  BY <2>1, <3>1, <3>2 DEF DuplicateInv
  <2>5. CASE Select \/ Wake \/ TimeOut
    <3>1. relay # "publishing" /\ relay' # "publishing" /\ UNCHANGED <<topic, sent, marked>>
      BY <2>5 DEF Select, Wake, TimeOut, tableVars
    <3>2. Published' = Published
      BY <3>1 DEF Published
    <3> QED  BY <2>1, <3>1, <3>2 DEF DuplicateInv
  <2> QED  BY <1>3, <2>2, <2>3, <2>4, <2>5 DEF RelayStep
<1>4. CASE WorkerStep \/ CommitMessage
  BY <1>1, <1>4, Faultless DEF WorkerStep, FetchMessage, HandleMessage, CommitMessage, tableVars
<1>5. CASE FaultStep
  BY <1>5, Faulty
<1>6. CASE UNCHANGED vars
  BY <1>1, <1>6 DEF vars, tableVars
<1> QED  BY <1>2, <1>3, <1>4, <1>5, <1>6 DEF Next

\* While no fault strikes, every event is published once at most.
THEOREM NoDuplicateWithoutFault == Spec => []NoFaultNoDuplicate
<1>1. DuplicateInv => NoFaultNoDuplicate
  BY DEF DuplicateInv, NoFaultNoDuplicate
<1> QED  BY <1>1, InitIInv, StepIInv, DuplicateInit, DuplicateStep, PTL DEF Spec

\* Commands begin in the order of their numbers, so that what had committed
\* when one began is older; while no publish has failed, it is on the topic or
\* in the same batch when that one is about to be published, and on the topic
\* before it afterwards.
Began == \A c, d \in Commands : c < d /\ tx[d] # "none" => tx[c] # "none"

PrecededCommitted ==
    \A pair \in preceded :
        pair[1] < pair[2] /\ pair[1] \in Committed /\ tx[pair[2]] # "none"

PrecededGoFirst ==
    ~refused => \A pair \in preceded : pair[2] \in batch => pair[1] \in batch \cup Published

CausalInv == Began /\ PrecededCommitted /\ PrecededGoFirst /\ CausalOrder

LEMMA CausalInit == Init => CausalInv
<1> SUFFICES ASSUME Init PROVE CausalInv
  OBVIOUS
<1>1. preceded = {} /\ \A c \in Commands : tx[c] = "none"
  BY DEF Init
<1> QED  BY <1>1 DEF CausalInv, Began, PrecededCommitted, PrecededGoFirst, CausalOrder

\* Steps that neither begin a command nor touch the topic or the batch.
LEMMA CausalKept ==
  ASSUME IInv, CausalInv, UNCHANGED <<topic, preceded>>,
         batch' \subseteq batch, refused' = refused,
         \A c \in Commands : /\ tx'[c] = "none" <=> tx[c] = "none"
                             /\ tx[c] = "committed" => tx'[c] = "committed",
         batch' = batch \/ batch' = {}
  PROVE  CausalInv'
<1>1. Published' = Published /\ preceded \subseteq Commands \X Commands
  BY DEF Published, IInv, TypeOK
<1>2. Began'
  BY DEF CausalInv, Began
<1>3. PrecededCommitted'
  BY <1>1 DEF CausalInv, PrecededCommitted, Committed
<1>4. PrecededGoFirst'
  BY <1>1 DEF CausalInv, PrecededGoFirst
<1>5. CausalOrder'
  BY DEF CausalInv, CausalOrder
<1> QED  BY <1>2, <1>3, <1>4, <1>5 DEF CausalInv

\* What begins is younger than what has committed, and nowhere on its way yet.
LEMMA CausalBegin ==
  ASSUME IInv, CausalInv, NEW c \in Commands, Begin(c)
  PROVE  CausalInv'
<1>1. /\ tx[c] = "none" /\ \A d \in Commands : d < c => tx[d] # "none"
      /\ tx' = [tx EXCEPT ![c] = "open"] /\ tx \in [Commands -> {"none", "open", "committed", "aborted"}]
      /\ preceded' = preceded \cup (Committed \X {c})
      /\ UNCHANGED <<batch, topic, refused>>
  BY DEF Begin, relayVars, IInv, TypeOK
<1>2. Commands \subseteq Int /\ Committed \subseteq Commands /\ preceded \subseteq Commands \X Commands
  BY DEF Commands, Committed, IInv, TypeOK
<1>3. Committed' = Committed /\ Published' = Published
  BY <1>1 DEF Committed, Published
<1>4. \A d \in Committed : d < c
  <2> SUFFICES ASSUME NEW d \in Committed, ~(d < c) PROVE FALSE
    OBVIOUS
  <2>1. tx[d] = "committed" /\ d # c
    BY <1>1 DEF Committed
  <2>2. c < d
    BY <1>2, <2>1
  <2> QED  BY <1>1, <1>2, <2>1, <2>2 DEF CausalInv, Began
<1>5. c \notin batch /\ c \notin Published
  BY <1>1 DEF IInv, BatchIsCommitted, PublishedAreCommitted, Committed
<1>6. Began'
  BY <1>1 DEF CausalInv, Began
<1>7. PrecededCommitted'
  <2>1. ASSUME NEW pair \in Committed \X {c}
        PROVE  pair[1] < pair[2] /\ pair[1] \in Committed /\ tx'[pair[2]] # "none"
    BY <1>1, <1>4
  <2>2. ASSUME NEW pair \in preceded
        PROVE  pair[1] < pair[2] /\ pair[1] \in Committed /\ tx'[pair[2]] # "none"
    BY <1>1, <1>2 DEF CausalInv, PrecededCommitted
  <2> QED  BY <1>1, <1>3, <2>1, <2>2 DEF PrecededCommitted
<1>8. PrecededGoFirst'
  BY <1>1, <1>3, <1>5 DEF CausalInv, PrecededGoFirst
<1>9. CausalOrder'
  <2>1. \A j \in 1 .. Len(topic) : topic[j] # c
    BY <1>5 DEF Published
  <2> QED  BY <1>1, <2>1 DEF CausalInv, CausalOrder
<1> QED  BY <1>6, <1>7, <1>8, <1>9 DEF CausalInv

\* With an event, all that precede it and are not published are fetched.
LEMMA CausalFetch ==
  ASSUME IInv, CausalInv, Fetch
  PROVE  CausalInv'
<1>1. batch' = Oldest(Unprocessed) /\ UNCHANGED <<tx, topic, preceded, refused>>
  BY DEF Fetch, tableVars
<1>2. Published' = Published /\ Committed' = Committed
  BY <1>1 DEF Published, Committed
<1>3. ASSUME NEW pair \in preceded, pair[2] \in batch' PROVE pair[1] \in batch' \cup Published
  <2>1. pair[1] < pair[2] /\ pair[1] \in Committed
    BY DEF CausalInv, PrecededCommitted
  <2>2. pair[1] \in Published \/ pair[1] \in Unprocessed
    BY <2>1 DEF Unprocessed, IInv, ProcessedArePublished
  <2>3. Unprocessed \in SUBSET Commands
    BY DEF Unprocessed, Committed
  <2> QED  BY <1>1, <1>3, <2>1, <2>2, <2>3, OldestFirst
<1> QED
  BY <1>1, <1>2, <1>3
     DEF CausalInv, Began, PrecededCommitted, PrecededGoFirst, CausalOrder

\* The oldest of the batch is published: all that precede it are older, and
\* thus on the topic.
LEMMA CausalSending ==
  ASSUME IInv, CausalInv, NEW c \in Commands, NEW times \in Nat, Sending(c, times),
         times = 0 => refused', refused => refused'
  PROVE  CausalInv'
<1>1. /\ c \in batch /\ \A d \in batch : c <= d
      /\ batch' = batch \ {c} /\ UNCHANGED <<tx, preceded>>
      /\ topic' = topic \o [i \in 1 .. times |-> c] /\ topic \in Seq(Commands)
      /\ batch \subseteq Commands /\ preceded \subseteq Commands \X Commands
  BY DEF Sending, tableVars, IInv, TypeOK
<1>2. /\ Len(topic') = Len(topic) + times /\ Len(topic) \in Nat
      /\ \A i \in 1 .. Len(topic) : topic'[i] = topic[i]
      /\ \A i \in Len(topic) + 1 .. Len(topic) + times : topic'[i] = c
  BY <1>1, Appended
<1>3. Published \subseteq Published' /\ (times > 0 => c \in Published')
  BY SendingKeeps DEF IInv
<1>4. Began' /\ PrecededCommitted'
  BY <1>1 DEF CausalInv, Began, PrecededCommitted, Committed
<1>5. PrecededGoFirst'
  <2> SUFFICES ASSUME ~refused', NEW pair \in preceded, pair[2] \in batch'
               PROVE  pair[1] \in batch' \cup Published'
    BY <1>1 DEF PrecededGoFirst
  <2>1. pair[1] \in batch \cup Published
    BY <1>1 DEF CausalInv, PrecededGoFirst
  <2>2. times > 0
    OBVIOUS
  <2> QED  BY <1>1, <1>3, <2>1, <2>2
<1>6. CausalOrder'
  <2> SUFFICES ASSUME ~refused', NEW pair \in preceded, NEW j \in 1 .. Len(topic'),
                      topic'[j] = pair[2]
               PROVE  \E i \in 1 .. j - 1 : topic'[i] = pair[1]
    BY <1>1 DEF CausalOrder
  <2>0. ~refused /\ j \in Int
    BY <1>2
  <2>1. CASE j \in 1 .. Len(topic)
    <3>1. topic[j] = pair[2]
      BY <1>2, <2>1
    <3>2. PICK i \in 1 .. j - 1 : topic[i] = pair[1]
      BY <2>0, <2>1, <3>1 DEF CausalInv, CausalOrder
    <3>3. i \in 1 .. Len(topic)
      BY <1>2, <2>1
    <3> QED  BY <1>2, <3>2, <3>3
  <2>2. CASE j \in Len(topic) + 1 .. Len(topic) + times
    <3>1. pair[2] = c
      BY <1>2, <2>2
    <3>2. pair[1] < c /\ pair[1] \in batch \cup Published
      BY <1>1, <2>0, <3>1 DEF CausalInv, PrecededCommitted, PrecededGoFirst
    <3>3. pair[1] \in Int /\ c \in Int
      BY <1>1 DEF Commands
    <3>4. pair[1] \in Published
      BY <1>1, <3>2, <3>3
    <3>5. PICK i \in 1 .. Len(topic) : topic[i] = pair[1]
      BY <3>4 DEF Published
    <3>6. i \in 1 .. j - 1
      BY <1>2, <2>2
    <3> QED  BY <1>2, <3>5, <3>6
  <2> QED  BY <1>2, <2>1, <2>2
<1> QED  BY <1>4, <1>5, <1>6 DEF CausalInv

LEMMA CausalStep == IInv /\ CausalInv /\ [Next]_vars => CausalInv'
<1> SUFFICES ASSUME IInv, CausalInv, [Next]_vars PROVE CausalInv'
  OBVIOUS
<1>1. ASSUME UNCHANGED <<tx, topic, preceded, batch, refused>> PROVE CausalInv'
  BY <1>1, CausalKept
<1>2. ASSUME NEW c \in Commands, CallNotify(c) \/ Commit(c) \/ Abort(c) \/ CommitUnseen(c)
      PROVE  CausalInv'
  <2>1. UNCHANGED <<topic, preceded, batch, refused>>
    BY <1>2 DEF CallNotify, Commit, Abort, CommitUnseen, relayVars
  <2>2. \A d \in Commands : /\ tx'[d] = "none" <=> tx[d] = "none"
                            /\ tx[d] = "committed" => tx'[d] = "committed"
    BY <1>2 DEF CallNotify, Commit, Abort, CommitUnseen, tableVars, IInv, TypeOK
  <2> QED  BY <2>1, <2>2, CausalKept
<1>3. CASE HandlerStep
  BY <1>2, <1>3, CausalBegin DEF HandlerStep
<1>4. CASE RelayStep
  <2>1. ASSUME NEW c \in Commands, Publish(c) PROVE CausalInv'
    BY <2>1, CausalSending DEF Publish
  <2>2. CASE Mark \/ Select \/ Wake \/ TimeOut
    BY <1>1, <2>2 DEF Mark, Select, Wake, TimeOut, tableVars
  <2> QED  BY <1>4, <2>1, <2>2, CausalFetch DEF RelayStep
<1>5. CASE WorkerStep \/ CommitMessage
  BY <1>1, <1>5
     DEF WorkerStep, FetchMessage, HandleMessage, CommitMessage, tableVars, relayVars
<1>6. CASE FaultStep
  <2>1. CASE FetchFails \/ MarkFails \/ Rejoin
    BY <1>1, <2>1 DEF FetchFails, MarkFails, Rejoin, tableVars, relayVars
  <2>2. CASE Crash
    <3>1. UNCHANGED <<topic, preceded, refused>> /\ batch' = {}
      BY <2>2 DEF Crash
    <3>2. \A d \in Commands : /\ tx'[d] = "none" <=> tx[d] = "none"
                              /\ tx[d] = "committed" => tx'[d] = "committed"
      BY <2>2 DEF Crash
    <3> QED  BY <3>1, <3>2, CausalKept
  <2>3. ASSUME NEW c \in Commands, PublishTwice(c) PROVE CausalInv'
    BY <2>3, CausalSending DEF PublishTwice
  <2>4. ASSUME NEW c \in Commands, PublishFails(c) PROVE CausalInv'
    <3>1. refused' = TRUE /\ \E times \in {0, 1} : Sending(c, times)
      BY <2>4 DEF PublishFails
    <3> QED  BY <3>1, CausalSending
  <2> QED  BY <1>2, <1>6, <2>1, <2>2, <2>3, <2>4 DEF FaultStep
<1>7. CASE UNCHANGED vars
  BY <1>1, <1>7 DEF vars, tableVars, relayVars
<1> QED  BY <1>3, <1>4, <1>5, <1>6, <1>7 DEF Next

\* A cancellation never overtakes its order, nor any command what had committed
\* before it began, as long as no publish fails: whatever the size of a fetch,
\* the order of commits and the crashes.
THEOREM CausalOrderKept == Spec => []CausalOrder
<1>1. CausalInv => CausalOrder
  BY DEF CausalInv
<1> QED  BY <1>1, InitIInv, StepIInv, CausalInit, CausalStep, PTL DEF Spec
=============================================================================
