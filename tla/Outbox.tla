------------------------------- MODULE Outbox -------------------------------
(***************************************************************************)
(* The way of a command from an API handler to the worker.  A handler      *)
(* writes the event of its command into the outbox table, in the           *)
(* transaction that writes everything else; the relay publishes what is    *)
(* unprocessed there on a Kafka topic and marks it processed; the worker   *)
(* consumes the topic and commits its offset.                              *)
(*                                                                         *)
(* Commands are numbered in the order of created_at, the start of their    *)
(* transactions; they commit in any order.  A crash includes the restart.  *)
(* Code: services/{order_service,outbox_relay}.go, Run of                  *)
(* services/worker.go, postgres_outbox_repository.go, adapters/kafka.      *)
(***************************************************************************)
EXTENDS Integers, Sequences, FiniteSets

CONSTANTS
    MaxCommands,   \* bound: how many commands are submitted
    Cancellations, \* the commands that are cancellations
    Limit,         \* how many events one fetch returns (100 in the code)
    MaxFaults      \* bound: how many faults strike

Commands == 1 .. MaxCommands

ASSUME BoundsAssumption ==
    /\ MaxCommands \in Nat \ {0} /\ Limit \in Nat \ {0} /\ MaxFaults \in Nat
    /\ Cancellations \subseteq Commands

VARIABLES
    (* the API handlers and the outbox table *)
    tx,           \* the transaction of each command: none, open, committed, aborted
    told,         \* the commands whose handler has called Notify, or never will
    marked,       \* the events whose processed_at is set
    (* the relay *)
    notify,       \* the channel of capacity 1 holds a token
    relay,        \* where the loop of Run and process stands
    batch,        \* the fetched events still to be published
    sent,         \* processedIDs
    (* the topic, and the worker's consumer group *)
    topic,        \* the published events
    offset,       \* how many of them are committed
    position,     \* how many of them the worker has fetched
    working,      \* it is handling the last of these
    (* history *)
    done,         \* the offsets of the topic the worker has handled
    preceded,     \* pairs c, d: c had committed when d began
    refused,      \* a publish has failed
    faults        \* how many faults have struck

tableVars == <<tx, marked>>
relayVars == <<relay, batch, sent>>
workerVars == <<offset, position, working>>
vars == <<tableVars, told, notify, relayVars, topic, workerVars, done, preceded, refused, faults>>

Init ==
    /\ tx = [c \in Commands |-> "none"]
    /\ told = {} /\ marked = {}
    /\ notify = FALSE
    /\ relay = "fetching" /\ batch = {} /\ sent = {}
    /\ topic = <<>>
    /\ offset = 0 /\ position = 0 /\ working = FALSE
    /\ done = {} /\ preceded = {} /\ refused = FALSE
    /\ faults = 0

Committed == {c \in Commands : tx[c] = "committed"}

Fault == faults < MaxFaults /\ faults' = faults + 1

-----------------------------------------------------------------------------
(* The handlers: PlaceOrder, CancelOrder and Deposit of OrderService.      *)

Begin(c) ==
    /\ tx[c] = "none" /\ \A d \in Commands : d < c => tx[d] # "none"
    /\ tx' = [tx EXCEPT ![c] = "open"]
    /\ preceded' = preceded \cup (Committed \X {c})
    /\ UNCHANGED <<marked, told, notify, relayVars, topic, workerVars, done, refused, faults>>

\* Mutant: the channel has no buffer, the token is lost unless Run waits for it.
NotifyUnbuffered == notify' = (notify \/ relay = "waiting")

\* Notify: a second token is dropped.
Notify == notify' = TRUE

\* CancelOrder calls Notify inside of its transaction, the others after it.
CallNotify(c) ==
    /\ tx[c] = (IF c \in Cancellations THEN "open" ELSE "committed")
    /\ c \notin told /\ told' = told \cup {c}
    /\ Notify
    /\ UNCHANGED <<tableVars, relayVars, topic, workerVars, done, preceded, refused, faults>>

Commit(c) ==
    /\ tx[c] = "open" /\ (c \in Cancellations => c \in told)
    /\ tx' = [tx EXCEPT ![c] = "committed"]
    /\ UNCHANGED <<marked, told, notify, relayVars, topic, workerVars,
                   done, preceded, refused, faults>>

Abort(c) ==
    /\ tx[c] = "open"
    /\ tx' = [tx EXCEPT ![c] = "aborted"]
    /\ told' = told \cup {c}
    /\ UNCHANGED <<marked, notify, relayVars, topic, workerVars,
                   done, preceded, refused, faults>>

\* The transaction commits but its answer is lost: the handler reports an error.
CommitUnseen(c) ==
    /\ Fault
    /\ tx[c] = "open"
    /\ tx' = [tx EXCEPT ![c] = "committed"]
    /\ told' = told \cup {c}
    /\ UNCHANGED <<marked, notify, relayVars, topic, workerVars,
                   done, preceded, refused>>

-----------------------------------------------------------------------------
(* The relay *)

\* Mutant: events are visible before their transaction commits.
UnprocessedOpen == {c \in Commands : tx[c] \in {"open", "committed"}} \ marked

Unprocessed == Committed \ marked

\* Mutant: the newest events come first.
OldestReversed(S) == {c \in S : Cardinality({d \in S : d > c}) < Limit}

\* ORDER BY created_at ASC LIMIT.
Oldest(S) == {c \in S : Cardinality({d \in S : d < c}) < Limit}

\* FetchUnprocessed; when it finds nothing it is tried once more.
Fetch ==
    /\ relay \in {"fetching", "retrying"}
    /\ batch' = Oldest(Unprocessed) /\ sent' = {}
    /\ relay' = IF batch' # {} THEN "publishing"
                ELSE IF relay = "fetching" THEN "retrying" ELSE "returned"
    /\ UNCHANGED <<tableVars, told, notify, topic, workerVars, done, preceded, refused, faults>>

FetchFails ==
    /\ Fault
    /\ relay \in {"fetching", "retrying"} /\ relay' = "returned"
    /\ UNCHANGED <<tableVars, told, notify, batch, sent, topic, workerVars, done, preceded, refused>>

\* The event at the head of the batch has reached the topic times times.
Sending(c, times) ==
    /\ relay = "publishing"
    /\ c \in batch /\ \A d \in batch : c <= d
    /\ batch' = batch \ {c}
    /\ topic' = topic \o [i \in 1 .. times |-> c]
    /\ UNCHANGED <<tableVars, told, notify, relay, workerVars, done, preceded>>

Publish(c) == Sending(c, 1) /\ sent' = sent \cup {c} /\ UNCHANGED <<refused, faults>>

\* The writer retries a write whose answer it missed.
PublishTwice(c) == Fault /\ Sending(c, 2) /\ sent' = sent \cup {c} /\ UNCHANGED refused

\* Mutant: the event counts as sent although the publish failed.
PublishFailsCounted(c) ==
    /\ Fault
    /\ \E times \in {0, 1} : Sending(c, times)
    /\ sent' = sent \cup {c} /\ refused' = TRUE

\* Publish returns an error, whether the event got through or not; the loop
\* goes on with the next event.
PublishFails(c) ==
    /\ Fault
    /\ \E times \in {0, 1} : Sending(c, times)
    /\ refused' = TRUE /\ UNCHANGED sent

\* Mutant: only one event of the batch is marked.
MarkOne ==
    /\ relay = "publishing" /\ batch = {}
    /\ marked' = marked \cup {c \in sent : \A d \in sent : d <= c}
    /\ relay' = IF sent = {} THEN "returned" ELSE "fetching"
    /\ UNCHANGED <<tx, told, notify, batch, sent, topic, workerVars,
                   done, preceded, refused, faults>>

\* MarkProcessedBatch, when anything has been sent.
Mark ==
    /\ relay = "publishing" /\ batch = {}
    /\ marked' = marked \cup sent
    /\ relay' = IF sent = {} THEN "returned" ELSE "fetching"
    /\ UNCHANGED <<tx, told, notify, batch, sent, topic, workerVars,
                   done, preceded, refused, faults>>

\* It reports an error, whether it took effect or not.
MarkFails ==
    /\ Fault
    /\ relay = "publishing" /\ batch = {} /\ sent # {}
    /\ marked' \in {marked, marked \cup sent}
    /\ relay' = "returned"
    /\ UNCHANGED <<tx, told, notify, batch, sent, topic, workerVars,
                   done, preceded, refused>>

\* process has returned nothing, or an error: Run enters its select.
Select ==
    /\ relay = "returned" /\ relay' = "waiting"
    /\ UNCHANGED <<tableVars, told, notify, batch, sent, topic, workerVars,
                   done, preceded, refused, faults>>

\* A token is on the channel.
Wake ==
    /\ relay = "waiting" /\ relay' = "fetching"
    /\ notify /\ notify' = FALSE
    /\ UNCHANGED <<tableVars, told, batch, sent, topic, workerVars, done, preceded, refused, faults>>

\* Mutant: Run waits for the channel alone.
TimeOutNever == FALSE /\ UNCHANGED vars

\* 50 milliseconds have passed.
TimeOut ==
    /\ relay = "waiting" /\ relay' = "fetching"
    /\ UNCHANGED <<tableVars, told, notify, batch, sent, topic, workerVars,
                   done, preceded, refused, faults>>

-----------------------------------------------------------------------------
(* The worker *)

FetchMessage ==
    /\ ~working /\ working' = TRUE
    /\ position < Len(topic) /\ position' = position + 1
    /\ UNCHANGED <<tableVars, told, notify, relayVars, topic, offset, done, preceded, refused, faults>>

HandleMessage ==
    /\ working /\ working' = FALSE
    /\ done' = done \cup {position}
    /\ UNCHANGED <<tableVars, told, notify, relayVars, topic, offset, position,
                   preceded, refused, faults>>

\* Mutant: the offset of the next message is committed.
HandledPositionNext == position + 1

\* Mutant: a message is committed as soon as it is fetched.
HandledPositionFetched == position

HandledPosition == IF working THEN position - 1 ELSE position

\* CommitMessage; the reader flushes the offset in the background.
CommitMessage ==
    /\ offset < HandledPosition /\ offset' = HandledPosition
    /\ UNCHANGED <<tableVars, told, notify, relayVars, topic, position, working,
                   done, preceded, refused, faults>>

\* The group is rebalanced: the worker reads on from the committed offset.
Rejoin ==
    /\ Fault
    /\ ~working /\ position' = offset
    /\ UNCHANGED <<tableVars, told, notify, relayVars, topic, offset, working, done, preceded, refused>>

Crash ==
    /\ Fault
    /\ tx' = [c \in Commands |-> IF tx[c] = "open" THEN "aborted" ELSE tx[c]]
    /\ told' = {c \in Commands : tx[c] # "none"}
    /\ notify' = FALSE
    /\ relay' = "fetching" /\ batch' = {} /\ sent' = {}
    /\ position' = offset /\ working' = FALSE
    /\ UNCHANGED <<marked, topic, offset, done, preceded, refused>>

-----------------------------------------------------------------------------

HandlerStep ==
    \E c \in Commands :
        Begin(c) \/ CallNotify(c) \/ Commit(c) \/ Abort(c)

RelayStep == Fetch \/ (\E c \in Commands : Publish(c)) \/ Mark \/ Select \/ Wake \/ TimeOut

WorkerStep == FetchMessage \/ HandleMessage

FaultStep ==
    \/ FetchFails \/ MarkFails \/ Rejoin \/ Crash
    \/ \E c \in Commands : CommitUnseen(c) \/ PublishTwice(c) \/ PublishFails(c)

Next == HandlerStep \/ RelayStep \/ WorkerStep \/ CommitMessage \/ FaultStep

\* Run of the relay and Run of the worker are loops that never return while
\* the process runs.
Fairness == WF_vars(RelayStep) /\ WF_vars(WorkerStep)

Spec == Init /\ [][Next]_vars /\ Fairness

-----------------------------------------------------------------------------
(* Properties *)

Published == {topic[i] : i \in 1 .. Len(topic)}

TypeOK ==
    /\ tx \in [Commands -> {"none", "open", "committed", "aborted"}]
    /\ told \subseteq Commands /\ marked \subseteq Commands
    /\ notify \in BOOLEAN
    /\ relay \in {"fetching", "retrying", "publishing", "returned", "waiting"}
    /\ batch \subseteq Commands /\ sent \subseteq Commands
    /\ topic \in Seq(Commands)
    /\ working \in BOOLEAN
    /\ offset \in 0 .. Len(topic) /\ position \in offset .. Len(topic)
    /\ done \subseteq 1 .. Len(topic)
    /\ preceded \subseteq Commands \X Commands
    /\ refused \in BOOLEAN
    /\ faults \in 0 .. MaxFaults

\* "an event is never marked as processed in the database unless Redpanda has
\* confirmed its receipt" (docs/adr/0004, line 22), whatever fails.
ProcessedArePublished == marked \subseteq Published

\* No command reaches the topic whose transaction has not committed: the
\* worker never acts on an order that is not in the database.
PublishedAreCommitted == Published \subseteq Committed

\* What a restart will not fetch again has been handled.
CommittedAreHandled == 1 .. offset \subseteq done

\* A command that had committed when another began reaches the topic first (a
\* cancellation follows its order, say), as long as no publish has failed.
CausalOrder ==
    ~refused =>
        \A pair \in preceded, j \in 1 .. Len(topic) :
            topic[j] = pair[2] => \E i \in 1 .. j - 1 : topic[i] = pair[1]

\* Only faults make the relay publish an event twice.
NoFaultNoDuplicate ==
    faults = 0 => \A i, j \in 1 .. Len(topic) : topic[i] = topic[j] => i = j

\* While the relay waits, a committed event is announced by a token, or its
\* handler is about to call Notify; only a cancellation may need the timeout.
NoWakeupIsLost ==
    relay = "waiting" /\ faults = 0 =>
        \A c \in Unprocessed : notify \/ c \notin told \/ c \in Cancellations

Delivered == {topic[i] : i \in done}

Abstract == INSTANCE Delivery WITH accepted <- Committed, delivered <- Delivered

\* Every command that commits is handled in the end, and no other is.
ImplementsDelivery == Abstract!Spec
=============================================================================
