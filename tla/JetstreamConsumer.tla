------------------------- MODULE JetstreamConsumer -------------------------
(***************************************************************************)
(* The Jetstream consumer of crates/atrg-stream: a reader task that keeps  *)
(* a WebSocket subscription to a relay and feeds a bounded channel, a      *)
(* dispatcher task that drains the channel into the application's handler  *)
(* and stores a cursor every Interval events, and the process around them, *)
(* which may die at any step and start again from the stored cursor.       *)
(*                                                                         *)
(* Events are the numbers 1..MaxEvents in the order of the relay's         *)
(* timestamps; an event is identified with its timestamp.  0 stands for    *)
(* "none" (no cursor, no event in hand, no row in the cursor table).       *)
(***************************************************************************)
EXTENDS Naturals, Sequences

CONSTANTS
    \* The workload.
    MaxEvents,      \* events the relay publishes (bound)
    Malformed,      \* events whose JSON does not parse
    Untimed,        \* events that carry no time_us (serde default: 0)
    \* The configuration.
    Capacity,       \* StreamConfig::channel_capacity
    Interval,       \* CURSOR_SAVE_INTERVAL
    CursorMode,     \* "off" is spawn_consumer, the others StreamConfig::cursor
    NumericCursor,  \* the value of a numeric cursor, 0 if it does not parse
    BackoffBase,    \* Backoff::base
    BackoffMax,     \* Backoff::max
    \* The environment: what may fail, and how often (bounds).
    SavesFail,      \* whether the database may refuse a cursor save
    MaxAttempts,    \* connection attempts, over all incarnations
    MaxCrashes      \* deaths of the process

Events == 1..MaxEvents
CursorModes == {"off", "live", "auto", "numeric"}

ASSUME ConstantsAssumption ==
    /\ MaxEvents \in Nat
    /\ Malformed \subseteq Events
    /\ Untimed \subseteq Events
    /\ Capacity \in Nat \ {0}
    /\ Interval \in Nat \ {0}
    /\ CursorMode \in CursorModes
    /\ NumericCursor \in Nat
    /\ BackoffBase \in Nat
    /\ BackoffMax \in Nat
    /\ SavesFail \in BOOLEAN
    /\ MaxAttempts \in Nat
    /\ MaxCrashes \in Nat

VARIABLES
    \* The relay (external).
    emitted,      \* how many events it has published
    \* The database: atrg_jetstream_cursors, one consumer's row.
    savedCursor,
    \* The reader task.
    reader,       \* where it stands, see ReaderStates
    urlCursor,    \* the cursor baked into the subscription URL
    pos,          \* the event last delivered on the current connection
    backoff,      \* Backoff::current
    \* The mpsc channel.
    channel,
    \* The dispatcher task.
    dispatcher,   \* where it stands, see DispatcherStates
    inHand,       \* the event its handler is working on
    last,         \* last_time_us
    eventCount,   \* event_count
    \* MetricsCounter.
    metrics,
    \* History: what became of each event, over all incarnations.
    handled,      \* the handler returned for it
    shed,         \* dropped or rejected, and counted in the metrics
    skipped,      \* published while no subscription asked for it
    \* Bounds.
    attempts, crashes

relayVars == <<emitted, savedCursor>>
readerVars == <<reader, urlCursor, pos, backoff>>
dispatcherVars == <<dispatcher, inHand, last, eventCount>>
historyVars == <<handled, shed, skipped>>
boundVars == <<attempts, crashes>>
vars == <<emitted, savedCursor, reader, urlCursor, pos, backoff, channel,
          dispatcher, inHand, last, eventCount, metrics, handled, shed,
          skipped, attempts, crashes>>

ReaderStates == {"down",          \* no process
                 "connecting",    \* awaiting connect_async
                 "reading",       \* awaiting the next WebSocket message
                 "sending",       \* parsed event pos, saw room in the channel
                 "shedding",      \* parsed event pos, saw a full channel
                 "backing_off",   \* sleeping before it reconnects
                 "aborted"}       \* its JoinHandle was aborted, tx is dropped

DispatcherStates == {"down", "idle", "handling", "saving",
                     "final_save",  \* saving after the channel closed
                     "exited",      \* returned after the channel closed
                     "dead"}        \* the handler panicked, rx is dropped

Metrics == [received : Nat, dropped : Nat, errors : Nat,
            reconnects : Nat, backoff : Nat]
NoMetrics == [received |-> 0, dropped |-> 0, errors |-> 0,
              reconnects |-> 0, backoff |-> 0]

\* spawn_consumer keeps no cursor; spawn_consumer_with_cursor does.
Persists == CursorMode # "off"

Queued == {channel[i] : i \in 1..Len(channel)}
DispatcherAlive == dispatcher \notin {"down", "exited", "dead"}

-----------------------------------------------------------------------------
(* The process *)

Init ==
    /\ emitted = 0
    /\ savedCursor = 0
    /\ reader = "down"
    /\ urlCursor = 0
    /\ pos = 0
    /\ backoff = BackoffBase
    /\ channel = <<>>
    /\ dispatcher = "down"
    /\ inHand = 0
    /\ last = 0
    /\ eventCount = 0
    /\ metrics = NoMetrics
    /\ handled = {} /\ shed = {} /\ skipped = {}
    /\ attempts = 0 /\ crashes = 0

\* Mutant: mode auto starts from now as well.
InitialCursorIgnoresStored == IF CursorMode = "numeric" THEN NumericCursor ELSE 0

\* The cursor the URL is built with, once, when the consumer is spawned.
InitialCursor ==
    CASE CursorMode = "auto" -> savedCursor
      [] CursorMode = "numeric" -> NumericCursor
      [] OTHER -> 0

\* spawn_consumer / spawn_consumer_with_cursor: load the cursor, then start
\* both tasks.
Spawn ==
    /\ reader = "down"
    /\ urlCursor' = InitialCursor
    /\ reader' = "connecting"
    /\ dispatcher' = "idle"
    /\ UNCHANGED <<relayVars, pos, backoff, channel, inHand, last, eventCount,
                   metrics, historyVars, boundVars>>

\* The process dies, in whatever it was doing; only the database survives.
Crash ==
    /\ reader # "down"
    /\ crashes < MaxCrashes
    /\ crashes' = crashes + 1
    /\ reader' = "down" /\ urlCursor' = 0 /\ pos' = 0 /\ backoff' = BackoffBase
    /\ channel' = <<>>
    /\ dispatcher' = "down" /\ inHand' = 0 /\ last' = 0 /\ eventCount' = 0
    /\ metrics' = NoMetrics
    /\ UNCHANGED <<relayVars, historyVars, attempts>>

-----------------------------------------------------------------------------
(* The reader task *)

\* The relay publishes one more event.
Emit ==
    /\ emitted < MaxEvents
    /\ emitted' = emitted + 1
    /\ UNCHANGED <<savedCursor, readerVars, channel, dispatcherVars, metrics,
                   historyVars, boundVars>>

\* Where the relay starts a subscription: at the cursor, the event bearing it
\* included, or at the head if there is none or it lies in the future.
StartPos ==
    IF urlCursor = 0 \/ urlCursor > emitted THEN emitted ELSE urlCursor - 1

ConnectOk ==
    /\ reader = "connecting"
    /\ attempts < MaxAttempts
    /\ attempts' = attempts + 1
    /\ reader' = "reading"
    /\ pos' = StartPos
    /\ skipped' = skipped \cup (((pos + 1)..StartPos) \ (handled \cup shed))
    /\ metrics' = [metrics EXCEPT !.backoff = 0]
    /\ UNCHANGED <<relayVars, urlCursor, backoff, channel, dispatcherVars,
                   handled, shed, crashes>>

\* Backoff::next_delay: the delay slept now, and the doubled, capped next one.
NextDelay(d) == IF 2 * d <= BackoffMax THEN 2 * d ELSE BackoffMax

\* After connect_and_read returned, with an error or cleanly.
BackOff(failed) ==
    /\ reader' = "backing_off"
    /\ backoff' = NextDelay(backoff)
    /\ LET counted == IF failed THEN [metrics EXCEPT !.reconnects = @ + 1]
                                 ELSE metrics
       IN  metrics' = [counted EXCEPT !.backoff = backoff]

ConnectFail ==
    /\ reader = "connecting"
    /\ attempts < MaxAttempts
    /\ attempts' = attempts + 1
    /\ BackOff(TRUE)
    /\ UNCHANGED <<relayVars, urlCursor, pos, channel, dispatcherVars,
                   historyVars, crashes>>

\* The connection ends: an error, or a close frame or the end of the stream.
Disconnect ==
    /\ reader = "reading"
    /\ \E failed \in BOOLEAN : BackOff(failed)
    /\ UNCHANGED <<relayVars, urlCursor, pos, channel, dispatcherVars,
                   historyVars, boundVars>>

BackoffElapsed ==
    /\ reader = "backing_off"
    /\ reader' = "connecting"
    /\ UNCHANGED <<relayVars, urlCursor, pos, backoff, channel, dispatcherVars,
                   metrics, historyVars, boundVars>>

\* Mutant: the capacity check is off by one.
ReceiveChecksLate ==
    /\ reader = "reading"
    /\ pos < emitted
    /\ pos' = pos + 1
    /\ metrics' = [metrics EXCEPT !.received = @ + 1]
    /\ reader' = IF Len(channel) <= Capacity THEN "sending" ELSE "shedding"
    /\ UNCHANGED <<relayVars, urlCursor, backoff, channel, dispatcherVars,
                   historyVars, boundVars>>

\* handle_text_message up to the capacity check: count, parse, look for room.
Receive ==
    /\ reader = "reading"
    /\ pos < emitted
    /\ pos' = pos + 1
    /\ IF pos' \in Malformed
       THEN /\ metrics' = [[metrics EXCEPT !.received = @ + 1]
                                   EXCEPT !.errors = @ + 1]
            /\ shed' = shed \cup {pos'}
            /\ UNCHANGED reader
       ELSE /\ metrics' = [metrics EXCEPT !.received = @ + 1]
            /\ reader' = IF Len(channel) < Capacity THEN "sending" ELSE "shedding"
            /\ UNCHANGED shed
    /\ UNCHANGED <<relayVars, urlCursor, backoff, channel, dispatcherVars,
                   handled, skipped, boundVars>>

\* Mutant: the loss is not counted.
DropUncounted ==
    /\ UNCHANGED metrics
    /\ shed' = shed \cup {pos}

\* The event is lost and the loss is counted.
Drop ==
    /\ metrics' = [metrics EXCEPT !.dropped = @ + 1]
    /\ shed' = shed \cup {pos}

\* Mutant: a full channel grows.
ShedQueues ==
    /\ reader = "shedding"
    /\ reader' = "reading"
    /\ channel' = Append(channel, pos)
    /\ UNCHANGED <<relayVars, urlCursor, pos, backoff, dispatcherVars, metrics,
                   historyVars, boundVars>>

\* The channel was full when it was looked at: the new event is dropped, even
\* if the dispatcher has made room since.
Shed ==
    /\ reader = "shedding"
    /\ reader' = "reading"
    /\ Drop
    /\ UNCHANGED <<relayVars, urlCursor, pos, backoff, channel, dispatcherVars,
                   handled, skipped, boundVars>>

\* try_send fails when the channel is full, or closed because rx is gone.
TrySendFails == Len(channel) >= Capacity \/ ~DispatcherAlive

Send ==
    /\ reader = "sending"
    /\ reader' = "reading"
    /\ IF TrySendFails
       THEN Drop /\ UNCHANGED channel
       ELSE channel' = Append(channel, pos) /\ UNCHANGED <<metrics, shed>>
    /\ UNCHANGED <<relayVars, urlCursor, pos, backoff, dispatcherVars,
                   handled, skipped, boundVars>>

\* The owner of the JoinHandle aborts the reader, which happens at an await
\* point; its sender is dropped and the channel is closed.
Abort ==
    /\ reader \in {"connecting", "reading", "backing_off"}
    /\ reader' = "aborted"
    /\ UNCHANGED <<relayVars, urlCursor, pos, backoff, channel, dispatcherVars,
                   metrics, historyVars, boundVars>>

-----------------------------------------------------------------------------
(* The dispatcher task *)

\* Mutant: a closed channel is not drained.
RecvUntilClosed ==
    /\ dispatcher = "idle"
    /\ channel # <<>>
    /\ reader # "aborted"
    /\ dispatcher' = "handling"
    /\ inHand' = Head(channel)
    /\ channel' = Tail(channel)
    /\ UNCHANGED <<relayVars, readerVars, last, eventCount, metrics,
                   historyVars, boundVars>>

Recv ==
    /\ dispatcher = "idle"
    /\ channel # <<>>
    /\ dispatcher' = "handling"
    /\ inHand' = Head(channel)
    /\ channel' = Tail(channel)
    /\ UNCHANGED <<relayVars, readerVars, last, eventCount, metrics,
                   historyVars, boundVars>>

\* last_time_us after an event: untimed events do not move it.
LastAfter(e) == IF e \in Untimed THEN last ELSE e

\* The handler returns, Ok or Err: both move the cursor on.
HandlerReturns ==
    /\ dispatcher = "handling"
    /\ inHand' = 0
    /\ handled' = handled \cup {inHand}
    /\ \E failed \in {0, 1} :
          metrics' = [metrics EXCEPT !.errors = @ + failed]
    /\ IF Persists
       THEN /\ last' = LastAfter(inHand)
            /\ eventCount' = eventCount + 1
            /\ dispatcher' = IF eventCount' % Interval = 0 /\ last' # 0
                             THEN "saving" ELSE "idle"
       ELSE /\ dispatcher' = "idle"
            /\ UNCHANGED <<last, eventCount>>
    /\ UNCHANGED <<relayVars, readerVars, channel, shed, skipped, boundVars>>

\* The handler panics: the task is gone, and with it what the channel holds.
HandlerPanics ==
    /\ dispatcher = "handling"
    /\ dispatcher' = "dead"
    /\ inHand' = 0
    /\ channel' = <<>>
    /\ UNCHANGED <<relayVars, readerVars, last, eventCount, metrics,
                   historyVars, boundVars>>

\* rx.recv() returns None: the channel is closed and drained.
ChannelClosed ==
    /\ dispatcher = "idle"
    /\ channel = <<>>
    /\ reader = "aborted"
    /\ dispatcher' = IF last # 0 THEN "final_save" ELSE "exited"
    /\ UNCHANGED <<relayVars, readerVars, channel, inHand, last, eventCount,
                   metrics, historyVars, boundVars>>

\* Mutant: the dispatcher returns to its loop after the final save.
AfterSaveLoops == "idle"

AfterSave == IF dispatcher = "final_save" THEN "exited" ELSE "idle"

\* Mutant: the cursor stored is the reader's position.
SaveCursorOfReader ==
    /\ dispatcher \in {"saving", "final_save"}
    /\ savedCursor' = pos
    /\ dispatcher' = AfterSave
    /\ UNCHANGED <<emitted, readerVars, channel, inHand, last, eventCount,
                   metrics, historyVars, boundVars>>

\* save_cursor succeeds: the upsert overwrites whatever the row held.
SaveCursor ==
    /\ dispatcher \in {"saving", "final_save"}
    /\ savedCursor' = last
    /\ dispatcher' = AfterSave
    /\ UNCHANGED <<emitted, readerVars, channel, inHand, last, eventCount,
                   metrics, historyVars, boundVars>>

\* save_cursor fails: a warning, nothing is retried.
SaveCursorFails ==
    /\ SavesFail
    /\ dispatcher \in {"saving", "final_save"}
    /\ dispatcher' = AfterSave
    /\ UNCHANGED <<relayVars, readerVars, channel, inHand, last, eventCount,
                   metrics, historyVars, boundVars>>

-----------------------------------------------------------------------------

ReaderStep == Shed \/ Send \/ BackoffElapsed
DispatcherStep ==
    Recv \/ HandlerReturns \/ HandlerPanics \/ ChannelClosed
         \/ SaveCursor \/ SaveCursorFails

Next ==
    \/ Spawn \/ Crash \/ Emit
    \/ ConnectOk \/ ConnectFail \/ Disconnect \/ Receive \/ Abort
    \/ ReaderStep
    \/ DispatcherStep

Spec == Init /\ [][Next]_vars

\* Both tasks are polled as long as the process lives, and a handler ends.
\* Nothing is assumed of the relay, of the network, or of the owner.
FairSpec == Spec /\ WF_vars(ReaderStep) /\ WF_vars(DispatcherStep)

-----------------------------------------------------------------------------
(* Properties *)

\* Every variable has its type, and the channel never exceeds its capacity.
TypeOK ==
    /\ emitted \in 0..MaxEvents
    /\ savedCursor \in 0..MaxEvents
    /\ reader \in ReaderStates
    /\ urlCursor \in Nat
    /\ pos \in 0..emitted
    /\ backoff \in Nat
    /\ channel \in Seq(Events)
    /\ Len(channel) <= Capacity
    /\ dispatcher \in DispatcherStates
    /\ inHand \in 0..MaxEvents
    /\ last \in 0..MaxEvents
    /\ eventCount \in Nat
    /\ metrics \in Metrics
    /\ handled \subseteq Events
    /\ shed \subseteq Events
    /\ skipped \subseteq Events
    /\ attempts \in 0..MaxAttempts
    /\ crashes \in 0..MaxCrashes

\* The fate of an event is known: handled, lost and counted, or never asked for.
Accounted == handled \cup shed \cup skipped

\* The stored cursor never covers an event that was lost on the way: whatever
\* the crashes, reconnections, failed saves, drops and panics, every event up
\* to the cursor was handled, was counted as dropped or in error, or was
\* published while the consumer was not subscribed.  A restart at the cursor
\* therefore loses nothing silently (spawn_cursor_dispatcher, connect_and_read).
CheckpointCovered == 1..savedCursor \subseteq Accounted

\* The capacity check before try_send is enough: with its only sender between
\* the check and the send, the channel of a live dispatcher cannot fill up
\* (the comment in handle_text_message doubts it).
CapacityCheckSuffices ==
    (reader = "sending" /\ DispatcherAlive) => Len(channel) < Capacity

\* One event at most is between the two tasks and the counters.
AtReader == IF reader \in {"sending", "shedding"} THEN 1 ELSE 0
AtHandler == IF dispatcher = "handling" THEN 1 ELSE 0

\* Where a received event may be that is neither dropped nor an error: queued,
\* in the hands of a task, or dispatched.
InFlight == Len(channel) + AtReader + AtHandler + eventCount

\* The counters add up: as long as the dispatcher lives, each event received
\* on the socket is dropped, queued, in a task's hands, dispatched or counted
\* as an error, and is counted once (handle_text_message and the dispatcher).
CountersAddUp ==
    (Persists /\ DispatcherAlive) =>
        /\ metrics.dropped + InFlight <= metrics.received
        /\ metrics.received <= metrics.dropped + InFlight + metrics.errors

\* In mode "auto" the consumer keeps the promise of ResumableFeed: it resumes
\* at the stored cursor, skips nothing while resumed, and moves the cursor
\* neither past an unsettled event nor behind its point of resumption.
Feed == INSTANCE ResumableFeed WITH
            seen <- handled \cup shed,
            missed <- skipped,
            checkpoint <- savedCursor,
            running <- reader # "down",
            resumedAt <- urlCursor
FeedSpec == Feed!Spec

\* A dispatcher whose channel was closed finishes: it drains the queue, tries
\* the final save and returns (spawn_cursor_dispatcher, lines 238-247).
AbortDrains == reader = "aborted" ~> ~DispatcherAlive

\* A queued event is handled unless the process dies or a handler panics.
QueuedIsHandled ==
    \A e \in Events : e \in Queued ~> (e \in handled \/ ~DispatcherAlive)

-----------------------------------------------------------------------------
(* What the documentation says and the code does not do *)

\* "On graceful shutdown the final cursor is saved so that no more than one
\* interval's worth of events needs to be replayed": once the dispatcher has
\* exited, at most Interval handled events lie beyond the stored cursor.
GracefulExitReplaysOneInterval ==
    dispatcher = "exited" =>
        \A e \in handled : e <= savedCursor + Interval
=============================================================================
