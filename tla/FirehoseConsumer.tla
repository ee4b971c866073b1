-------------------------- MODULE FirehoseConsumer --------------------------
(***************************************************************************)
(* The firehose consumer of crates/atrg-firehose: a reader task that keeps *)
(* a subscription to a relay, decodes its binary frames and offers the     *)
(* events to a bounded channel, and a dispatcher task that hands them to   *)
(* the application's handler.  Nothing is stored: the cursor of the        *)
(* configuration is part of the URL, for every connection.                 *)
(*                                                                         *)
(* Frames are numbered 1, 2, ... in the relay's order, and a frame that    *)
(* carries a sequence number carries its own.                              *)
(***************************************************************************)
EXTENDS Naturals, Integers, Sequences

CONSTANTS
    Frames,        \* the frames the relay publishes, in order (bound)
    FailsOn,       \* frames for which the handler returns an error
    PanicsOn,      \* frames for which the handler may panic
    Capacity,      \* FirehoseConfig::channel_capacity
    Cursor,        \* FirehoseConfig::cursor, 0 for None
    BaseMs, MaxMs, \* Backoff::base_ms and max_ms
    MaxAttempts    \* connection attempts (bound)

MaxFrames == Len(Frames)
FrameTypes == {"#commit", "#handle", "#identity", "#tombstone", "#info", "other"}

\* A frame as decode_frame sees it: whether its header is a CBOR map, the
\* header's op and t, what its body is, and whether the body has a "seq".
Frame == [header : BOOLEAN, op : {1, -1, 0}, t : FrameTypes,
          body : {"broken", "scalar", "map"}, seq : BOOLEAN]

ASSUME FirehoseAssumption ==
    /\ Frames \in Seq(Frame)
    /\ FailsOn \subseteq 1..MaxFrames
    /\ PanicsOn \subseteq 1..MaxFrames
    /\ Capacity \in Nat \ {0}
    /\ Cursor \in Nat
    /\ BaseMs \in Nat
    /\ MaxMs \in Nat
    /\ MaxAttempts \in Nat

VARIABLES
    emitted,     \* how many frames the relay has published (external)
    reader,      \* where the reader task stands, see ReaderStates
    pos,         \* the frame last delivered on the current connection
    attempt,     \* Backoff::attempt
    channel,     \* the mpsc channel: <<connection, frame>> pairs
    dispatcher,  \* where the dispatcher task stands, see DispatcherStates
    inHand,      \* the item its handler is working on
    metrics,     \* MetricsCounter
    \* History.
    connection,  \* connections made so far
    delivered,   \* the items the handler was called with, in order
    ignored,     \* frames that decoded to nothing
    undecodable, \* frames that did not decode
    failed,      \* calls of the handler that returned an error
    vanished     \* items still queued when the dispatcher died

taskVars == <<reader, pos, attempt, channel, dispatcher, inHand>>
historyVars == <<connection, delivered, ignored, undecodable, failed, vanished>>
vars == <<emitted, reader, pos, attempt, channel, dispatcher, inHand, metrics,
          connection, delivered, ignored, undecodable, failed, vanished>>

Items == Nat \X (1..MaxFrames)
Nobody == <<0, 0>>

ReaderStates == {"connecting", "reading",
                 "offering",      \* decoded frame pos, saw room in the channel
                 "backing_off",
                 "aborted"}       \* its JoinHandle was aborted, tx is dropped
DispatcherStates == {"idle", "handling", "exited",
                     "dead"}      \* the handler panicked, rx is dropped

Metrics(delays) == [received : Nat, dropped : Nat, errors : Nat,
                    reconnects : Nat, backoff : delays, last_seq : Nat]

Init ==
    /\ emitted = 0
    /\ reader = "connecting" /\ pos = 0 /\ attempt = 0
    /\ channel = <<>> /\ dispatcher = "idle" /\ inHand = Nobody
    /\ metrics = [received |-> 0, dropped |-> 0, errors |-> 0,
                  reconnects |-> 0, backoff |-> 0, last_seq |-> 0]
    /\ connection = 0 /\ delivered = <<>>
    /\ ignored = 0 /\ undecodable = 0 /\ failed = 0 /\ vanished = 0

-----------------------------------------------------------------------------
(* Frames *)

\* decode_commit, decode_handle, decode_identity and decode_tombstone want a
\* "seq", decode_info does not.
DecodeBody(f) == IF f.t = "#info" THEN "info" ELSE IF f.seq THEN f.t ELSE "error"

\* decode_frame: "error", "nothing", or the kind of the event.
DecodeFrame(f) ==
    CASE ~f.header -> "error"
      [] f.header /\ f.op = -1 -> IF f.body = "broken" THEN "error" ELSE "info"
      [] f.header /\ f.op = 0 -> "nothing"
      [] f.header /\ f.op = 1 ->
            IF f.body # "map" THEN "error"
            ELSE IF f.t = "other" THEN "nothing" ELSE DecodeBody(f)

\* FirehoseEvent::seq: all but Info events carry one.
HasSeq(event) == event # "info"

-----------------------------------------------------------------------------
(* The reader task *)

\* The relay publishes one more frame.
Publish ==
    /\ emitted < MaxFrames
    /\ emitted' = emitted + 1
    /\ UNCHANGED <<taskVars, metrics, historyVars>>

\* Where the relay starts a subscription: after the cursor of the URL, or at
\* its head when there is none or it lies in the future.
StartPos == IF Cursor = 0 \/ Cursor > emitted THEN emitted ELSE Cursor

ConnectOk ==
    /\ reader = "connecting"
    /\ connection + metrics.reconnects < MaxAttempts
    /\ reader' = "reading"
    /\ pos' = StartPos
    /\ metrics' = [metrics EXCEPT !.backoff = 0]
    /\ connection' = connection + 1
    /\ UNCHANGED <<emitted, attempt, channel, dispatcher, inHand,
                   delivered, ignored, undecodable, failed, vanished>>

\* Backoff::next_delay, the pause after attempt n.
NextDelay(n) ==
    LET clamped == IF BaseMs * 2^n < MaxMs THEN BaseMs * 2^n ELSE MaxMs
        jitter == ((clamped \div 8) * ((n % 3) + 1)) % ((clamped \div 4) + 1)
    IN  IF clamped + jitter < MaxMs THEN clamped + jitter ELSE MaxMs

\* connect_and_read returned: an error counts as a reconnection, a close of
\* the server does not.  The backoff is never reset.
BackOff(error) ==
    /\ reader' = "backing_off"
    /\ attempt' = attempt + 1
    /\ metrics' = [metrics EXCEPT !.reconnects = @ + (IF error THEN 1 ELSE 0),
                                  !.backoff = NextDelay(attempt)]

ConnectFails ==
    /\ reader = "connecting"
    /\ connection + metrics.reconnects < MaxAttempts
    /\ BackOff(TRUE)
    /\ UNCHANGED <<emitted, pos, channel, dispatcher, inHand, historyVars>>

Disconnect ==
    /\ reader = "reading"
    /\ \E error \in BOOLEAN : BackOff(error)
    /\ UNCHANGED <<emitted, pos, channel, dispatcher, inHand, historyVars>>

BackoffElapsed ==
    /\ reader = "backing_off"
    /\ reader' = "connecting"
    /\ UNCHANGED <<emitted, pos, attempt, channel, dispatcher, inHand, metrics,
                   historyVars>>

\* last_seq.store, before anything is decided about the event.
Noted(m, event, seq) ==
    IF HasSeq(event) THEN [m EXCEPT !.last_seq = seq] ELSE m

\* Mutant: no look at the capacity, an unbounded channel.
NeverFull == FALSE

\* tx.capacity() = 0
Full == Len(channel) >= Capacity

\* handle_binary_frame, up to and including the look at the capacity.  With a
\* full channel the event is dropped, and last_seq has moved on nevertheless.
Receive ==
    /\ reader = "reading"
    /\ pos < emitted
    /\ pos' = pos + 1
    /\ LET event == DecodeFrame(Frames[pos + 1])
           counted == [metrics EXCEPT !.received = @ + 1]
           seen == Noted(counted, event, pos + 1)
       IN  \/ /\ event = "error"
              /\ metrics' = [counted EXCEPT !.errors = @ + 1]
              /\ undecodable' = undecodable + 1
              /\ UNCHANGED <<reader, ignored>>
           \/ /\ event = "nothing"
              /\ metrics' = counted
              /\ ignored' = ignored + 1
              /\ UNCHANGED <<reader, undecodable>>
           \/ /\ event \notin {"error", "nothing"}
              /\ Full
              /\ metrics' = [seen EXCEPT !.dropped = @ + 1]
              /\ UNCHANGED <<reader, ignored, undecodable>>
           \/ /\ event \notin {"error", "nothing"}
              /\ ~Full
              /\ metrics' = seen
              /\ reader' = "offering"
              /\ UNCHANGED <<ignored, undecodable>>
    /\ UNCHANGED <<emitted, attempt, channel, dispatcher, inHand,
                   connection, delivered, failed, vanished>>

\* Mutant: the result of try_send is not looked at.
OfferUnchecked ==
    /\ reader = "offering"
    /\ reader' = "reading"
    /\ channel' = IF dispatcher # "dead" THEN Append(channel, <<connection, pos>>)
                                         ELSE channel
    /\ UNCHANGED <<emitted, pos, attempt, dispatcher, inHand, metrics, historyVars>>

\* try_send: it fails only when the dispatcher is gone.
Offer ==
    /\ reader = "offering"
    /\ reader' = "reading"
    /\ \/ /\ dispatcher # "dead"
          /\ channel' = Append(channel, <<connection, pos>>)
          /\ UNCHANGED metrics
       \/ /\ dispatcher = "dead"
          /\ metrics' = [metrics EXCEPT !.dropped = @ + 1]
          /\ UNCHANGED channel
    /\ UNCHANGED <<emitted, pos, attempt, dispatcher, inHand, historyVars>>

\* The owner of the JoinHandle aborts the reader, which it can at an await.
Abort ==
    /\ reader \in {"connecting", "reading", "backing_off"}
    /\ reader' = "aborted"
    /\ UNCHANGED <<emitted, pos, attempt, channel, dispatcher, inHand, metrics,
                   historyVars>>

-----------------------------------------------------------------------------
(* The dispatcher task *)

\* rx.recv, and the call of the handler.
Recv ==
    /\ dispatcher = "idle"
    /\ channel # <<>>
    /\ dispatcher' = "handling"
    /\ inHand' = Head(channel)
    /\ channel' = Tail(channel)
    /\ delivered' = Append(delivered, Head(channel))
    /\ UNCHANGED <<emitted, reader, pos, attempt, metrics, connection, ignored,
                   undecodable, failed, vanished>>

\* Mutant: an event whose handler failed is queued again.
HandlerReturnsRequeues ==
    /\ dispatcher = "handling"
    /\ dispatcher' = "idle"
    /\ inHand' = Nobody
    /\ channel' = IF inHand[2] \in FailsOn THEN <<inHand>> \o channel ELSE channel
    /\ UNCHANGED <<emitted, reader, pos, attempt, metrics, historyVars>>

HandlerReturns ==
    /\ dispatcher = "handling"
    /\ dispatcher' = "idle"
    /\ inHand' = Nobody
    /\ \/ /\ inHand[2] \notin FailsOn
          /\ UNCHANGED <<metrics, failed>>
       \/ /\ inHand[2] \in FailsOn
          /\ metrics' = [metrics EXCEPT !.errors = @ + 1]
          /\ failed' = failed + 1
    /\ UNCHANGED <<emitted, reader, pos, attempt, channel, connection, delivered,
                   ignored, undecodable, vanished>>

\* A panic unwinds the task: rx is dropped, and with it what is queued.
HandlerPanics ==
    /\ dispatcher = "handling"
    /\ inHand[2] \in PanicsOn
    /\ dispatcher' = "dead"
    /\ inHand' = Nobody
    /\ vanished' = vanished + Len(channel)
    /\ channel' = <<>>
    /\ UNCHANGED <<emitted, reader, pos, attempt, metrics, connection, delivered,
                   ignored, undecodable, failed>>

\* Mutant: the dispatcher returns as soon as the sender is gone.
ChannelClosedAtOnce ==
    /\ dispatcher = "idle"
    /\ reader = "aborted"
    /\ dispatcher' = "exited"
    /\ UNCHANGED <<emitted, reader, pos, attempt, channel, inHand, metrics,
                   historyVars>>

\* Mutant: the dispatcher holds a sender of its own.
ChannelNeverCloses == FALSE /\ UNCHANGED vars

\* rx.recv returned None: the sender is gone and the queue is empty.
ChannelClosed ==
    /\ dispatcher = "idle"
    /\ channel = <<>>
    /\ reader = "aborted"
    /\ dispatcher' = "exited"
    /\ UNCHANGED <<emitted, reader, pos, attempt, channel, inHand, metrics,
                   historyVars>>

-----------------------------------------------------------------------------
ReaderStep == ConnectOk \/ ConnectFails \/ BackoffElapsed \/ Receive \/ Offer
DispatcherStep == Recv \/ HandlerReturns \/ HandlerPanics \/ ChannelClosed
Next == Publish \/ ReaderStep \/ Disconnect \/ Abort \/ DispatcherStep

Spec == Init /\ [][Next]_vars

\* Tokio polls a task that is ready, and a handler ends, by returning or by a
\* panic.  Nothing is assumed of the relay, the network and the handle's owner.
FairSpec == Spec /\ WF_vars(Receive \/ Offer) /\ WF_vars(DispatcherStep)

-----------------------------------------------------------------------------
(* Properties *)

\* The pauses made so far, and none.
Delays == {0} \cup {NextDelay(n) : n \in 0..attempt}

\* The variables stay in their types, and the channel within its capacity.
TypeOK ==
    /\ emitted \in 0..MaxFrames
    /\ reader \in ReaderStates
    /\ pos \in 0..MaxFrames
    /\ attempt \in Nat
    /\ channel \in Seq(Items) /\ Len(channel) <= Capacity
    /\ dispatcher \in DispatcherStates
    /\ inHand \in Items \cup {Nobody}
    /\ metrics \in Metrics(Delays)
    /\ connection \in Nat
    /\ delivered \in Seq(Items)
    /\ ignored \in Nat /\ undecodable \in Nat /\ failed \in Nat /\ vanished \in Nat

\* Every frame received ends in exactly one place, and the counters say where:
\* delivered, queued, being offered, dropped (counted), not decoded (an error),
\* ignored, or lost with a dispatcher that panicked.  The errors are those of
\* the decoder and of the handler.
FramesAddUp ==
    /\ metrics.received =
         Len(delivered) + Len(channel) + (IF reader = "offering" THEN 1 ELSE 0)
         + metrics.dropped + undecodable + ignored + vanished
    /\ metrics.errors = undecodable + failed

\* "Last sequence number processed": the event that last_seq names was handed to
\* the handler, or is still on its way to it.
SeqIsProcessed ==
    metrics.last_seq # 0 =>
        \/ \E i \in 1..Len(delivered) : delivered[i][2] = metrics.last_seq
        \/ \E i \in 1..Len(channel) : channel[i][2] = metrics.last_seq
        \/ reader = "offering" /\ pos = metrics.last_seq
        \/ dispatcher = "dead"

Handler == INSTANCE OrderedFeed WITH published <- emitted

\* The handler of the application gets an ordered feed.
HandlerSpec == Handler!FeedSpec

\* What is queued is handled, or dies with a dispatcher whose handler panicked.
QueuedIsDelivered ==
    \A item \in (1..MaxAttempts) \X (1..MaxFrames) :
        (\E i \in 1..Len(channel) : channel[i] = item) ~>
            (dispatcher = "dead"
             \/ \E i \in 1..Len(delivered) : delivered[i] = item)

\* After an abort of the reader the dispatcher drains the channel and returns.
AbortDrains == (reader = "aborted") ~>
                   (dispatcher = "dead" \/ (dispatcher = "exited" /\ channel = <<>>))
=============================================================================
