----------------------- MODULE FirehoseConsumer_proofs -----------------------
(***************************************************************************)
(* Proofs about FirehoseConsumer: the counters and the order in which the  *)
(* handler gets the events, for every sequence of frames, every capacity   *)
(* and every pattern of failures.                                          *)
(***************************************************************************)
EXTENDS FirehoseConsumer, SequenceTheorems, TLAPS

-----------------------------------------------------------------------------
(* Constants, sequences and records *)

LEMMA Constants ==
    /\ MaxFrames \in Nat
    /\ Capacity \in Nat \ {0}
    /\ Cursor \in Nat
    /\ BaseMs \in Nat /\ MaxMs \in Nat
BY FirehoseAssumption DEF MaxFrames

\* Taking the head of the channel.
LEMMA HeadTailFacts ==
    ASSUME NEW S, NEW s \in Seq(S), s # <<>>
    PROVE  /\ Len(s) \in Nat \ {0}
           /\ Head(s) = s[1] /\ Head(s) \in S
           /\ Tail(s) \in Seq(S)
           /\ Len(Tail(s)) = Len(s) - 1
           /\ \A i \in 1..Len(Tail(s)) : Tail(s)[i] = s[i + 1]
BY HeadTailProperties, EmptySeq

\* Appending to the channel, or to what was delivered.
LEMMA AppendFacts ==
    ASSUME NEW S, NEW s \in Seq(S), NEW e \in S
    PROVE  /\ Append(s, e) \in Seq(S)
           /\ Len(s) \in Nat
           /\ Len(Append(s, e)) = Len(s) + 1
           /\ \A i \in 1..Len(s) : Append(s, e)[i] = s[i]
           /\ Append(s, e)[Len(s) + 1] = e
OBVIOUS

\* An update of one counter leaves the others.
LEMMA CounterUpdates ==
    ASSUME NEW D, NEW m \in Metrics(D), NEW d \in Nat
    PROVE  /\ [m EXCEPT !.received = m.received + 1] \in Metrics(D)
           /\ [m EXCEPT !.errors = m.errors + 1] \in Metrics(D)
           /\ [m EXCEPT !.dropped = m.dropped + 1] \in Metrics(D)
           /\ [m EXCEPT !.reconnects = m.reconnects + d] \in Metrics(D)
           /\ \A b \in D : [m EXCEPT !.backoff = b] \in Metrics(D)
           /\ [m EXCEPT !.last_seq = d] \in Metrics(D)
<1>1. [m EXCEPT !.received = m.received + 1] \in Metrics(D)  BY DEF Metrics
<1>2. [m EXCEPT !.errors = m.errors + 1] \in Metrics(D)  BY DEF Metrics
<1>3. [m EXCEPT !.dropped = m.dropped + 1] \in Metrics(D)  BY DEF Metrics
<1>4. [m EXCEPT !.reconnects = m.reconnects + d] \in Metrics(D)  BY DEF Metrics
<1>5. \A b \in D : [m EXCEPT !.backoff = b] \in Metrics(D)  BY DEF Metrics
<1>6. [m EXCEPT !.last_seq = d] \in Metrics(D)  BY DEF Metrics
<1> QED BY <1>1, <1>2, <1>3, <1>4, <1>5, <1>6

-----------------------------------------------------------------------------
(* The inductive invariant *)

\* What the reader has seen when it offers an event.
Control ==
    /\ pos <= emitted
    /\ reader = "offering" => pos # 0 /\ Len(channel) < Capacity
    /\ reader \in {"reading", "offering"} => connection # 0

\* An item is behind the reader.
Behind(item) ==
    /\ item[1] \in 1..connection
    /\ item[2] \in 1..emitted
    /\ item[1] = connection => item[2] <= pos
    /\ item[1] = connection /\ reader = "offering" => item[2] < pos

Precedes(a, b) == a[1] < b[1] \/ (a[1] = b[1] /\ a[2] < b[2])

Queued(item) == \E i \in 1..Len(channel) : channel[i] = item
Delivered(item) == \E i \in 1..Len(delivered) : delivered[i] = item

\* What is queued and what was delivered lies behind the reader, and what is
\* queued is in order and follows what was delivered.
Order ==
    /\ \A item \in Items : Queued(item) \/ Delivered(item) => Behind(item)
    /\ \A i, j \in 1..Len(channel) : i < j => Precedes(channel[i], channel[j])
    /\ delivered # <<>> =>
         \A i \in 1..Len(channel) : Precedes(delivered[Len(delivered)], channel[i])

-----------------------------------------------------------------------------
(* Types *)

\* The delays up to a later attempt.
LEMMA MetricsGrow ==
    ASSUME NEW D, NEW E, D \subseteq E, NEW m \in Metrics(D)
    PROVE  m \in Metrics(E)
BY DEF Metrics

LEMMA BackOffType ==
    ASSUME attempt \in Nat, metrics \in Metrics(Delays), NEW e \in BOOLEAN, BackOff(e)
    PROVE  attempt' \in Nat /\ metrics' \in Metrics(Delays')
<1>1. attempt' = attempt + 1 /\ attempt' \in Nat  BY DEF BackOff
<1>2. Delays \subseteq Delays' /\ NextDelay(attempt) \in Delays'
  BY <1>1 DEF Delays, NextDelay
<1> DEFINE d == IF e THEN 1 ELSE 0
           m == [metrics EXCEPT !.reconnects = metrics.reconnects + d]
<1>3. m \in Metrics(Delays)
  <2>1. d \in Nat /\ 0 \in Delays  BY DEF Delays
  <2> HIDE DEF d
  <2> QED BY <2>1, CounterUpdates
<1>4. m \in Metrics(Delays')  BY <1>2, <1>3, MetricsGrow
<1>5. metrics' = [m EXCEPT !.backoff = NextDelay(attempt)]  BY DEF BackOff
<1> HIDE DEF m
<1>6. metrics' \in Metrics(Delays')  BY <1>2, <1>4, <1>5, CounterUpdates
<1> QED BY <1>1, <1>6

\* What Receive does to the counters.
LEMMA ReceiveMoves ==
    ASSUME TypeOK, Receive
    PROVE  /\ reader = "reading" /\ pos < emitted /\ pos' = pos + 1
           /\ \/ /\ reader' = "reading"
                 /\ metrics' = [[metrics EXCEPT !.received = metrics.received + 1]
                                   EXCEPT !.errors = metrics.errors + 1]
                 /\ undecodable' = undecodable + 1 /\ ignored' = ignored
              \/ /\ reader' = "reading"
                 /\ metrics' = [metrics EXCEPT !.received = metrics.received + 1]
                 /\ undecodable' = undecodable /\ ignored' = ignored + 1
              \/ /\ reader' = "reading"
                 /\ \E s \in {metrics.last_seq, pos + 1} :
                      metrics' = [[[metrics EXCEPT !.received = metrics.received + 1]
                                       EXCEPT !.last_seq = s]
                                       EXCEPT !.dropped = metrics.dropped + 1]
                 /\ undecodable' = undecodable /\ ignored' = ignored
              \/ /\ reader' = "offering" /\ Len(channel) < Capacity
                 /\ \E s \in {metrics.last_seq, pos + 1} :
                      metrics' = [[metrics EXCEPT !.received = metrics.received + 1]
                                      EXCEPT !.last_seq = s]
                 /\ undecodable' = undecodable /\ ignored' = ignored
           /\ UNCHANGED <<emitted, attempt, channel, dispatcher, inHand,
                          connection, delivered, failed, vanished>>
<1> DEFINE event == DecodeFrame(Frames[pos + 1])
           counted == [metrics EXCEPT !.received = metrics.received + 1]
           s == IF HasSeq(event) THEN pos + 1 ELSE metrics.last_seq
<1>1. counted \in Metrics(Delays) /\ counted.errors = metrics.errors
      /\ counted.dropped = metrics.dropped /\ counted.last_seq = metrics.last_seq
  BY CounterUpdates DEF TypeOK, Metrics
<1>2. Noted(counted, event, pos + 1) = [counted EXCEPT !.last_seq = s]
  <2>1. CASE HasSeq(event)  BY <2>1 DEF Noted
  <2>2. CASE ~HasSeq(event)
    <3>1. s = counted.last_seq  BY <1>1, <2>2
    <3>2. [counted EXCEPT !.last_seq = counted.last_seq] = counted
      BY <1>1 DEF Metrics
    <3> QED BY <2>2, <3>1, <3>2 DEF Noted
  <2> QED BY <2>1, <2>2
<1>3. [counted EXCEPT !.last_seq = s].dropped = metrics.dropped  BY <1>1 DEF Metrics
<1>4. s \in {metrics.last_seq, pos + 1}  OBVIOUS
<1>5. Len(channel) \in Nat /\ Capacity \in Nat  BY Constants DEF TypeOK
<1>6. ~Full => Len(channel) < Capacity  BY <1>5 DEF Full
<1>7. /\ reader = "reading" /\ pos < emitted /\ pos' = pos + 1
      /\ UNCHANGED <<emitted, attempt, channel, dispatcher, inHand,
                     connection, delivered, failed, vanished>>
  BY DEF Receive
<1>8. \/ /\ metrics' = [counted EXCEPT !.errors = counted.errors + 1]
         /\ undecodable' = undecodable + 1 /\ UNCHANGED <<reader, ignored>>
      \/ /\ metrics' = counted
         /\ ignored' = ignored + 1 /\ UNCHANGED <<reader, undecodable>>
      \/ /\ metrics' = [[counted EXCEPT !.last_seq = s]
                           EXCEPT !.dropped = [counted EXCEPT !.last_seq = s].dropped + 1]
         /\ UNCHANGED <<reader, ignored, undecodable>>
      \/ /\ ~Full /\ metrics' = [counted EXCEPT !.last_seq = s]
         /\ reader' = "offering" /\ UNCHANGED <<ignored, undecodable>>
  <2> HIDE DEF s, counted, event
  <2>1. Noted(counted, event, pos + 1) = [counted EXCEPT !.last_seq = s]  BY <1>2
  <2> QED BY <2>1 DEF Receive, counted, event
<1> HIDE DEF s, event
<1> QED BY <1>1, <1>3, <1>4, <1>6, <1>7, <1>8 DEF event

\* The counters keep their types when a frame is received.
LEMMA ReceiveType ==
    ASSUME TypeOK, Receive
    PROVE  metrics' \in Metrics(Delays') /\ undecodable' \in Nat /\ ignored' \in Nat
<1>1. metrics \in Metrics(Delays) /\ metrics.last_seq \in Nat /\ pos + 1 \in Nat
      /\ undecodable \in Nat /\ ignored \in Nat
  BY Constants DEF TypeOK, Metrics
<1>2. Delays' = Delays  BY ReceiveMoves DEF Delays, NextDelay
<1> DEFINE m == [metrics EXCEPT !.received = metrics.received + 1]
<1>3. m \in Metrics(Delays) /\ m.errors = metrics.errors
  BY <1>1, CounterUpdates DEF Metrics
<1>4. [m EXCEPT !.errors = metrics.errors + 1] \in Metrics(Delays)
  BY <1>3, CounterUpdates
<1>5. ASSUME NEW q \in {metrics.last_seq, pos + 1}
      PROVE  /\ [m EXCEPT !.last_seq = q] \in Metrics(Delays)
             /\ [m EXCEPT !.last_seq = q].dropped = metrics.dropped
             /\ [[m EXCEPT !.last_seq = q] EXCEPT !.dropped = metrics.dropped + 1]
                    \in Metrics(Delays)
  <2>1. q \in Nat  BY <1>1
  <2>2. [m EXCEPT !.last_seq = q] \in Metrics(Delays)  BY <1>3, <2>1, CounterUpdates
  <2>3. [m EXCEPT !.last_seq = q].dropped = metrics.dropped  BY <1>1 DEF Metrics
  <2> QED BY <2>2, <2>3, CounterUpdates
<1>6. undecodable' \in Nat /\ ignored' \in Nat  BY <1>1, ReceiveMoves
<1>7. metrics' \in Metrics(Delays)  BY <1>3, <1>4, <1>5, ReceiveMoves
<1> QED BY <1>2, <1>6, <1>7

LEMMA TypeStep == TypeOK /\ Control /\ [Next]_vars => TypeOK'
<1> SUFFICES ASSUME TypeOK, Control, [Next]_vars PROVE TypeOK'
  OBVIOUS
<1> USE DEF ReaderStates, DispatcherStates, taskVars, historyVars
<1>0. /\ MaxFrames \in Nat /\ Capacity \in Nat \ {0} /\ Cursor \in Nat
      /\ attempt' = attempt => Delays' = Delays
  BY Constants DEF Delays, NextDelay
<1>1. CASE Publish
  BY <1>0, <1>1 DEF Publish, TypeOK
<1>2. CASE ConnectOk
  <2>1. metrics' \in Metrics(Delays')
    <3>1. metrics' = [metrics EXCEPT !.backoff = 0] /\ 0 \in Delays /\ Delays' = Delays
      BY <1>0, <1>2 DEF ConnectOk, Delays
    <3>2. metrics \in Metrics(Delays)  BY DEF TypeOK
    <3> QED BY <3>1, <3>2, CounterUpdates
  <2>2. StartPos \in 0..MaxFrames  BY <1>0 DEF StartPos, TypeOK
  <2>3. /\ reader' = "reading" /\ pos' \in 0..MaxFrames /\ connection' \in Nat
        /\ UNCHANGED <<emitted, attempt, channel, dispatcher, inHand,
                       delivered, ignored, undecodable, failed, vanished>>
    BY <1>2, <2>2 DEF ConnectOk, TypeOK
  <2> QED BY <2>1, <2>3 DEF TypeOK
<1>3. CASE ConnectFails \/ Disconnect
  <2>1. PICK e \in BOOLEAN : BackOff(e)  BY <1>3 DEF ConnectFails, Disconnect
  <2>2. attempt' \in Nat /\ metrics' \in Metrics(Delays')
    BY <2>1, BackOffType DEF TypeOK
  <2>3. reader' = "backing_off" /\ UNCHANGED <<emitted, pos, channel, dispatcher,
                                               inHand, historyVars>>
    BY <1>3, <2>1 DEF ConnectFails, Disconnect, BackOff
  <2> QED BY <2>2, <2>3 DEF TypeOK
<1>4. CASE BackoffElapsed \/ Abort
  BY <1>0, <1>4 DEF BackoffElapsed, Abort, TypeOK
<1>5. CASE Receive
  <2>1. metrics' \in Metrics(Delays') /\ undecodable' \in Nat /\ ignored' \in Nat
    BY <1>5, ReceiveType
  <2>2. /\ reader' \in ReaderStates /\ pos' \in 0..MaxFrames
        /\ UNCHANGED <<emitted, attempt, channel, dispatcher, inHand,
                       connection, delivered, failed, vanished>>
    BY <1>0, <1>5, ReceiveMoves DEF TypeOK
  <2> QED BY <2>1, <2>2 DEF TypeOK
<1>6. CASE Offer
  <2>1. <<connection, pos>> \in Items  BY <1>0, <1>6 DEF Offer, Control, Items, TypeOK
  <2>2. channel' \in Seq(Items) /\ Len(channel') <= Capacity
    <3>1. channel \in Seq(Items) /\ Len(channel) < Capacity /\ Len(channel) \in Nat
      BY <1>6 DEF Offer, Control, TypeOK
    <3>2. channel' = channel \/ channel' = Append(channel, <<connection, pos>>)
      BY <1>6 DEF Offer
    <3> QED BY <1>0, <2>1, <3>1, <3>2, AppendFacts
  <2>3. metrics' \in Metrics(Delays')
    <3>1. metrics' = metrics \/ metrics' = [metrics EXCEPT !.dropped = metrics.dropped + 1]
      BY <1>6 DEF Offer
    <3>2. metrics \in Metrics(Delays) /\ Delays' = Delays
      BY <1>0, <1>6 DEF Offer, TypeOK
    <3> QED BY <3>1, <3>2, CounterUpdates
  <2>4. reader' = "reading" /\ UNCHANGED <<emitted, pos, attempt, dispatcher, inHand,
                                           historyVars>>
    BY <1>6 DEF Offer
  <2> QED BY <2>2, <2>3, <2>4 DEF TypeOK
<1>7. CASE Recv
  <2>1. channel \in Seq(Items) /\ channel # <<>> /\ delivered \in Seq(Items)
        /\ Len(channel) <= Capacity
    BY <1>7 DEF Recv, TypeOK
  <2>2. /\ Head(channel) \in Items /\ Tail(channel) \in Seq(Items)
        /\ Len(Tail(channel)) <= Capacity
    BY <1>0, <2>1, HeadTailFacts
  <2>3. Append(delivered, Head(channel)) \in Seq(Items)
    BY <2>1, <2>2, AppendFacts
  <2>4. /\ dispatcher' = "handling" /\ inHand' = Head(channel)
        /\ channel' = Tail(channel) /\ delivered' = Append(delivered, Head(channel))
        /\ UNCHANGED <<emitted, reader, pos, attempt, metrics, connection, ignored,
                       undecodable, failed, vanished>>
    BY <1>7 DEF Recv
  <2>5. Delays' = Delays  BY <1>0, <2>4
  <2> QED BY <2>2, <2>3, <2>4, <2>5 DEF TypeOK
<1>8. CASE HandlerReturns
  <2>1. metrics' \in Metrics(Delays') /\ failed' \in Nat
    <3>1. \/ metrics' = metrics /\ failed' = failed
          \/ metrics' = [metrics EXCEPT !.errors = metrics.errors + 1] /\ failed' = failed + 1
      BY <1>8 DEF HandlerReturns
    <3>2. metrics \in Metrics(Delays) /\ Delays' = Delays /\ failed \in Nat
      BY <1>0, <1>8 DEF HandlerReturns, TypeOK
    <3>3. [metrics EXCEPT !.errors = metrics.errors + 1] \in Metrics(Delays)
      BY <3>2, CounterUpdates
    <3> QED BY <3>1, <3>2, <3>3
  <2>2. /\ dispatcher' = "idle" /\ inHand' = Nobody
        /\ UNCHANGED <<emitted, reader, pos, attempt, channel, connection, delivered,
                       ignored, undecodable, vanished>>
    BY <1>8 DEF HandlerReturns
  <2> QED BY <2>1, <2>2 DEF TypeOK
<1>9. CASE HandlerPanics
  <2>1. /\ dispatcher' = "dead" /\ inHand' = Nobody
        /\ vanished' = vanished + Len(channel) /\ channel' = <<>>
        /\ UNCHANGED <<emitted, reader, pos, attempt, metrics, connection, delivered,
                       ignored, undecodable, failed>>
    BY <1>9 DEF HandlerPanics
  <2>2. Len(channel) \in Nat /\ <<>> \in Seq(Items) /\ Len(<<>>) = 0 /\ Delays' = Delays
    BY <1>0, <2>1 DEF TypeOK
  <2> QED BY <1>0, <2>1, <2>2 DEF TypeOK
<1>10. CASE ChannelClosed
  BY <1>0, <1>10 DEF ChannelClosed, TypeOK
<1>11. CASE UNCHANGED vars
  BY <1>0, <1>11 DEF vars, TypeOK
<1> QED
  BY <1>1, <1>2, <1>3, <1>4, <1>5, <1>6, <1>7, <1>8, <1>9, <1>10, <1>11
  DEF Next, ReaderStep, DispatcherStep

-----------------------------------------------------------------------------
(* What a step does to the order of things *)

\* The two tasks' moves, as far as the order is concerned: most steps only
\* leave states in which nothing is offered.
LEMMA Moves ==
    ASSUME TypeOK, Control, [Next]_vars
    PROVE  \/ /\ emitted' \in {emitted, emitted + 1} /\ reader' = reader
              /\ UNCHANGED <<pos, channel, delivered, connection, metrics>>
           \/ /\ reader' \in {"connecting", "backing_off", "aborted"}
              /\ metrics'.last_seq = metrics.last_seq
              /\ UNCHANGED <<emitted, pos, channel, delivered, connection>>
           \/ /\ reader' = "reading" /\ connection' = connection + 1
              /\ pos' \in 0..emitted
              /\ metrics'.last_seq = metrics.last_seq
              /\ UNCHANGED <<emitted, channel, delivered>>
           \/ Receive
           \/ Offer
           \/ Recv
           \/ /\ channel' \in {channel, <<>>}
              /\ metrics'.last_seq = metrics.last_seq
              /\ UNCHANGED <<emitted, reader, pos, delivered, connection>>
<1> USE DEF taskVars, historyVars
<1>0. metrics \in Metrics(Delays)  BY DEF TypeOK
<1>1. CASE Publish  BY <1>1 DEF Publish
<1>2. CASE ConnectOk
  <2>1. StartPos \in 0..emitted  BY Constants DEF StartPos, TypeOK
  <2>2. metrics'.last_seq = metrics.last_seq  BY <1>0, <1>2 DEF ConnectOk, Metrics
  <2> QED BY <1>2, <2>1, <2>2 DEF ConnectOk
<1>3. CASE ConnectFails \/ Disconnect
  <2>1. PICK e \in BOOLEAN : BackOff(e)  BY <1>3 DEF ConnectFails, Disconnect
  <2>2. metrics'.last_seq = metrics.last_seq /\ reader' = "backing_off"
    BY <1>0, <2>1 DEF BackOff, Metrics
  <2> QED BY <1>3, <2>2 DEF ConnectFails, Disconnect
<1>4. CASE BackoffElapsed \/ Abort  BY <1>4 DEF BackoffElapsed, Abort
<1>5. CASE HandlerReturns
  <2>1. metrics'.last_seq = metrics.last_seq
    BY <1>0, <1>5 DEF HandlerReturns, Metrics
  <2> QED BY <1>5, <2>1 DEF HandlerReturns
<1>6. CASE HandlerPanics \/ ChannelClosed
  BY <1>6 DEF HandlerPanics, ChannelClosed
<1>7. CASE UNCHANGED vars  BY <1>7 DEF vars
<1> QED BY <1>1, <1>2, <1>3, <1>4, <1>5, <1>6, <1>7 DEF Next, ReaderStep, DispatcherStep

LEMMA ControlStep == TypeOK /\ Control /\ [Next]_vars => Control'
<1> SUFFICES ASSUME TypeOK, Control, [Next]_vars PROVE Control'
  OBVIOUS
<1>0. /\ emitted \in Nat /\ pos \in Nat /\ connection \in Nat /\ Capacity \in Nat \ {0}
      /\ Len(channel) \in Nat /\ channel \in Seq(Items)
  BY Constants DEF TypeOK
<1>1. CASE Receive
  BY <1>0, <1>1, ReceiveMoves DEF Control
<1>2. CASE Offer
  BY <1>0, <1>2 DEF Offer, Control, historyVars
<1>3. CASE Recv
  <2>1. Len(channel') < Len(channel) \/ Len(channel') <= Len(channel) - 1
    BY <1>0, <1>3, HeadTailFacts DEF Recv
  <2>2. Len(channel') \in Nat
    BY <1>0, <1>3, HeadTailFacts DEF Recv
  <2> QED BY <1>0, <1>3, <2>1, <2>2 DEF Recv, Control
<1>4. Len(<<>>) = 0  OBVIOUS
<1> QED BY <1>0, <1>1, <1>2, <1>3, <1>4, Moves DEF Control

-----------------------------------------------------------------------------
(* The order *)

\* An item that lies behind the reader stays behind it.
LEMMA BehindStays ==
    ASSUME TypeOK, Control, [Next]_vars, NEW item \in Items, Behind(item)
    PROVE  Behind(item)'
<1>0. /\ emitted \in Nat /\ pos \in Nat /\ connection \in Nat
      /\ item[1] \in Nat /\ item[2] \in Nat
  BY Constants DEF TypeOK, Items
<1>1. /\ item[1] <= connection /\ 1 <= item[1] /\ item[2] <= emitted /\ 1 <= item[2]
      /\ item[1] = connection => item[2] <= pos
      /\ item[1] = connection /\ reader = "offering" => item[2] < pos
  BY <1>0 DEF Behind
<1>2. /\ emitted' \in Nat /\ pos' \in Nat /\ connection' \in Nat
      /\ item[1] <= connection' /\ item[2] <= emitted'
      /\ item[1] = connection' => item[2] <= pos'
      /\ item[1] = connection' /\ reader' = "offering" => item[2] < pos'
  <2>1. CASE Receive
    BY <1>0, <1>1, <2>1, ReceiveMoves
  <2>2. CASE Offer
    BY <1>0, <1>1, <2>2 DEF Offer, historyVars
  <2>3. CASE Recv
    BY <1>0, <1>1, <2>3 DEF Recv
  <2> QED BY <1>0, <1>1, <2>1, <2>2, <2>3, Moves
<1> QED BY <1>0, <1>1, <1>2 DEF Behind

\* The event that is offered follows everything that lies behind the reader.
LEMMA OfferedIsNext ==
    ASSUME TypeOK, Control, reader = "offering", NEW item \in Items, Behind(item)
    PROVE  Precedes(item, <<connection, pos>>)
<1>1. /\ item[1] \in Nat /\ item[2] \in Nat /\ connection \in Nat /\ pos \in Nat
      /\ item[1] <= connection
      /\ item[1] = connection => item[2] < pos
  BY Constants DEF TypeOK, Items, Behind
<1> QED BY <1>1 DEF Precedes

\* What Offer does to the channel.
LEMMA OfferMoves ==
    ASSUME TypeOK, Control, Offer
    PROVE  /\ reader = "offering" /\ reader' = "reading"
           /\ pos # 0 /\ connection # 0 /\ pos <= emitted
           /\ <<connection, pos>> \in Items
           /\ UNCHANGED <<emitted, pos, delivered, connection>>
           /\ metrics'.last_seq = metrics.last_seq
           /\ \/ channel' = channel
              \/ channel' = Append(channel, <<connection, pos>>)
<1>1. metrics'.last_seq = metrics.last_seq  BY DEF Offer, TypeOK, Metrics
<1>2. /\ reader = "offering" /\ pos # 0 /\ connection # 0 /\ pos <= emitted
      /\ connection \in Nat /\ pos \in 0..MaxFrames /\ MaxFrames \in Nat
  BY Constants DEF Offer, Control, TypeOK
<1>3. <<connection, pos>> \in Items  BY <1>2 DEF Items
<1> QED BY <1>1, <1>2, <1>3 DEF Offer, historyVars

\* What is queued was queued, or has just been offered, and what was delivered
\* was delivered or queued.
LEMMA Comings ==
    ASSUME TypeOK, Control, [Next]_vars, NEW item \in Items
    PROVE  /\ Queued(item)' => \/ Queued(item)
                               \/ Offer /\ item = <<connection, pos>>
           /\ Delivered(item)' => Delivered(item) \/ Queued(item)
<1>0. channel \in Seq(Items) /\ delivered \in Seq(Items)
  BY DEF TypeOK
<1>1. CASE Receive
  BY <1>1, ReceiveMoves DEF Queued, Delivered
<1>2. CASE Offer
  <2>1. Delivered(item)' => Delivered(item)  BY <1>2, OfferMoves DEF Delivered
  <2>2. CASE channel' = channel  BY <2>1, <2>2 DEF Queued
  <2>3. CASE channel' = Append(channel, <<connection, pos>>)
    <3>1. <<connection, pos>> \in Items  BY <1>2, OfferMoves
    <3>2. \A i \in 1..Len(channel') :
             \/ i \in 1..Len(channel) /\ channel'[i] = channel[i]
             \/ channel'[i] = <<connection, pos>>
      BY <1>0, <2>3, <3>1, AppendFacts
    <3> QED BY <1>2, <2>1, <3>2 DEF Queued
  <2> QED BY <1>2, <2>2, <2>3, OfferMoves
<1>3. CASE Recv
  <2>1. /\ channel # <<>> /\ channel' = Tail(channel)
        /\ delivered' = Append(delivered, Head(channel))
    BY <1>3 DEF Recv
  <2>2. /\ Len(channel) \in Nat \ {0} /\ Head(channel) = channel[1]
        /\ Head(channel) \in Items
        /\ Len(channel') = Len(channel) - 1
        /\ \A i \in 1..Len(channel') : channel'[i] = channel[i + 1]
    BY <1>0, <2>1, HeadTailFacts
  <2>3. \A i \in 1..Len(channel') : i + 1 \in 1..Len(channel)  BY <2>2
  <2>4. Queued(item)' => Queued(item)  BY <2>2, <2>3 DEF Queued
  <2>5. \A i \in 1..Len(delivered') :
           \/ i \in 1..Len(delivered) /\ delivered'[i] = delivered[i]
           \/ delivered'[i] = channel[1]
    BY <1>0, <2>1, <2>2, AppendFacts
  <2>6. 1 \in 1..Len(channel)  BY <2>2
  <2>7. Delivered(item)' => Delivered(item) \/ Queued(item)
    BY <2>5, <2>6 DEF Queued, Delivered
  <2> QED BY <2>4, <2>7
<1>4. CASE UNCHANGED <<channel, delivered>>
  BY <1>4 DEF Queued, Delivered
<1>5. CASE channel' = <<>> /\ delivered' = delivered
  <2>1. Len(channel') = 0  BY <1>5
  <2> QED BY <1>5, <2>1 DEF Queued, Delivered
<1> QED BY <1>1, <1>2, <1>3, <1>4, <1>5, Moves

LEMMA BehindStep ==
    ASSUME TypeOK, TypeOK', Control, Order, [Next]_vars, NEW item \in Items,
           Queued(item)' \/ Delivered(item)'
    PROVE  Behind(item)'
<1>1. CASE Queued(item) \/ Delivered(item)
  <2>1. Behind(item)  BY <1>1 DEF Order
  <2> QED BY <2>1, BehindStays
<1>2. CASE Offer /\ item = <<connection, pos>>
  <2>1. /\ pos # 0 /\ connection # 0 /\ pos <= emitted /\ reader' = "reading"
        /\ emitted' = emitted /\ pos' = pos /\ connection' = connection
    BY <1>2, OfferMoves
  <2>2. emitted \in Nat /\ pos \in Nat /\ connection \in Nat
    BY Constants DEF TypeOK
  <2>3. item[1] = connection /\ item[2] = pos  BY <1>2
  <2> QED BY <2>1, <2>2, <2>3 DEF Behind
<1> QED BY <1>1, <1>2, Comings

LEMMA OrderStep == TypeOK /\ TypeOK' /\ Control /\ Order /\ [Next]_vars => Order'
<1> SUFFICES ASSUME TypeOK, TypeOK', Control, Order, [Next]_vars PROVE Order'
  OBVIOUS
<1>0. /\ channel \in Seq(Items) /\ delivered \in Seq(Items)
      /\ Len(channel) \in Nat /\ Len(delivered) \in Nat
      /\ \A i \in 1..Len(channel) : channel[i] \in Items
      /\ delivered # <<>> => /\ delivered[Len(delivered)] \in Items
                             /\ Delivered(delivered[Len(delivered)])
  <2>1. channel \in Seq(Items) /\ delivered \in Seq(Items)  BY DEF TypeOK
  <2>2. delivered # <<>> => Len(delivered) \in 1..Len(delivered)
    BY <2>1, EmptySeq
  <2> QED BY <2>1, <2>2 DEF Delivered
<1>1. \A item \in Items : Queued(item)' \/ Delivered(item)' => Behind(item)'
  BY BehindStep
<1> DEFINE Sorted == /\ \A i, j \in 1..Len(channel) :
                           i < j => Precedes(channel[i], channel[j])
                     /\ delivered # <<>> =>
                          \A i \in 1..Len(channel) :
                             Precedes(delivered[Len(delivered)], channel[i])
<1>2. Sorted  BY DEF Order
<1>3. Sorted'
  <2>1. CASE UNCHANGED <<channel, delivered>>  BY <1>2, <2>1
  <2>2. CASE channel' = <<>> /\ delivered' = delivered
    <3>1. Len(channel') = 0  BY <2>2
    <3> QED BY <3>1
  <2>3. CASE Offer
    <3>1. CASE channel' = channel  BY <1>2, <2>3, <3>1, OfferMoves
    <3>2. CASE channel' = Append(channel, <<connection, pos>>)
      <4> DEFINE new == <<connection, pos>>
      <4>1. new \in Items /\ delivered' = delivered /\ reader = "offering"
        BY <2>3, OfferMoves
      <4>2. /\ Len(channel') = Len(channel) + 1
            /\ \A i \in 1..Len(channel) : channel'[i] = channel[i]
            /\ channel'[Len(channel) + 1] = new
        BY <1>0, <3>2, <4>1, AppendFacts
      <4>3. \A item \in Items : Queued(item) \/ Delivered(item) => Precedes(item, new)
        BY <4>1, OfferedIsNext DEF Order
      <4>4. \A i \in 1..Len(channel) : Precedes(channel[i], new)
        BY <1>0, <4>3 DEF Queued
      <4>5. delivered # <<>> => Precedes(delivered[Len(delivered)], new)
        BY <1>0, <4>3
      <4> HIDE DEF new
      <4>6. \A i \in 1..Len(channel') : i \in 1..Len(channel) \/ i = Len(channel) + 1
        BY <1>0, <4>2
      <4>7. \A i, j \in 1..Len(channel') : i < j => Precedes(channel'[i], channel'[j])
        <5> SUFFICES ASSUME NEW i \in 1..Len(channel'), NEW j \in 1..Len(channel'), i < j
                     PROVE  Precedes(channel'[i], channel'[j])
          OBVIOUS
        <5>1. i \in 1..Len(channel)  BY <1>0, <4>2
        <5>2. CASE j \in 1..Len(channel)  BY <1>2, <4>2, <5>1, <5>2
        <5>3. CASE j = Len(channel) + 1  BY <4>2, <4>4, <5>1, <5>3
        <5> QED BY <4>6, <5>2, <5>3
      <4>8. delivered' # <<>> =>
              \A i \in 1..Len(channel') : Precedes(delivered'[Len(delivered')], channel'[i])
        BY <1>2, <4>1, <4>2, <4>5, <4>6
      <4> QED BY <4>7, <4>8
    <3> QED BY <2>3, <3>1, <3>2, OfferMoves
  <2>4. CASE Recv
    <3>1. /\ channel # <<>> /\ channel' = Tail(channel)
          /\ delivered' = Append(delivered, Head(channel))
      BY <2>4 DEF Recv
    <3>2. /\ Len(channel) \in Nat \ {0} /\ Head(channel) = channel[1]
          /\ Head(channel) \in Items
          /\ Len(channel') = Len(channel) - 1
          /\ \A i \in 1..Len(channel') : channel'[i] = channel[i + 1]
      BY <1>0, <3>1, HeadTailFacts
    <3>3. delivered'[Len(delivered')] = channel[1]
      BY <1>0, <3>1, <3>2, AppendFacts
    <3>4. \A i \in 1..Len(channel') : i + 1 \in 1..Len(channel) /\ 1 < i + 1
      BY <3>2
    <3>5. \A i, j \in 1..Len(channel') : i < j => i + 1 < j + 1
      BY <3>2
    <3>6. 1 \in 1..Len(channel)  BY <3>2
    <3>7. \A i, j \in 1..Len(channel') : i < j => Precedes(channel'[i], channel'[j])
      BY <1>2, <3>2, <3>4, <3>5
    <3>8. \A i \in 1..Len(channel') : Precedes(delivered'[Len(delivered')], channel'[i])
      BY <1>2, <3>2, <3>3, <3>4, <3>6
    <3> QED BY <3>7, <3>8
  <2>5. CASE Receive
    BY <2>1, <2>5, ReceiveMoves
  <2> QED BY <2>1, <2>2, <2>3, <2>4, <2>5, Moves
<1> QED BY <1>1, <1>3 DEF Order

-----------------------------------------------------------------------------
(* The counters *)

\* One more of what was received is one more of one of the places it ends in.
LEMMA OneMore ==
    ASSUME NEW a \in Nat, NEW b \in Nat, NEW c \in Nat,
           NEW d \in Nat, NEW e \in Nat, NEW f \in Nat
    PROVE  /\ a + b + 0 + c + (d + 1) + e + f = a + b + c + d + e + f + 1
           /\ a + b + 0 + c + d + (e + 1) + f = a + b + c + d + e + f + 1
           /\ a + b + 0 + (c + 1) + d + e + f = a + b + c + d + e + f + 1
           /\ a + b + 1 + c + d + e + f = a + b + c + d + e + f + 1
OBVIOUS

\* What was queued has vanished.
LEMMA QueueVanishes ==
    ASSUME NEW a \in Nat, NEW b \in Nat, NEW o \in Nat, NEW c \in Nat,
           NEW d \in Nat, NEW e \in Nat, NEW f \in Nat
    PROVE  a + 0 + o + c + d + e + (f + b) = a + b + o + c + d + e + f
OBVIOUS

LEMMA CountsStep == TypeOK /\ Control /\ FramesAddUp /\ [Next]_vars => FramesAddUp'
<1> SUFFICES ASSUME TypeOK, Control, FramesAddUp, [Next]_vars PROVE FramesAddUp'
  OBVIOUS
<1> USE DEF taskVars, historyVars
<1> DEFINE offered == IF reader = "offering" THEN 1 ELSE 0
           Sum == Len(delivered) + Len(channel) + offered + metrics.dropped
                  + undecodable + ignored + vanished
<1>0. /\ metrics \in Metrics(Delays)
      /\ metrics.received \in Nat /\ metrics.dropped \in Nat /\ metrics.errors \in Nat
      /\ Len(delivered) \in Nat /\ Len(channel) \in Nat
      /\ undecodable \in Nat /\ ignored \in Nat /\ vanished \in Nat /\ failed \in Nat
      /\ channel \in Seq(Items) /\ delivered \in Seq(Items)
  BY DEF TypeOK, Metrics
<1>1. metrics.received = Sum /\ metrics.errors = undecodable + failed
  BY DEF FramesAddUp
<1> SUFFICES metrics'.received = Sum' /\ metrics'.errors = undecodable' + failed'
  BY DEF FramesAddUp
<1>2. CASE Receive
  <2> DEFINE m == [metrics EXCEPT !.received = metrics.received + 1]
  <2>1. /\ m \in Metrics(Delays) /\ m.received = metrics.received + 1
        /\ m.dropped = metrics.dropped /\ m.errors = metrics.errors
    BY <1>0, CounterUpdates DEF Metrics
  <2>2. /\ [m EXCEPT !.errors = metrics.errors + 1].received = metrics.received + 1
        /\ [m EXCEPT !.errors = metrics.errors + 1].errors = metrics.errors + 1
        /\ [m EXCEPT !.errors = metrics.errors + 1].dropped = metrics.dropped
    BY <2>1 DEF Metrics
  <2>3. ASSUME NEW q
        PROVE  /\ [m EXCEPT !.last_seq = q].received = metrics.received + 1
               /\ [m EXCEPT !.last_seq = q].errors = metrics.errors
               /\ [m EXCEPT !.last_seq = q].dropped = metrics.dropped
               /\ [[m EXCEPT !.last_seq = q] EXCEPT !.dropped = metrics.dropped + 1].received
                     = metrics.received + 1
               /\ [[m EXCEPT !.last_seq = q] EXCEPT !.dropped = metrics.dropped + 1].errors
                     = metrics.errors
               /\ [[m EXCEPT !.last_seq = q] EXCEPT !.dropped = metrics.dropped + 1].dropped
                     = metrics.dropped + 1
    BY <2>1 DEF Metrics
  <2>4. \/ /\ reader' = "reading" /\ metrics'.errors = metrics.errors + 1
           /\ metrics'.dropped = metrics.dropped
           /\ undecodable' = undecodable + 1 /\ ignored' = ignored
        \/ /\ reader' = "reading" /\ metrics'.errors = metrics.errors
           /\ metrics'.dropped = metrics.dropped
           /\ undecodable' = undecodable /\ ignored' = ignored + 1
        \/ /\ reader' = "reading" /\ metrics'.errors = metrics.errors
           /\ metrics'.dropped = metrics.dropped + 1
           /\ undecodable' = undecodable /\ ignored' = ignored
        \/ /\ reader' = "offering" /\ metrics'.errors = metrics.errors
           /\ metrics'.dropped = metrics.dropped
           /\ undecodable' = undecodable /\ ignored' = ignored
    <3>1. \/ /\ reader' = "reading"
             /\ metrics' = [m EXCEPT !.errors = metrics.errors + 1]
             /\ undecodable' = undecodable + 1 /\ ignored' = ignored
          \/ /\ reader' = "reading" /\ metrics' = m
             /\ undecodable' = undecodable /\ ignored' = ignored + 1
          \/ /\ reader' = "reading"
             /\ \E q \in {metrics.last_seq, pos + 1} :
                  metrics' = [[m EXCEPT !.last_seq = q]
                                 EXCEPT !.dropped = metrics.dropped + 1]
             /\ undecodable' = undecodable /\ ignored' = ignored
          \/ /\ reader' = "offering"
             /\ \E q \in {metrics.last_seq, pos + 1} : metrics' = [m EXCEPT !.last_seq = q]
             /\ undecodable' = undecodable /\ ignored' = ignored
      BY <1>2, ReceiveMoves
    <3> HIDE DEF m
    <3>2. CASE /\ reader' = "reading"
               /\ metrics' = [m EXCEPT !.errors = metrics.errors + 1]
               /\ undecodable' = undecodable + 1 /\ ignored' = ignored
      BY <2>2, <3>2
    <3>3. CASE /\ reader' = "reading" /\ metrics' = m
               /\ undecodable' = undecodable /\ ignored' = ignored + 1
      BY <2>1, <3>3
    <3>4. ASSUME NEW q,
                 reader' = "reading",
                 metrics' = [[m EXCEPT !.last_seq = q]
                                EXCEPT !.dropped = metrics.dropped + 1],
                 undecodable' = undecodable, ignored' = ignored
          PROVE  metrics'.errors = metrics.errors /\ metrics'.dropped = metrics.dropped + 1
      BY <2>3, <3>4
    <3>5. ASSUME NEW q,
                 reader' = "offering", metrics' = [m EXCEPT !.last_seq = q],
                 undecodable' = undecodable, ignored' = ignored
          PROVE  metrics'.errors = metrics.errors /\ metrics'.dropped = metrics.dropped
      BY <2>3, <3>5
    <3> QED BY <3>1, <3>2, <3>3, <3>4, <3>5
  <2>5. metrics'.received = metrics.received + 1
    <3>1. \/ metrics' = [m EXCEPT !.errors = metrics.errors + 1]
          \/ metrics' = m
          \/ \E q \in {metrics.last_seq, pos + 1} :
                \/ metrics' = [m EXCEPT !.last_seq = q]
                \/ metrics' = [[m EXCEPT !.last_seq = q]
                                  EXCEPT !.dropped = metrics.dropped + 1]
      BY <1>2, ReceiveMoves
    <3> HIDE DEF m
    <3> QED BY <2>1, <2>2, <2>3, <3>1
  <2>6. /\ offered = 0 /\ failed' = failed /\ vanished' = vanished
        /\ Len(channel') = Len(channel) /\ Len(delivered') = Len(delivered)
        /\ reader' = "reading" => offered' = 0
        /\ reader' = "offering" => offered' = 1
    BY <1>2, ReceiveMoves
  <2>11. metrics.received = Len(delivered) + Len(channel) + metrics.dropped
                              + undecodable + ignored + vanished
    BY <1>0, <1>1, <2>6
  <2>12. /\ Len(delivered) \in Nat /\ Len(channel) \in Nat /\ metrics.dropped \in Nat
         /\ undecodable \in Nat /\ ignored \in Nat /\ vanished \in Nat
    BY <1>0
  <2> HIDE DEF offered, m
  <2>7. CASE /\ reader' = "reading" /\ metrics'.errors = metrics.errors + 1
             /\ metrics'.dropped = metrics.dropped
             /\ undecodable' = undecodable + 1 /\ ignored' = ignored
    <3>1. offered' = 0  BY <2>6, <2>7
    <3>2. metrics'.errors = undecodable' + failed'  BY <1>0, <1>1, <2>6, <2>7
    <3>3. Sum' = Len(delivered) + Len(channel) + 0 + metrics.dropped
                + (undecodable + 1) + ignored + vanished
      BY <2>6, <2>7, <3>1
    <3>4. Len(delivered) + Len(channel) + 0 + metrics.dropped
                + (undecodable + 1) + ignored + vanished
          = metrics.received + 1
      BY <2>11, <2>12, OneMore
    <3> QED BY <2>5, <3>2, <3>3, <3>4
  <2>8. CASE /\ reader' = "reading" /\ metrics'.errors = metrics.errors
             /\ metrics'.dropped = metrics.dropped
             /\ undecodable' = undecodable /\ ignored' = ignored + 1
    <3>1. offered' = 0  BY <2>6, <2>8
    <3>2. metrics'.errors = undecodable' + failed'  BY <1>0, <1>1, <2>6, <2>8
    <3>3. Sum' = Len(delivered) + Len(channel) + 0 + metrics.dropped
                + undecodable + (ignored + 1) + vanished
      BY <2>6, <2>8, <3>1
    <3>4. Len(delivered) + Len(channel) + 0 + metrics.dropped
                + undecodable + (ignored + 1) + vanished
          = metrics.received + 1
      BY <2>11, <2>12, OneMore
    <3> QED BY <2>5, <3>2, <3>3, <3>4
  <2>9. CASE /\ reader' = "reading" /\ metrics'.errors = metrics.errors
             /\ metrics'.dropped = metrics.dropped + 1
             /\ undecodable' = undecodable /\ ignored' = ignored
    <3>1. offered' = 0  BY <2>6, <2>9
    <3>2. metrics'.errors = undecodable' + failed'  BY <1>0, <1>1, <2>6, <2>9
    <3>3. Sum' = Len(delivered) + Len(channel) + 0 + (metrics.dropped + 1)
                + undecodable + ignored + vanished
      BY <2>6, <2>9, <3>1
    <3>4. Len(delivered) + Len(channel) + 0 + (metrics.dropped + 1)
                + undecodable + ignored + vanished
          = metrics.received + 1
      BY <2>11, <2>12, OneMore
    <3> QED BY <2>5, <3>2, <3>3, <3>4
  <2>10. CASE /\ reader' = "offering" /\ metrics'.errors = metrics.errors
             /\ metrics'.dropped = metrics.dropped
             /\ undecodable' = undecodable /\ ignored' = ignored
    <3>1. offered' = 1  BY <2>6, <2>10
    <3>2. metrics'.errors = undecodable' + failed'  BY <1>0, <1>1, <2>6, <2>10
    <3>3. Sum' = Len(delivered) + Len(channel) + 1 + metrics.dropped
                + undecodable + ignored + vanished
      BY <2>6, <2>10, <3>1
    <3>4. Len(delivered) + Len(channel) + 1 + metrics.dropped
                + undecodable + ignored + vanished
          = metrics.received + 1
      BY <2>11, <2>12, OneMore
    <3> QED BY <2>5, <3>2, <3>3, <3>4
  <2> QED BY <2>4, <2>7, <2>8, <2>9, <2>10
<1>3. CASE Offer
  <2>1. CASE channel' = Append(channel, <<connection, pos>>) /\ UNCHANGED metrics
    <3>1. Len(channel') = Len(channel) + 1
      BY <1>0, <1>3, <2>1, OfferMoves, AppendFacts
    <3> QED BY <1>0, <1>1, <1>3, <2>1, <3>1 DEF Offer
  <2>2. CASE /\ metrics' = [metrics EXCEPT !.dropped = metrics.dropped + 1]
             /\ UNCHANGED channel
    <3>1. /\ metrics'.dropped = metrics.dropped + 1
          /\ metrics'.received = metrics.received /\ metrics'.errors = metrics.errors
      BY <1>0, <2>2 DEF Metrics
    <3> QED BY <1>0, <1>1, <1>3, <2>2, <3>1 DEF Offer
  <2> QED BY <1>3, <2>1, <2>2 DEF Offer
<1>4. CASE Recv
  <2>1. /\ Len(channel') = Len(channel) - 1 /\ Len(delivered') = Len(delivered) + 1
        /\ Len(channel) \in Nat \ {0}
    <3>1. /\ channel # <<>> /\ channel' = Tail(channel)
          /\ delivered' = Append(delivered, Head(channel))
      BY <1>4 DEF Recv
    <3> QED BY <1>0, <3>1, HeadTailFacts, AppendFacts
  <2> QED BY <1>0, <1>1, <1>4, <2>1 DEF Recv
<1>5. CASE HandlerReturns
  <2>1. \/ metrics' = metrics /\ failed' = failed
        \/ /\ metrics' = [metrics EXCEPT !.errors = metrics.errors + 1]
           /\ failed' = failed + 1
    BY <1>5 DEF HandlerReturns
  <2>2. /\ metrics'.dropped = metrics.dropped /\ metrics'.received = metrics.received
        /\ \/ metrics'.errors = metrics.errors /\ failed' = failed
           \/ metrics'.errors = metrics.errors + 1 /\ failed' = failed + 1
    BY <1>0, <2>1 DEF Metrics
  <2>3. /\ offered' = offered /\ undecodable' = undecodable /\ ignored' = ignored
        /\ vanished' = vanished /\ Len(channel') = Len(channel)
        /\ Len(delivered') = Len(delivered) /\ offered \in Nat
    BY <1>5 DEF HandlerReturns
  <2> HIDE DEF offered
  <2>4. metrics'.errors = undecodable' + failed'
    <3>1. CASE metrics'.errors = metrics.errors /\ failed' = failed
      BY <1>1, <2>3, <3>1
    <3>2. CASE metrics'.errors = metrics.errors + 1 /\ failed' = failed + 1
      <4>1. undecodable \in Nat /\ failed \in Nat  BY <1>0
      <4>2. (undecodable + failed) + 1 = undecodable + (failed + 1)  BY <4>1
      <4> QED BY <1>1, <2>3, <3>2, <4>2
    <3> QED BY <2>2, <3>1, <3>2
  <2>5. metrics'.received = Sum'  BY <1>0, <1>1, <2>2, <2>3
  <2> QED BY <2>4, <2>5
<1>6. CASE HandlerPanics
  <2>1. Len(channel') = 0  BY <1>6 DEF HandlerPanics
  <2>2. /\ offered' = offered /\ undecodable' = undecodable /\ ignored' = ignored
        /\ vanished' = vanished + Len(channel) /\ failed' = failed
        /\ Len(delivered') = Len(delivered) /\ offered \in Nat /\ metrics' = metrics
    BY <1>6 DEF HandlerPanics
  <2>3. /\ Len(delivered) \in Nat /\ Len(channel) \in Nat /\ metrics.dropped \in Nat
        /\ undecodable \in Nat /\ ignored \in Nat /\ vanished \in Nat
    BY <1>0
  <2> HIDE DEF offered
  <2>4. Sum' = Len(delivered) + 0 + offered + metrics.dropped + undecodable + ignored
               + (vanished + Len(channel))
    BY <2>1, <2>2
  <2>5. offered \in Nat  BY <2>2
  <2>6. Len(delivered) + 0 + offered + metrics.dropped + undecodable + ignored
            + (vanished + Len(channel))
        = Len(delivered) + Len(channel) + offered + metrics.dropped
            + undecodable + ignored + vanished
    BY <2>3, <2>5, QueueVanishes
  <2>7. Sum' = Sum  BY <2>4, <2>6
  <2> QED BY <1>1, <2>2, <2>7
<1>7. CASE ConnectOk
  <2>1. /\ metrics'.dropped = metrics.dropped /\ metrics'.received = metrics.received
        /\ metrics'.errors = metrics.errors
    BY <1>0, <1>7 DEF ConnectOk, Metrics
  <2> QED BY <1>0, <1>1, <1>7, <2>1 DEF ConnectOk
<1>8. CASE ConnectFails \/ Disconnect
  <2>1. PICK e \in BOOLEAN : BackOff(e)  BY <1>8 DEF ConnectFails, Disconnect
  <2>2. /\ metrics'.dropped = metrics.dropped /\ metrics'.received = metrics.received
        /\ metrics'.errors = metrics.errors /\ reader' = "backing_off"
    BY <1>0, <2>1 DEF BackOff, Metrics
  <2> QED BY <1>0, <1>1, <1>8, <2>2 DEF ConnectFails, Disconnect
<1>9. CASE Publish \/ BackoffElapsed \/ Abort \/ ChannelClosed
  BY <1>0, <1>1, <1>9 DEF Publish, BackoffElapsed, Abort, ChannelClosed
<1>10. CASE UNCHANGED vars
  BY <1>0, <1>1, <1>10 DEF vars
<1> QED
  BY <1>2, <1>3, <1>4, <1>5, <1>6, <1>7, <1>8, <1>9, <1>10
  DEF Next, ReaderStep, DispatcherStep

-----------------------------------------------------------------------------
(* Theorems *)

IInv == TypeOK /\ Control /\ Order /\ FramesAddUp

LEMMA Initially == Init => IInv
<1> SUFFICES ASSUME Init PROVE IInv
  OBVIOUS
<1>1. TypeOK
  <2>1. metrics \in Metrics(Delays)  BY DEF Init, Metrics, Delays
  <2>2. channel \in Seq(Items) /\ Len(channel) = 0 /\ delivered \in Seq(Items)
    BY DEF Init
  <2> QED BY <2>1, <2>2, Constants DEF Init, TypeOK, ReaderStates, DispatcherStates
<1>2. Control  BY DEF Init, Control
<1>3. Len(channel) = 0 /\ Len(delivered) = 0  BY DEF Init
<1>4. \A item \in Items : ~Queued(item) /\ ~Delivered(item)
  BY <1>3 DEF Queued, Delivered
<1>5. Order  BY <1>3, <1>4 DEF Init, Order
<1>6. FramesAddUp  BY <1>3 DEF Init, FramesAddUp
<1> QED BY <1>1, <1>2, <1>5, <1>6 DEF IInv

LEMMA Invariance == Spec => []IInv
<1>1. Init => IInv  BY Initially
<1>2. IInv /\ [Next]_vars => IInv'
  BY TypeStep, ControlStep, OrderStep, CountsStep DEF IInv
<1> QED BY <1>1, <1>2, PTL DEF Spec

\* The variables keep their types, and the channel never holds more than its
\* capacity: the reader is the only one that fills it, so that the room it saw
\* is still there when it sends.
THEOREM FirehoseTypeCorrect == Spec => []TypeOK
<1>1. IInv => TypeOK  BY DEF IInv
<1> QED BY <1>1, Invariance, PTL

\* The counters account for every frame, whatever is dropped, fails or panics.
THEOREM FramesAreAccounted == Spec => []FramesAddUp
<1>1. IInv => FramesAddUp  BY DEF IInv
<1> QED BY <1>1, Invariance, PTL

\* A step of the consumer is a step of the ordered feed, or none of its business.
LEMMA FeedStep ==
    ASSUME IInv, IInv', [Next]_vars
    PROVE  [Handler!FeedNext]_<<emitted, connection, delivered>>
<1>0. TypeOK /\ Control /\ Order  BY DEF IInv
<1>1. CASE Publish
  BY <1>1 DEF Publish, historyVars, Handler!FeedNext, Handler!Publish
<1>2. CASE ConnectOk
  BY <1>2 DEF ConnectOk, Handler!FeedNext, Handler!Connect
<1>3. CASE Recv
  <2>1. /\ channel \in Seq(Items) /\ channel # <<>>
        /\ delivered' = Append(delivered, Head(channel))
        /\ UNCHANGED <<emitted, connection>>
    BY <1>0, <1>3 DEF Recv, TypeOK
  <2>2. /\ Len(channel) \in Nat \ {0} /\ Head(channel) = channel[1]
        /\ Head(channel) \in Items
    BY <2>1, HeadTailFacts
  <2>3. 1 \in 1..Len(channel)  BY <2>2
  <2>4. Queued(Head(channel))  BY <2>2, <2>3 DEF Queued
  <2>5. Behind(Head(channel))  BY <1>0, <2>2, <2>4 DEF Order
  <2>6. delivered # <<>> => Precedes(delivered[Len(delivered)], Head(channel))
    BY <1>0, <2>2, <2>3 DEF Order
  <2>7. PICK item \in Items : item = Head(channel)  BY <2>2
  <2>8. /\ item[1] \in 1..connection /\ item[2] \in 1..emitted
        /\ item \in (1..connection) \X (1..emitted)
    BY <2>5, <2>7 DEF Behind, Items
  <2>9. Handler!Deliver(item)
    BY <2>1, <2>6, <2>7, <2>8 DEF Handler!Deliver, Handler!Precedes, Precedes
  <2> QED BY <2>8, <2>9 DEF Handler!FeedNext
<1>4. CASE UNCHANGED <<emitted, connection, delivered>>
  BY <1>4
<1> QED
  BY <1>1, <1>2, <1>3, <1>4
  DEF Next, ReaderStep, DispatcherStep, ConnectFails, Disconnect, BackoffElapsed,
      Receive, Offer, Abort, HandlerReturns, HandlerPanics, ChannelClosed,
      historyVars, vars

\* The handler gets an ordered feed: what it is given was published, and comes
\* in order, once per connection, and never from a connection that has passed.
THEOREM HandlerGetsOrderedFeed == Spec => HandlerSpec
<1>1. Init => Handler!FeedInit
  BY DEF Init, Handler!FeedInit
<1>2. IInv /\ IInv' /\ [Next]_vars => [Handler!FeedNext]_<<emitted, connection, delivered>>
  BY FeedStep
<1> QED BY <1>1, <1>2, Invariance, PTL DEF Spec, HandlerSpec, Handler!FeedSpec
=============================================================================
