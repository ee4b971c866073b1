---------------------- MODULE JetstreamConsumer_proofs ----------------------
(***************************************************************************)
(* Proofs about JetstreamConsumer, for every value of its constants.       *)
(***************************************************************************)
EXTENDS JetstreamConsumer, SequenceTheorems, TLAPS

-----------------------------------------------------------------------------
(* Constants and sequences *)

LEMMA Constants ==
    /\ MaxEvents \in Nat
    /\ Capacity \in Nat \ {0}
    /\ Interval \in Nat \ {0}
    /\ MaxAttempts \in Nat
    /\ MaxCrashes \in Nat
    /\ BackoffBase \in Nat
  BY ConstantsAssumption

\* Taking the head of the channel.
LEMMA HeadTailFacts ==
    ASSUME NEW S, NEW s \in Seq(S), s # <<>>
    PROVE  /\ Len(s) \in Nat \ {0}
           /\ Head(s) = s[1] /\ Head(s) \in S
           /\ Tail(s) \in Seq(S)
           /\ Len(Tail(s)) = Len(s) - 1
           /\ \A i \in 1..Len(Tail(s)) : Tail(s)[i] = s[i + 1]
  BY HeadTailProperties, EmptySeq

\* Appending to the channel.
LEMMA AppendFacts ==
    ASSUME NEW S, NEW s \in Seq(S), NEW e \in S
    PROVE  /\ Append(s, e) \in Seq(S)
           /\ Len(Append(s, e)) = Len(s) + 1
           /\ \A i \in 1..Len(s) : Append(s, e)[i] = s[i]
           /\ Append(s, e)[Len(s) + 1] = e
  OBVIOUS

-----------------------------------------------------------------------------
(* Types *)

LEMMA NextDelayType ==
    ASSUME NEW d \in Nat
    PROVE  NextDelay(d) \in Nat
  BY ConstantsAssumption DEF NextDelay

LEMMA InitialCursorType == TypeOK => InitialCursor \in Nat
<1> SUFFICES ASSUME TypeOK PROVE InitialCursor \in Nat
  OBVIOUS
<1>1. CASE CursorMode = "auto"
  BY <1>1 DEF InitialCursor, TypeOK
<1>2. CASE CursorMode = "numeric"
  BY <1>2, ConstantsAssumption DEF InitialCursor
<1>3. CASE CursorMode \notin {"auto", "numeric"}
  BY <1>3 DEF InitialCursor
<1> QED
  BY <1>1, <1>2, <1>3

\* What an update of the counters leaves in its type.
LEMMA MetricsType ==
    ASSUME NEW m \in Metrics, NEW d \in Nat
    PROVE  /\ [m EXCEPT !.backoff = d] \in Metrics
           /\ [m EXCEPT !.dropped = @ + 1] \in Metrics
           /\ [m EXCEPT !.errors = @ + d] \in Metrics
           /\ [m EXCEPT !.received = @ + 1] \in Metrics
           /\ [m EXCEPT !.reconnects = @ + 1] \in Metrics
<1>1. [m EXCEPT !.backoff = d] \in Metrics
  BY DEF Metrics
<1>2. [m EXCEPT !.dropped = @ + 1] \in Metrics
  BY DEF Metrics
<1>3. [m EXCEPT !.errors = @ + d] \in Metrics
  BY DEF Metrics
<1>4. [m EXCEPT !.received = @ + 1] \in Metrics
  BY DEF Metrics
<1>5. [m EXCEPT !.reconnects = @ + 1] \in Metrics
  BY DEF Metrics
<1> QED
  BY <1>1, <1>2, <1>3, <1>4, <1>5

LEMMA BackOffType ==
    ASSUME metrics \in Metrics, backoff \in Nat,
           NEW failed \in BOOLEAN, BackOff(failed)
    PROVE  metrics' \in Metrics /\ backoff' \in Nat
<1>1. backoff' \in Nat
  BY NextDelayType DEF BackOff
<1> DEFINE counted == IF failed THEN [metrics EXCEPT !.reconnects = @ + 1]
                                ELSE metrics
<1>2. counted \in Metrics
  BY MetricsType
<1>3. metrics' = [counted EXCEPT !.backoff = backoff]
  BY DEF BackOff
<1> HIDE DEF counted
<1> QED
  BY <1>1, <1>2, <1>3, MetricsType

\* The loss of the event at pos keeps the types.
LEMMA DropType ==
    ASSUME metrics \in Metrics, shed \subseteq Events, pos \in Events, Drop
    PROVE  metrics' \in Metrics /\ shed' \subseteq Events
<1>1. metrics' \in Metrics
  BY MetricsType DEF Drop
<1> QED
  BY <1>1 DEF Drop

-----------------------------------------------------------------------------
(* Types and control *)

\* What the states of the two tasks say about the variables they use.
Control ==
    /\ reader = "down" <=> dispatcher = "down"
    /\ reader = "down" => pos = 0 /\ last = 0
    /\ reader \in {"sending", "shedding"} => pos # 0
    /\ dispatcher = "handling" <=> inHand # 0
    /\ dispatcher \in {"saving", "final_save"} => last # 0
    /\ dispatcher \in {"down", "exited", "dead", "final_save"} => channel = <<>>
    /\ dispatcher \in {"exited", "final_save"} => reader = "aborted"

LEMMA TypeStep == TypeOK /\ Control /\ [Next]_vars => TypeOK'
<1> SUFFICES ASSUME TypeOK, Control, [Next]_vars PROVE TypeOK'
  OBVIOUS
<1> USE DEF relayVars, readerVars, dispatcherVars, historyVars, boundVars
<1>1. CASE Spawn
  BY <1>1, InitialCursorType
     DEF Spawn, TypeOK, ReaderStates, DispatcherStates
<1>2. CASE Crash
  BY <1>2, Constants
     DEF Crash, TypeOK, ReaderStates, DispatcherStates, NoMetrics, Metrics
<1>3. CASE Emit
  BY <1>3, Constants DEF Emit, TypeOK
<1>4. CASE ConnectOk
  <2>1. metrics' \in Metrics
    BY <1>4, MetricsType DEF ConnectOk, TypeOK
  <2>2. StartPos \in 0..emitted
    BY DEF TypeOK, StartPos
  <2>3. skipped' \subseteq Events
    <3> SUFFICES ASSUME NEW e \in skipped' PROVE e \in Events
      OBVIOUS
    <3>1. e \in skipped \/ e \in (pos + 1)..StartPos
      BY <1>4 DEF ConnectOk
    <3> QED
      <4>1. CASE e \in skipped
        BY <4>1 DEF TypeOK
      <4>2. CASE e \in (pos + 1)..StartPos
        <5>1. pos \in Nat /\ StartPos \in Nat /\ StartPos <= MaxEvents
          BY <2>2, Constants DEF TypeOK
        <5> QED
          BY <4>2, <5>1, Constants DEF Events
      <4> QED
        BY <3>1, <4>1, <4>2
  <2>4. attempts' \in 0..MaxAttempts
    <3>1. attempts' = attempts + 1 /\ attempts < MaxAttempts
      BY <1>4 DEF ConnectOk
    <3>2. attempts \in 0..MaxAttempts
      BY DEF TypeOK
    <3> QED
      BY <3>1, <3>2, Constants
  <2> QED
    BY <1>4, <2>1, <2>2, <2>3, <2>4
       DEF ConnectOk, TypeOK, ReaderStates
<1>5. CASE ConnectFail
  <2>1. metrics' \in Metrics /\ backoff' \in Nat
    BY <1>5, BackOffType DEF ConnectFail, TypeOK
  <2>2. attempts' \in 0..MaxAttempts
    <3>1. attempts' = attempts + 1 /\ attempts < MaxAttempts
      BY <1>5 DEF ConnectFail
    <3>2. attempts \in 0..MaxAttempts
      BY DEF TypeOK
    <3> QED
      BY <3>1, <3>2, Constants
  <2>3. reader' \in ReaderStates
    BY <1>5 DEF ConnectFail, BackOff, ReaderStates
  <2> QED
    BY <1>5, <2>1, <2>2, <2>3
       DEF ConnectFail, TypeOK
<1>6. CASE Disconnect
  <2>1. metrics' \in Metrics /\ backoff' \in Nat
    BY <1>6, BackOffType DEF Disconnect, TypeOK
  <2>2. reader' \in ReaderStates
    BY <1>6 DEF Disconnect, BackOff, ReaderStates
  <2> QED
    BY <1>6, <2>1, <2>2
       DEF Disconnect, TypeOK
<1>7. CASE Receive
  <2>1. metrics' \in Metrics
    <3>1. [metrics EXCEPT !.received = @ + 1] \in Metrics
      BY MetricsType DEF TypeOK
    <3>2. [[metrics EXCEPT !.received = @ + 1] EXCEPT !.errors = @ + 1] \in Metrics
      BY <3>1, MetricsType
    <3> QED
      BY <1>7, <3>1, <3>2 DEF Receive
  <2>2. pos' \in Events /\ pos' \in 0..emitted'
    <3>1. pos < emitted /\ pos' = pos + 1 /\ emitted' = emitted
      BY <1>7 DEF Receive
    <3>2. pos \in 0..emitted /\ emitted \in 0..MaxEvents
      BY DEF TypeOK
    <3> QED
      BY <3>1, <3>2, Constants DEF Events
  <2>3. reader' \in ReaderStates /\ shed' \subseteq Events
    BY <1>7, <2>2 DEF Receive, TypeOK, ReaderStates
  <2> QED
    BY <1>7, <2>1, <2>2, <2>3
       DEF Receive, TypeOK
<1>8. CASE Abort
  BY <1>8 DEF Abort, TypeOK, ReaderStates
<1>9. CASE Shed
  <2>1. metrics' \in Metrics /\ shed' \subseteq Events
    <3>1. pos \in Events
      BY <1>9, Constants DEF Shed, TypeOK, Control, Events
    <3> QED
      BY <1>9, <3>1, DropType DEF Shed, TypeOK
  <2> QED
    BY <1>9, <2>1 DEF Shed, TypeOK, ReaderStates
<1>10. CASE Send
  <2>0. pos \in Events
    BY <1>10, Constants DEF Send, TypeOK, Control, Events
  <2>1. CASE TrySendFails
    <3>1. metrics' \in Metrics /\ shed' \subseteq Events
      BY <1>10, <2>0, <2>1, DropType DEF Send, TypeOK
    <3> QED
      BY <1>10, <2>1, <3>1
         DEF Send, TypeOK, ReaderStates
  <2>2. CASE ~TrySendFails
    <3>1. channel' = Append(channel, pos) /\ Len(channel) < Capacity
      <4>1. Len(channel) \in Nat
        BY LenProperties DEF TypeOK
      <4> QED
        BY <1>10, <2>2, <4>1, Constants DEF Send, TrySendFails
    <3>2. channel' \in Seq(Events) /\ Len(channel') <= Capacity
      BY <2>0, <3>1, AppendFacts, Constants DEF TypeOK
    <3> QED
      BY <1>10, <2>2, <3>2 DEF Send, TypeOK, ReaderStates
  <2> QED
    BY <2>1, <2>2
<1>11. CASE BackoffElapsed
  BY <1>11 DEF BackoffElapsed, TypeOK, ReaderStates
<1>12. CASE Recv
  <2>1. Head(channel) \in Events /\ Tail(channel) \in Seq(Events)
    BY <1>12, HeadTailFacts DEF Recv, TypeOK
  <2>2. Len(Tail(channel)) <= Capacity
    BY <1>12, HeadTailFacts, Constants DEF Recv, TypeOK
  <2> QED
    BY <1>12, <2>1, <2>2 DEF Recv, TypeOK, DispatcherStates, Events
<1>13. CASE HandlerReturns
  <2>1. metrics' \in Metrics
    <3>1. PICK failed \in {0, 1} : metrics' = [metrics EXCEPT !.errors = @ + failed]
      BY <1>13 DEF HandlerReturns
    <3> QED
      BY <3>1, MetricsType DEF TypeOK
  <2>2. last' \in 0..MaxEvents /\ eventCount' \in Nat
    BY <1>13 DEF HandlerReturns, LastAfter, TypeOK
  <2>3. dispatcher' \in DispatcherStates
    BY <1>13 DEF HandlerReturns, DispatcherStates
  <2>4. handled' \subseteq Events
    <3>1. handled' = handled \cup {inHand} /\ inHand # 0
      BY <1>13 DEF HandlerReturns, Control
    <3>2. handled \subseteq Events /\ inHand \in 0..MaxEvents
      BY DEF TypeOK
    <3>3. inHand \in Events
      BY <3>1, <3>2, Constants DEF Events
    <3> QED
      BY <3>1, <3>2, <3>3
  <2> QED
    <3>1. inHand' = 0 /\ UNCHANGED <<emitted, savedCursor, reader, urlCursor,
            pos, backoff, channel, shed, skipped, attempts, crashes>>
      BY <1>13 DEF HandlerReturns
    <3> QED
      BY <2>1, <2>2, <2>3, <2>4, <3>1, Constants DEF TypeOK
<1>14. CASE HandlerPanics
  BY <1>14, Constants DEF HandlerPanics, TypeOK, DispatcherStates
<1>15. CASE ChannelClosed
  BY <1>15 DEF ChannelClosed, TypeOK, DispatcherStates
<1>16. CASE SaveCursor
  BY <1>16 DEF SaveCursor, AfterSave, TypeOK, DispatcherStates
<1>17. CASE SaveCursorFails
  BY <1>17 DEF SaveCursorFails, AfterSave, TypeOK, DispatcherStates
<1>18. CASE UNCHANGED vars
  BY <1>18 DEF vars, TypeOK
<1> QED
  BY <1>1, <1>2, <1>3, <1>4, <1>5, <1>6, <1>7, <1>8, <1>9, <1>10, <1>11,
     <1>12, <1>13, <1>14, <1>15, <1>16, <1>17, <1>18
     DEF Next, ReaderStep, DispatcherStep

LEMMA ControlStep == TypeOK /\ Control /\ [Next]_vars => Control'
<1> SUFFICES ASSUME TypeOK, Control, [Next]_vars PROVE Control'
  OBVIOUS
<1> USE DEF relayVars, readerVars, dispatcherVars, historyVars, boundVars
<1>1. CASE Spawn
  BY <1>1 DEF Spawn, Control, TypeOK
<1>2. CASE Crash
  BY <1>2 DEF Crash, Control, TypeOK
<1>3. CASE Emit
  BY <1>3 DEF Emit, Control, TypeOK
<1>4. CASE ConnectOk
  BY <1>4 DEF ConnectOk, Control, TypeOK
<1>5. CASE ConnectFail
  BY <1>5 DEF ConnectFail, Control, TypeOK, BackOff
<1>6. CASE Disconnect
  BY <1>6 DEF Disconnect, Control, TypeOK, BackOff
<1>7. CASE Receive
  BY <1>7 DEF Receive, Control, TypeOK
<1>8. CASE Abort
  BY <1>8 DEF Abort, Control, TypeOK
<1>9. CASE Shed
  BY <1>9 DEF Shed, Control, TypeOK, Drop
<1>10. CASE Send
  BY <1>10 DEF Send, Control, TypeOK, Drop, TrySendFails, DispatcherAlive
<1>11. CASE BackoffElapsed
  BY <1>11 DEF BackoffElapsed, Control, TypeOK
<1>12. CASE Recv
  <2>1. inHand' # 0
    BY <1>12, HeadTailFacts, Constants DEF Recv, TypeOK, Events
  <2> QED
    BY <1>12, <2>1 DEF Recv, Control
<1>13. CASE HandlerReturns
  BY <1>13 DEF HandlerReturns, Control, TypeOK
<1>14. CASE HandlerPanics
  BY <1>14 DEF HandlerPanics, Control, TypeOK
<1>15. CASE ChannelClosed
  BY <1>15 DEF ChannelClosed, Control, TypeOK
<1>16. CASE SaveCursor
  BY <1>16 DEF SaveCursor, Control, TypeOK, AfterSave
<1>17. CASE SaveCursorFails
  BY <1>17 DEF SaveCursorFails, Control, TypeOK, AfterSave
<1>18. CASE UNCHANGED vars
  BY <1>18 DEF vars, Control
<1> QED
  BY <1>1, <1>2, <1>3, <1>4, <1>5, <1>6, <1>7, <1>8, <1>9, <1>10, <1>11, <1>12, <1>13, <1>14, <1>15, <1>16, <1>17, <1>18
     DEF Next, ReaderStep, DispatcherStep

LEMMA TypeAndControl == Spec => [](TypeOK /\ Control)
<1>1. Init => TypeOK /\ Control
  BY Constants DEF Init, TypeOK, Control, ReaderStates, DispatcherStates,
     NoMetrics, Metrics
<1> QED
  BY <1>1, TypeStep, ControlStep, PTL DEF Spec

\* Type correctness: no operation, crash or restart takes a variable out of
\* its type or the channel over its capacity.
THEOREM TypeCorrect == Spec => []TypeOK
  BY TypeAndControl, PTL

-----------------------------------------------------------------------------
(* The cursor covers only events whose fate is known *)

\* What makes CheckpointCovered inductive: whatever is below an event of the
\* pipeline is accounted for or ahead of it in the pipeline, up to the reader's
\* position.  A dispatcher that is gone moves no cursor, so nothing is claimed
\* of its pipeline.
PipelineCovered ==
    /\ \A e \in 1..last : e \in Accounted
    /\ \A e \in 1..inHand : e \in Accounted \/ e = inHand
    /\ \A i \in 1..Len(channel) : \A e \in 1..channel[i] :
          \/ e \in Accounted \/ e = inHand
          \/ \E j \in 1..i : channel[j] = e
    /\ \A e \in 1..pos :
          \/ e \in Accounted \/ e = inHand
          \/ \E j \in 1..Len(channel) : channel[j] = e
          \/ e = pos /\ reader \in {"sending", "shedding"}

Coverage ==
    /\ CheckpointCovered
    /\ DispatcherAlive => PipelineCovered

\* What is accounted for stays accounted for.
LEMMA AccountedGrows ==
    TypeOK /\ [Next]_vars => Accounted \subseteq Accounted'
<1> SUFFICES ASSUME TypeOK, [Next]_vars
             PROVE  /\ handled \subseteq handled' /\ shed \subseteq shed'
                    /\ skipped \subseteq skipped'
  BY DEF Accounted
<1> USE DEF historyVars
<1>1. CASE Spawn \/ Crash \/ Emit
  BY <1>1 DEF Spawn, Crash, Emit
<1>2. CASE ConnectOk \/ ConnectFail \/ Disconnect
  BY <1>2 DEF ConnectOk, ConnectFail, Disconnect
<1>3. CASE Receive \/ Abort
  BY <1>3 DEF Receive, Abort
<1>4. CASE ReaderStep
  BY <1>4 DEF ReaderStep, Shed, Send, Drop, BackoffElapsed
<1>5. CASE DispatcherStep
  BY <1>5 DEF DispatcherStep, Recv, HandlerReturns, HandlerPanics,
              ChannelClosed, SaveCursor, SaveCursorFails
<1>6. CASE UNCHANGED vars
  BY <1>6 DEF vars
<1> QED
  BY <1>1, <1>2, <1>3, <1>4, <1>5, <1>6 DEF Next

\* A step that moves none of what coverage is about preserves it.
LEMMA CoverageFrame ==
    ASSUME Coverage, Accounted \subseteq Accounted',
           savedCursor' = savedCursor,
           DispatcherAlive' => /\ DispatcherAlive
                               /\ UNCHANGED <<last, inHand, channel, pos>>
                               /\ reader' \in {"sending", "shedding"}
                                    <=> reader \in {"sending", "shedding"}
    PROVE  Coverage'
<1>1. CheckpointCovered'
  BY DEF Coverage, CheckpointCovered
<1>2. ASSUME DispatcherAlive' PROVE PipelineCovered'
  BY <1>2 DEF Coverage, PipelineCovered
<1> QED
  BY <1>1, <1>2 DEF Coverage

LEMMA CoverageStep ==
    TypeOK /\ Control /\ Coverage /\ [Next]_vars => Coverage'
<1> SUFFICES ASSUME TypeOK, Control, Coverage, [Next]_vars PROVE Coverage'
  OBVIOUS
<1>a. Accounted \subseteq Accounted'
  BY AccountedGrows
<1> USE DEF relayVars, readerVars, dispatcherVars, historyVars, boundVars
<1>1. CASE Spawn
  <2>1. /\ channel' = <<>> /\ inHand' = 0 /\ last' = 0 /\ pos' = 0
        /\ savedCursor' = savedCursor
    BY <1>1 DEF Spawn, Control
  <2>2. CheckpointCovered'
    BY <1>a, <2>1 DEF Coverage, CheckpointCovered
  <2>3. PipelineCovered'
    BY <2>1 DEF PipelineCovered
  <2> QED
    BY <2>2, <2>3 DEF Coverage
<1>2. CASE Crash
  BY <1>2, <1>a, CoverageFrame DEF Crash, DispatcherAlive
<1>3. CASE Emit
  BY <1>3, <1>a, CoverageFrame DEF Emit, DispatcherAlive
<1>4. CASE ConnectOk
  <2>1. /\ UNCHANGED <<savedCursor, last, inHand, channel, dispatcher>>
        /\ pos' = StartPos /\ reader = "connecting"
        /\ skipped' = skipped \cup (((pos + 1)..StartPos) \ (handled \cup shed))
        /\ UNCHANGED <<handled, shed>>
    BY <1>4 DEF ConnectOk
  <2>2. CheckpointCovered'
    BY <1>a, <2>1 DEF Coverage, CheckpointCovered
  <2>3. ASSUME DispatcherAlive' PROVE PipelineCovered'
    <3>1. PipelineCovered
      BY <2>1, <2>3 DEF Coverage, DispatcherAlive
    <3>2. ASSUME NEW e \in 1..pos'
          PROVE  \/ e \in Accounted' \/ e = inHand'
                 \/ \E j \in 1..Len(channel') : channel'[j] = e
      <4>1. pos \in Nat /\ StartPos \in Nat
        BY Constants DEF TypeOK, StartPos
      <4>2. CASE e \in 1..pos
        BY <1>a, <2>1, <3>1, <4>2 DEF PipelineCovered
      <4>3. CASE e \in (pos + 1)..StartPos
        BY <2>1, <4>3 DEF Accounted
      <4> QED
        BY <2>1, <3>2, <4>1, <4>2, <4>3
    <3> QED
      BY <1>a, <2>1, <3>1, <3>2 DEF PipelineCovered
  <2> QED
    BY <2>2, <2>3 DEF Coverage
<1>5. CASE ConnectFail
  BY <1>5, <1>a, CoverageFrame DEF ConnectFail, BackOff, DispatcherAlive
<1>6. CASE Disconnect
  BY <1>6, <1>a, CoverageFrame DEF Disconnect, BackOff, DispatcherAlive
<1>7. CASE Receive
  <2>1. /\ UNCHANGED <<savedCursor, last, inHand, channel, dispatcher>>
        /\ pos' = pos + 1 /\ reader = "reading"
    BY <1>7 DEF Receive
  <2>2. CheckpointCovered'
    BY <1>a, <2>1 DEF Coverage, CheckpointCovered
  <2>3. pos' \in Accounted' \/ reader' \in {"sending", "shedding"}
    BY <1>7 DEF Receive, Accounted
  <2>4. ASSUME DispatcherAlive' PROVE PipelineCovered'
    <3>1. PipelineCovered
      BY <2>1, <2>4 DEF Coverage, DispatcherAlive
    <3>2. ASSUME NEW e \in 1..pos', e # pos'
          PROVE  \/ e \in Accounted' \/ e = inHand'
                 \/ \E j \in 1..Len(channel') : channel'[j] = e
      <4>1. e \in 1..pos
        BY <2>1, <3>2, Constants DEF TypeOK
      <4> QED
        BY <1>a, <2>1, <3>1, <4>1 DEF PipelineCovered
    <3> QED
      BY <1>a, <2>1, <2>3, <3>1, <3>2 DEF PipelineCovered
  <2> QED
    BY <2>2, <2>4 DEF Coverage
<1>8. CASE Abort
  BY <1>8, <1>a, CoverageFrame DEF Abort, DispatcherAlive
<1>9. CASE Shed
  <2>1. /\ UNCHANGED <<savedCursor, last, inHand, channel, dispatcher, pos>>
        /\ pos \in Accounted'
    BY <1>9 DEF Shed, Drop, Accounted
  <2> QED
    BY <1>a, <2>1 DEF Coverage, CheckpointCovered, PipelineCovered, DispatcherAlive
<1>10. CASE Send
  <2>1. UNCHANGED <<savedCursor, last, inHand, dispatcher, pos>>
    BY <1>10 DEF Send
  <2>2. CASE TrySendFails
    <3>1. channel' = channel /\ pos \in Accounted'
      BY <1>10, <2>2 DEF Send, Drop, Accounted
    <3> QED
      BY <1>a, <2>1, <3>1
         DEF Coverage, CheckpointCovered, PipelineCovered, DispatcherAlive
  <2>3. CASE ~TrySendFails
    <3>1. channel' = Append(channel, pos) /\ DispatcherAlive
      BY <1>10, <2>3 DEF Send, TrySendFails
    <3>2. pos \in Events
      BY <1>10, Constants DEF Send, TypeOK, Control, Events
    <3>3. PipelineCovered
      BY <3>1 DEF Coverage
    <3>4. Len(channel) \in Nat
      BY LenProperties DEF TypeOK
    <3>5. /\ Len(channel') = Len(channel) + 1
          /\ \A i \in 1..Len(channel) : channel'[i] = channel[i]
          /\ channel'[Len(channel) + 1] = pos
      BY <3>1, <3>2, AppendFacts DEF TypeOK
    <3>6. ASSUME NEW e \in 1..pos
          PROVE  \/ e \in Accounted' \/ e = inHand'
                 \/ \E j \in 1..Len(channel') : channel'[j] = e
      BY <1>a, <2>1, <3>3, <3>4, <3>5, <3>6 DEF PipelineCovered
    <3>7. ASSUME NEW i \in 1..Len(channel'), NEW e \in 1..channel'[i]
          PROVE  \/ e \in Accounted' \/ e = inHand'
                 \/ \E j \in 1..i : channel'[j] = e
      <4>1. CASE i \in 1..Len(channel)
        BY <1>a, <2>1, <3>3, <3>4, <3>5, <3>7, <4>1 DEF PipelineCovered
      <4>2. CASE i = Len(channel) + 1
        BY <3>5, <3>6, <3>7, <4>2
      <4> QED
        BY <3>4, <3>5, <4>1, <4>2
    <3>8. PipelineCovered'
      BY <1>a, <2>1, <3>3, <3>6, <3>7 DEF PipelineCovered
    <3> QED
      BY <1>a, <2>1, <3>8 DEF Coverage, CheckpointCovered
  <2> QED
    BY <2>2, <2>3
<1>11. CASE BackoffElapsed
  BY <1>11, <1>a, CoverageFrame DEF BackoffElapsed, DispatcherAlive
<1>12. CASE Recv
  <2>1. /\ UNCHANGED <<savedCursor, last, pos, reader>>
        /\ dispatcher = "idle" /\ channel # <<>>
        /\ inHand' = Head(channel) /\ channel' = Tail(channel)
    BY <1>12 DEF Recv
  <2>2. inHand = 0 /\ PipelineCovered
    BY <2>1 DEF Control, Coverage, DispatcherAlive
  <2>3. /\ Len(channel) \in Nat \ {0} /\ inHand' = channel[1]
        /\ Len(channel') = Len(channel) - 1
        /\ \A i \in 1..Len(channel') : channel'[i] = channel[i + 1]
    BY <2>1, HeadTailFacts DEF TypeOK
  <2>4. ASSUME NEW e \in 1..inHand' PROVE e \in Accounted' \/ e = inHand'
    BY <1>a, <2>2, <2>3, <2>4 DEF PipelineCovered
  <2>5. ASSUME NEW i \in 1..Len(channel'), NEW e \in 1..channel'[i]
        PROVE  \/ e \in Accounted' \/ e = inHand'
               \/ \E j \in 1..i : channel'[j] = e
    <3>1. i + 1 \in 1..Len(channel) /\ e \in 1..channel[i + 1]
      BY <2>3, <2>5
    <3>2. e \in Accounted \/ \E j \in 1..(i + 1) : channel[j] = e
      BY <2>2, <2>5, <3>1 DEF PipelineCovered
    <3> QED
      <4>1. ASSUME NEW j \in 1..(i + 1), channel[j] = e, j # 1
            PROVE  j - 1 \in 1..i /\ channel'[j - 1] = e
        <5>1. j - 1 \in 1..i /\ j - 1 \in 1..Len(channel')
          BY <2>3, <2>5, <4>1
        <5> QED
          BY <2>3, <4>1, <5>1
      <4> QED
        BY <1>a, <2>3, <3>2, <4>1
  <2>6. ASSUME NEW e \in 1..pos'
        PROVE  \/ e \in Accounted' \/ e = inHand'
               \/ \E j \in 1..Len(channel') : channel'[j] = e
               \/ e = pos' /\ reader' \in {"sending", "shedding"}
    <3>1. \/ e \in Accounted
          \/ \E j \in 1..Len(channel) : channel[j] = e
          \/ e = pos' /\ reader' \in {"sending", "shedding"}
      BY <2>1, <2>2, <2>6 DEF PipelineCovered
    <3>2. ASSUME NEW j \in 1..Len(channel), channel[j] = e, j # 1
          PROVE  j - 1 \in 1..Len(channel') /\ channel'[j - 1] = e
      <4>1. j - 1 \in 1..Len(channel')
        BY <2>3, <3>2
      <4> QED
        BY <2>3, <3>2, <4>1
    <3> QED
      BY <1>a, <2>3, <3>1, <3>2
  <2>7. PipelineCovered'
    BY <1>a, <2>1, <2>2, <2>4, <2>5, <2>6 DEF PipelineCovered
  <2> QED
    BY <1>a, <2>1, <2>7 DEF Coverage, CheckpointCovered
<1>13. CASE HandlerReturns
  <2>1. /\ UNCHANGED <<savedCursor, channel, pos, reader>>
        /\ dispatcher = "handling" /\ inHand' = 0
        /\ inHand \in Accounted'
        /\ last' \in {last, inHand}
    BY <1>13 DEF HandlerReturns, LastAfter, Accounted
  <2>2. PipelineCovered
    BY <2>1 DEF Coverage, DispatcherAlive
  <2>3. \A e \in 1..last' : e \in Accounted'
    BY <1>a, <2>1, <2>2 DEF PipelineCovered
  <2>4. PipelineCovered'
    BY <1>a, <2>1, <2>2, <2>3 DEF PipelineCovered
  <2> QED
    BY <1>a, <2>1, <2>4 DEF Coverage, CheckpointCovered
<1>14. CASE HandlerPanics
  BY <1>14, <1>a, CoverageFrame DEF HandlerPanics, DispatcherAlive
<1>15. CASE ChannelClosed
  BY <1>15, <1>a, CoverageFrame DEF ChannelClosed, DispatcherAlive
<1>16. CASE SaveCursor
  <2>1. /\ UNCHANGED <<last, inHand, channel, pos, reader, handled, shed, skipped>>
        /\ savedCursor' = last /\ DispatcherAlive
    BY <1>16 DEF SaveCursor, DispatcherAlive
  <2>2. PipelineCovered
    BY <2>1 DEF Coverage
  <2>3. PipelineCovered' /\ CheckpointCovered'
    BY <1>a, <2>1, <2>2 DEF PipelineCovered, CheckpointCovered
  <2> QED
    BY <2>3 DEF Coverage
<1>17. CASE SaveCursorFails
  BY <1>17, <1>a, CoverageFrame DEF SaveCursorFails, DispatcherAlive
<1>18. CASE UNCHANGED vars
  BY <1>18, <1>a, CoverageFrame DEF vars, DispatcherAlive
<1> QED
  BY <1>1, <1>2, <1>3, <1>4, <1>5, <1>6, <1>7, <1>8, <1>9, <1>10, <1>11,
     <1>12, <1>13, <1>14, <1>15, <1>16, <1>17, <1>18
     DEF Next, ReaderStep, DispatcherStep

LEMMA CoverageInvariant == Spec => []Coverage
<1>1. Init => Coverage
  BY DEF Init, Coverage, CheckpointCovered, DispatcherAlive
<1> QED
  BY <1>1, CoverageStep, TypeAndControl, PTL DEF Spec

\* The stored cursor never covers an event that was lost on the way, for any
\* workload, capacity, save interval, cursor mode and number of failures.
THEOREM CursorIsHonest == Spec => []CheckpointCovered
  BY CoverageInvariant, PTL DEF Coverage

-----------------------------------------------------------------------------
(* The promise of ResumableFeed *)

\* In mode auto, everything in the pipeline is at or after the cursor this
\* process resumed from, and nothing is ahead of the feed.
Resumed ==
    /\ savedCursor <= emitted
    /\ urlCursor <= savedCursor
    /\ last # 0 => urlCursor <= last /\ last <= emitted
    /\ inHand # 0 => urlCursor <= inHand /\ inHand <= emitted
    /\ \A i \in 1..Len(channel) :
          urlCursor <= channel[i] /\ channel[i] <= emitted
    /\ reader = "reading" => urlCursor <= pos + 1
    /\ reader \in {"sending", "shedding"} => urlCursor <= pos

\* A step of the environment or of one task that leaves the cursors and the
\* pipeline alone.
LEMMA ResumedFrame ==
    ASSUME TypeOK, TypeOK', Resumed, emitted <= emitted',
           UNCHANGED <<savedCursor, urlCursor, last, inHand, channel>>,
           reader' \in {"reading", "sending", "shedding"}
              => UNCHANGED <<reader, pos>>
    PROVE  Resumed'
<1>1. \A n \in Nat : n <= emitted => n <= emitted'
  BY Constants DEF TypeOK
<1>2. \A i \in 1..Len(channel) : channel[i] \in Nat
  BY ElementOfSeq, Constants DEF TypeOK, Events
<1>3. savedCursor' <= emitted' /\ urlCursor' <= savedCursor'
  BY <1>1, Constants DEF Resumed, TypeOK
<1>4. /\ last' # 0 => urlCursor' <= last' /\ last' <= emitted'
      /\ inHand' # 0 => urlCursor' <= inHand' /\ inHand' <= emitted'
  BY <1>1, Constants DEF Resumed, TypeOK
<1>5. \A i \in 1..Len(channel') : urlCursor' <= channel'[i] /\ channel'[i] <= emitted'
  BY <1>1, <1>2 DEF Resumed
<1>6. /\ reader' = "reading" => urlCursor' <= pos' + 1
      /\ reader' \in {"sending", "shedding"} => urlCursor' <= pos'
  BY DEF Resumed
<1> QED
  BY <1>3, <1>4, <1>5, <1>6 DEF Resumed

LEMMA ResumedStep ==
    ASSUME CursorMode = "auto", TypeOK, TypeOK', Control, Resumed, [Next]_vars
    PROVE  Resumed'
<1> USE DEF relayVars, readerVars, dispatcherVars, historyVars, boundVars
<1>0. /\ emitted \in Nat /\ pos \in Nat /\ urlCursor \in Nat /\ savedCursor \in Nat
      /\ Len(channel) \in Nat
  BY Constants, LenProperties DEF TypeOK
<1>1. CASE Spawn
  BY <1>0, <1>1 DEF Spawn, InitialCursor, Resumed, Control
<1>2. CASE Crash
  BY <1>0, <1>2 DEF Crash, Resumed
<1>3. CASE Emit
  BY <1>0, <1>3, ResumedFrame DEF Emit
<1>4. CASE ConnectOk
  <2>1. /\ UNCHANGED <<emitted, savedCursor, urlCursor, last, inHand, channel>>
        /\ pos' = StartPos /\ reader' = "reading"
    BY <1>4 DEF ConnectOk
  <2>2. urlCursor <= StartPos + 1
    BY <1>0 DEF StartPos, Resumed
  <2> QED
    BY <2>1, <2>2 DEF Resumed
<1>5. CASE ConnectFail
  BY <1>0, <1>5, ResumedFrame DEF ConnectFail, BackOff
<1>6. CASE Disconnect
  BY <1>0, <1>6, ResumedFrame DEF Disconnect, BackOff
<1>7. CASE Receive
  <2>1. /\ UNCHANGED <<emitted, savedCursor, urlCursor, last, inHand, channel>>
        /\ pos' = pos + 1 /\ reader = "reading"
        /\ reader' \in {"reading", "sending", "shedding"}
    BY <1>7 DEF Receive
  <2> QED
    BY <1>0, <2>1 DEF Resumed
<1>8. CASE Abort
  BY <1>0, <1>8, ResumedFrame DEF Abort
<1>9. CASE Shed
  <2>1. /\ UNCHANGED <<emitted, savedCursor, urlCursor, last, inHand, channel, pos>>
        /\ reader = "shedding" /\ reader' = "reading"
    BY <1>9 DEF Shed
  <2> QED
    BY <1>0, <2>1 DEF Resumed
<1>10. CASE Send
  <2>1. /\ UNCHANGED <<emitted, savedCursor, urlCursor, last, inHand, pos>>
        /\ reader = "sending" /\ reader' = "reading"
        /\ channel' \in {channel, Append(channel, pos)}
    BY <1>10 DEF Send
  <2>2. pos \in Events
    BY <2>1, Constants DEF TypeOK, Control, Events
  <2>3. \A i \in 1..Len(channel') : urlCursor <= channel'[i] /\ channel'[i] <= emitted
    <3>1. CASE channel' = channel
      BY <3>1 DEF Resumed
    <3>2. CASE channel' = Append(channel, pos)
      <4>1. /\ Len(channel') = Len(channel) + 1
            /\ \A i \in 1..Len(channel) : channel'[i] = channel[i]
            /\ channel'[Len(channel) + 1] = pos
        BY <2>2, <3>2, AppendFacts DEF TypeOK
      <4>2. urlCursor <= pos /\ pos <= emitted
        BY <2>1 DEF Resumed, TypeOK
      <4> QED
        BY <1>0, <4>1, <4>2 DEF Resumed
    <3> QED
      BY <2>1, <3>1, <3>2
  <2> QED
    BY <1>0, <2>1, <2>3 DEF Resumed
<1>11. CASE BackoffElapsed
  BY <1>0, <1>11, ResumedFrame DEF BackoffElapsed
<1>12. CASE Recv
  <2>1. /\ UNCHANGED <<emitted, savedCursor, urlCursor, last, pos, reader>>
        /\ channel # <<>> /\ inHand' = Head(channel) /\ channel' = Tail(channel)
    BY <1>12 DEF Recv
  <2>2. /\ Len(channel) \in Nat \ {0} /\ inHand' = channel[1]
        /\ Len(channel') = Len(channel) - 1
        /\ \A i \in 1..Len(channel') : channel'[i] = channel[i + 1]
    BY <2>1, HeadTailFacts DEF TypeOK
  <2>3. \A i \in 1..Len(channel') : urlCursor <= channel'[i] /\ channel'[i] <= emitted
    BY <2>2 DEF Resumed
  <2> QED
    BY <2>1, <2>2, <2>3 DEF Resumed
<1>13. CASE HandlerReturns
  <2>1. /\ UNCHANGED <<emitted, savedCursor, urlCursor, channel, pos, reader>>
        /\ inHand # 0 /\ inHand' = 0 /\ last' \in {last, inHand}
    BY <1>13 DEF HandlerReturns, LastAfter, Control
  <2> QED
    BY <2>1 DEF Resumed
<1>14. CASE HandlerPanics
  <2>1. /\ UNCHANGED <<emitted, savedCursor, urlCursor, last, pos, reader>>
        /\ inHand' = 0 /\ channel' = <<>>
    BY <1>14 DEF HandlerPanics
  <2> QED
    BY <2>1 DEF Resumed
<1>15. CASE ChannelClosed
  BY <1>0, <1>15, ResumedFrame DEF ChannelClosed
<1>16. CASE SaveCursor
  <2>1. /\ UNCHANGED <<emitted, urlCursor, last, inHand, channel, pos, reader>>
        /\ savedCursor' = last /\ last # 0
    BY <1>16 DEF SaveCursor, Control
  <2> QED
    BY <2>1 DEF Resumed
<1>17. CASE SaveCursorFails
  BY <1>0, <1>17, ResumedFrame DEF SaveCursorFails
<1>18. CASE UNCHANGED vars
  BY <1>0, <1>18, ResumedFrame DEF vars
<1> QED
  BY <1>1, <1>2, <1>3, <1>4, <1>5, <1>6, <1>7, <1>8, <1>9, <1>10, <1>11,
     <1>12, <1>13, <1>14, <1>15, <1>16, <1>17, <1>18
     DEF Next, ReaderStep, DispatcherStep

LEMMA ResumedInvariant ==
    ASSUME CursorMode = "auto"
    PROVE  Spec => []Resumed
<1>1. Init => Resumed
  BY DEF Init, Resumed
<1>2. TypeOK /\ TypeOK' /\ Control /\ Resumed /\ [Next]_vars => Resumed'
  BY ResumedStep
<1> QED
  BY <1>1, <1>2, TypeAndControl, PTL DEF Spec

LEMMA SeeOne ==
    ASSUME NEW e \in Events, shed' \in {shed, shed \cup {e}},
           UNCHANGED <<savedCursor, urlCursor, handled, skipped>>,
           reader # "down", reader' # "down"
    PROVE  [Feed!Next]_Feed!vars
<1>1. CASE shed' = shed
  BY <1>1 DEF Feed!vars
<1>2. CASE shed' = shed \cup {e}
  <2>1. handled' \cup shed' = (handled \cup shed) \cup {e}
    BY <1>2
  <2> QED
    BY <2>1 DEF Feed!Next, Feed!See, Feed!Events, Events
<1> QED
  BY <1>1, <1>2

\* A step of the consumer is a step of the feed's promise, or none of its.
LEMMA FeedStep ==
    ASSUME CursorMode = "auto", TypeOK, TypeOK', Control,
           Resumed, Resumed', CheckpointCovered, CheckpointCovered', [Next]_vars
    PROVE  [Feed!Next]_Feed!vars
<1> USE DEF relayVars, readerVars, dispatcherVars, historyVars, boundVars
<1>1. CASE Spawn
  BY <1>1 DEF Spawn, InitialCursor, Feed!Next, Feed!Resume
<1>2. CASE Crash
  BY <1>2 DEF Crash, Feed!Next, Feed!Halt
<1>3. CASE Emit \/ BackoffElapsed \/ Abort \/ Recv \/ HandlerPanics
           \/ ChannelClosed \/ SaveCursorFails
  BY <1>3 DEF Emit, BackoffElapsed, Abort, Recv, HandlerPanics, ChannelClosed,
              SaveCursorFails, Feed!vars
<1>4. CASE ConnectOk
  <2>1. /\ UNCHANGED <<emitted, savedCursor, urlCursor, handled, shed>>
        /\ reader # "down" /\ reader' # "down"
        /\ skipped' = skipped \cup (((pos + 1)..StartPos) \ (handled \cup shed))
    BY <1>4 DEF ConnectOk
  <2>2. CASE urlCursor = 0
    <3>1. skipped' \subseteq Events /\ skipped' = skipped \cup skipped'
      BY <2>1 DEF TypeOK
    <3> QED
      BY <2>1, <2>2, <3>1 DEF Feed!Next, Feed!Miss, Feed!Events, Events
  <2>3. CASE urlCursor # 0
    <3>1. StartPos \in 0..savedCursor
      BY <2>3, Constants DEF StartPos, Resumed, TypeOK
    <3>2. ((pos + 1)..StartPos) \ (handled \cup shed) \subseteq skipped
      <4> SUFFICES ASSUME NEW e \in (pos + 1)..StartPos, e \notin handled \cup shed
                   PROVE  e \in skipped
        OBVIOUS
      <4>1. pos \in Nat /\ savedCursor \in Nat
        BY Constants DEF TypeOK
      <4>2. e \in 1..savedCursor
        BY <3>1, <4>1
      <4> QED
        BY <4>2 DEF CheckpointCovered, Accounted
    <3> QED
      BY <2>1, <3>2 DEF Feed!vars
  <2> QED
    BY <2>2, <2>3
<1>5. CASE ConnectFail \/ Disconnect
  BY <1>5 DEF ConnectFail, Disconnect, BackOff, Feed!vars
<1>6. CASE Receive
  <2>1. pos' \in Events
    <3>1. pos' = pos + 1 /\ pos < emitted
      BY <1>6 DEF Receive
    <3>2. pos \in Nat /\ emitted \in 0..MaxEvents
      BY Constants DEF TypeOK
    <3> QED
      BY <3>1, <3>2, Constants DEF Events
  <2>2. /\ UNCHANGED <<savedCursor, urlCursor, handled, skipped>>
        /\ reader # "down" /\ reader' # "down"
        /\ shed' \in {shed, shed \cup {pos'}}
    BY <1>6 DEF Receive
  <2> QED
    BY <2>1, <2>2, SeeOne
<1>7. CASE Shed \/ Send
  <2>1. pos \in Events
    <3>1. pos # 0
      BY <1>7 DEF Shed, Send, Control
    <3>2. pos \in 0..emitted /\ emitted \in 0..MaxEvents
      BY DEF TypeOK
    <3> QED
      BY <3>1, <3>2, Constants DEF Events
  <2>2. /\ UNCHANGED <<savedCursor, urlCursor, handled, skipped>>
        /\ reader # "down" /\ reader' # "down"
        /\ shed' \in {shed, shed \cup {pos}}
    BY <1>7 DEF Shed, Send, Drop
  <2> QED
    BY <2>1, <2>2, SeeOne
<1>8. CASE HandlerReturns
  <2>1. inHand \in Events /\ reader # "down"
    BY <1>8, Constants DEF HandlerReturns, TypeOK, Control, Events
  <2>2. /\ UNCHANGED <<savedCursor, urlCursor, reader, shed, skipped>>
        /\ handled' = handled \cup {inHand}
    BY <1>8 DEF HandlerReturns
  <2> QED
    <3>1. handled' \cup shed' = (handled \cup shed) \cup {inHand}
      BY <2>2
    <3> QED
      BY <2>1, <2>2, <3>1 DEF Feed!Next, Feed!See, Feed!Events, Events
<1>9. CASE SaveCursor
  <2>1. /\ UNCHANGED <<urlCursor, reader, handled, shed, skipped>>
        /\ reader # "down"
    BY <1>9 DEF SaveCursor, Control
  <2>2. CASE savedCursor' = 0
    BY <1>9, <2>2 DEF SaveCursor, Control
  <2>3. CASE savedCursor' # 0
    <3>1. savedCursor' \in Events /\ urlCursor <= savedCursor'
      BY <2>1, <2>3, Constants DEF TypeOK, Resumed, Events
    <3>2. 1..savedCursor' \subseteq (handled \cup shed) \cup skipped
      BY <2>1 DEF CheckpointCovered, Accounted
    <3> QED
      BY <2>1, <3>1, <3>2 DEF Feed!Next, Feed!Checkpoint, Feed!Events, Events
  <2> QED
    BY <2>2, <2>3
<1>10. CASE UNCHANGED vars
  BY <1>10 DEF vars, Feed!vars
<1> QED
  BY <1>1, <1>2, <1>3, <1>4, <1>5, <1>6, <1>7, <1>8, <1>9, <1>10
     DEF Next, ReaderStep, DispatcherStep

\* In mode auto the consumer implements ResumableFeed, for any workload,
\* capacity, save interval and number of failures.
THEOREM ImplementsFeed ==
    ASSUME CursorMode = "auto"
    PROVE  Spec => FeedSpec
<1>1. Init => Feed!Init
  BY DEF Init, Feed!Init
<1>2. /\ TypeOK /\ TypeOK' /\ Control /\ Resumed /\ Resumed' /\ Coverage /\ Coverage'
      /\ [Next]_vars
      => [Feed!Next]_Feed!vars
  BY FeedStep DEF Coverage
<1> QED
  BY <1>1, <1>2, TypeAndControl, ResumedInvariant, CoverageInvariant, PTL
     DEF Spec, FeedSpec, Feed!Spec

-----------------------------------------------------------------------------
(* The capacity check *)

LEMMA CapacityStep ==
    TypeOK /\ Control /\ CapacityCheckSuffices /\ [Next]_vars
        => CapacityCheckSuffices'
<1> SUFFICES ASSUME TypeOK, Control, CapacityCheckSuffices, [Next]_vars,
                    reader' = "sending", DispatcherAlive'
             PROVE  Len(channel') < Capacity
  BY DEF CapacityCheckSuffices
<1> USE DEF relayVars, readerVars, dispatcherVars, historyVars, boundVars,
            DispatcherAlive
<1>1. CASE Receive
  BY <1>1 DEF Receive
<1>2. CASE Recv
  <2>1. channel # <<>> /\ channel' = Tail(channel) /\ reader = "sending"
    BY <1>2 DEF Recv
  <2>2. Len(channel) < Capacity
    BY <1>2, <2>1 DEF Recv, CapacityCheckSuffices
  <2>3. Len(channel) \in Nat /\ Len(channel') = Len(channel) - 1
    BY <2>1, HeadTailFacts DEF TypeOK
  <2> QED
    BY <2>2, <2>3, Constants
<1>3. CASE Spawn \/ Crash \/ ConnectOk \/ ConnectFail \/ Disconnect \/ Abort
           \/ ReaderStep
  BY <1>3 DEF Spawn, Crash, ConnectOk, ConnectFail, Disconnect, BackOff, Abort,
              ReaderStep, Shed, Send, BackoffElapsed
<1>4. CASE Emit \/ HandlerReturns \/ HandlerPanics \/ ChannelClosed
           \/ SaveCursor \/ SaveCursorFails
  BY <1>4 DEF Emit, HandlerReturns, HandlerPanics, ChannelClosed, SaveCursor,
              SaveCursorFails, CapacityCheckSuffices
<1>5. CASE UNCHANGED vars
  BY <1>5 DEF vars, CapacityCheckSuffices
<1> QED
  BY <1>1, <1>2, <1>3, <1>4, <1>5 DEF Next, DispatcherStep

\* Between the capacity check and the send nobody else fills the channel, so
\* try_send fails only when the dispatcher is gone.
THEOREM CapacityCheckIsEnough == Spec => []CapacityCheckSuffices
<1>1. Init => CapacityCheckSuffices
  BY DEF Init, CapacityCheckSuffices
<1> QED
  BY <1>1, CapacityStep, TypeAndControl, PTL DEF Spec

-----------------------------------------------------------------------------
(* The counters *)

\* A process starts with all counters at zero.
Counters ==
    /\ reader = "down" => metrics = NoMetrics /\ eventCount = 0
    /\ CountersAddUp

\* What a step does to the received, dropped and error counters.
Counted(received, dropped, errors) ==
    /\ metrics'.received = metrics.received + received
    /\ metrics'.dropped = metrics.dropped + dropped
    /\ metrics'.errors = metrics.errors + errors

LEMMA BackOffCounts ==
    ASSUME metrics \in Metrics, NEW failed \in BOOLEAN, BackOff(failed)
    PROVE  Counted(0, 0, 0)
<1> DEFINE counted == IF failed THEN [metrics EXCEPT !.reconnects = @ + 1]
                                ELSE metrics
<1>1. /\ counted \in Metrics
      /\ counted.received = metrics.received
      /\ counted.dropped = metrics.dropped
      /\ counted.errors = metrics.errors
  BY DEF Metrics
<1>2. metrics' = [counted EXCEPT !.backoff = backoff]
  BY DEF BackOff
<1> HIDE DEF counted
<1> QED
  BY <1>1, <1>2 DEF Counted, Metrics

LEMMA UpdateCounts ==
    ASSUME metrics \in Metrics
    PROVE  /\ metrics' = [metrics EXCEPT !.received = @ + 1] => Counted(1, 0, 0)
           /\ metrics' = [metrics EXCEPT !.dropped = @ + 1] => Counted(0, 1, 0)
           /\ metrics' = [metrics EXCEPT !.errors = @ + 0] => Counted(0, 0, 0)
           /\ metrics' = [metrics EXCEPT !.errors = @ + 1] => Counted(0, 0, 1)
           /\ metrics' = [metrics EXCEPT !.backoff = 0] => Counted(0, 0, 0)
           /\ metrics' = [[metrics EXCEPT !.received = @ + 1]
                                  EXCEPT !.errors = @ + 1] => Counted(1, 0, 1)
<1>1. metrics' = [metrics EXCEPT !.received = @ + 1] => Counted(1, 0, 0)
  BY DEF Counted, Metrics
<1>2. metrics' = [metrics EXCEPT !.dropped = @ + 1] => Counted(0, 1, 0)
  BY DEF Counted, Metrics
<1>3. metrics' = [metrics EXCEPT !.errors = @ + 0] => Counted(0, 0, 0)
  BY DEF Counted, Metrics
<1>4. metrics' = [metrics EXCEPT !.errors = @ + 1] => Counted(0, 0, 1)
  BY DEF Counted, Metrics
<1>5. metrics' = [metrics EXCEPT !.backoff = 0] => Counted(0, 0, 0)
  BY DEF Counted, Metrics
<1>6. metrics' = [[metrics EXCEPT !.received = @ + 1] EXCEPT !.errors = @ + 1]
         => Counted(1, 0, 1)
  BY DEF Counted, Metrics
<1> QED
  BY <1>1, <1>2, <1>3, <1>4, <1>5, <1>6

\* A step that moves as many events into flight as it receives, but for those
\* it counts as dropped or failed.
Balanced(received, dropped, errors, moved) ==
    /\ Counted(received, dropped, errors)
    /\ Persists => InFlight' = InFlight + moved

LEMMA CountersMove ==
    ASSUME Counters, metrics \in Metrics, InFlight \in Int,
           \/ Balanced(0, 0, 0, 0)    \* nothing moves
           \/ Balanced(0, 0, 1, 0)    \* a handler fails
           \/ Balanced(1, 0, 1, 0)    \* an event does not parse
           \/ Balanced(1, 0, 0, 1)    \* an event is received
           \/ Balanced(0, 1, 0, -1),  \* an event is dropped
           DispatcherAlive' => DispatcherAlive, reader' # "down"
    PROVE  Counters'
<1>1. /\ metrics.received \in Int /\ metrics.dropped \in Int /\ metrics.errors \in Int
  BY DEF Metrics
<1>2. ASSUME Persists, DispatcherAlive'
      PROVE  /\ metrics'.dropped + InFlight' <= metrics'.received
             /\ metrics'.received <= metrics'.dropped + InFlight' + metrics'.errors
  <2>1. /\ metrics.dropped + InFlight <= metrics.received
        /\ metrics.received <= metrics.dropped + InFlight + metrics.errors
    BY <1>1, <1>2 DEF Counters, CountersAddUp
  <2> QED
    BY <1>1, <1>2, <2>1 DEF Counted, Balanced
<1> QED
  BY <1>2 DEF Counters, CountersAddUp

LEMMA CountersStep ==
    TypeOK /\ TypeOK' /\ Control /\ Control' /\ Counters /\ [Next]_vars => Counters'
<1> SUFFICES ASSUME TypeOK, TypeOK', Control, Control', Counters, [Next]_vars
             PROVE  Counters'
  OBVIOUS
<1> USE DEF relayVars, readerVars, dispatcherVars, historyVars, boundVars
<1>a. /\ metrics \in Metrics /\ eventCount \in Nat /\ Len(channel) \in Nat
      /\ Len(channel') \in Nat
  BY LenProperties DEF TypeOK
<1>b. InFlight \in Int
  BY <1>a DEF InFlight, AtReader, AtHandler
<1>1. CASE Spawn
  BY <1>1 DEF Spawn, Counters, CountersAddUp, InFlight, NoMetrics, Control, AtReader, AtHandler
<1>2. CASE Crash
  BY <1>2 DEF Crash, Counters, CountersAddUp, DispatcherAlive
<1>3. CASE Emit \/ Abort \/ BackoffElapsed \/ ChannelClosed \/ SaveCursor
           \/ SaveCursorFails
  BY <1>3, <1>a DEF Emit, Abort, BackoffElapsed, ChannelClosed, SaveCursor,
     SaveCursorFails, AfterSave, Counters, CountersAddUp, InFlight, DispatcherAlive,
     AtReader, AtHandler, Control
<1>4. CASE ConnectOk
  <2>1. /\ Counted(0, 0, 0) /\ UNCHANGED <<channel, dispatcher, eventCount>>
        /\ reader = "connecting" /\ reader' = "reading"
    BY <1>4, <1>a, UpdateCounts DEF ConnectOk
  <2>2. InFlight' = InFlight + 0
    BY <1>a, <2>1 DEF InFlight, AtReader, AtHandler
  <2> QED
    BY <1>a, <1>b, <2>1, <2>2, CountersMove DEF Balanced, DispatcherAlive
<1>5. CASE ConnectFail \/ Disconnect
  <2>1. /\ Counted(0, 0, 0) /\ UNCHANGED <<channel, dispatcher, eventCount>>
        /\ reader \in {"connecting", "reading"} /\ reader' = "backing_off"
    BY <1>5, BackOffCounts DEF ConnectFail, Disconnect, BackOff, TypeOK
  <2>2. InFlight' = InFlight + 0
    <3>1. AtReader = 0 /\ AtReader' = 0 /\ AtHandler' = AtHandler
      BY <2>1 DEF AtReader, AtHandler
    <3>2. AtHandler \in Nat
      BY DEF AtHandler
    <3> QED
      BY <1>a, <2>1, <3>1, <3>2 DEF InFlight
  <2> QED
    BY <1>a, <1>b, <2>1, <2>2, CountersMove DEF Balanced, DispatcherAlive
<1>6. CASE Receive
  <2>1. UNCHANGED <<channel, dispatcher, eventCount>> /\ reader = "reading"
    BY <1>6 DEF Receive
  <2>2. CASE pos' \in Malformed
    <3>1. Counted(1, 0, 1) /\ reader' = reader
      BY <1>a, <1>6, <2>2, UpdateCounts DEF Receive
    <3>2. InFlight' = InFlight + 0
      BY <1>a, <2>1, <3>1 DEF InFlight, AtReader, AtHandler
    <3> QED
      BY <1>a, <1>b, <2>1, <3>1, <3>2, CountersMove DEF Balanced, DispatcherAlive
  <2>3. CASE pos' \notin Malformed
    <3>1. Counted(1, 0, 0) /\ reader' \in {"sending", "shedding"}
      BY <1>a, <1>6, <2>3, UpdateCounts DEF Receive
    <3>2. InFlight' = InFlight + 1
      BY <1>a, <2>1, <3>1 DEF InFlight, AtReader, AtHandler
    <3> QED
      BY <1>a, <1>b, <2>1, <3>1, <3>2, CountersMove DEF Balanced, DispatcherAlive
  <2> QED
    BY <2>2, <2>3
<1>7. CASE Shed
  <2>1. /\ Counted(0, 1, 0) /\ UNCHANGED <<channel, dispatcher, eventCount>>
        /\ reader = "shedding" /\ reader' = "reading"
    BY <1>a, <1>7, UpdateCounts DEF Shed, Drop
  <2>2. InFlight' = InFlight + (-1)
    BY <1>a, <2>1 DEF InFlight, AtReader, AtHandler
  <2> QED
    BY <1>a, <1>b, <2>1, <2>2, CountersMove DEF Balanced, DispatcherAlive
<1>8. CASE Send
  <2>1. /\ UNCHANGED <<dispatcher, eventCount>>
        /\ reader = "sending" /\ reader' = "reading"
    BY <1>8 DEF Send
  <2>2. CASE TrySendFails
    <3>1. Counted(0, 1, 0) /\ channel' = channel
      BY <1>a, <1>8, <2>2, UpdateCounts DEF Send, Drop
    <3>2. InFlight' = InFlight + (-1)
      BY <1>a, <2>1, <3>1 DEF InFlight, AtReader, AtHandler
    <3> QED
      BY <1>a, <1>b, <2>1, <3>1, <3>2, CountersMove DEF Balanced, DispatcherAlive
  <2>3. CASE ~TrySendFails
    <3>1. metrics' = metrics /\ channel' = Append(channel, pos)
      BY <1>8, <2>3 DEF Send
    <3>2. Len(channel') = Len(channel) + 1
      BY <1>8, <3>1, AppendFacts, Constants DEF Send, TypeOK, Control, Events
    <3>3. Counted(0, 0, 0)
      BY <1>a, <3>1 DEF Counted, Metrics
    <3>4. InFlight' = InFlight + 0
      BY <1>a, <2>1, <3>2 DEF InFlight, AtReader, AtHandler
    <3> QED
      BY <1>a, <1>b, <2>1, <3>3, <3>4, CountersMove DEF Balanced, DispatcherAlive
  <2> QED
    BY <2>2, <2>3
<1>9. CASE Recv
  <2>1. /\ UNCHANGED <<metrics, reader, eventCount>>
        /\ dispatcher = "idle" /\ dispatcher' = "handling" /\ reader # "down"
        /\ Len(channel') = Len(channel) - 1
    BY <1>9, HeadTailFacts DEF Recv, TypeOK, Control
  <2>2. Counted(0, 0, 0)
    BY <1>a, <2>1 DEF Counted, Metrics
  <2>3. InFlight' = InFlight + 0
    BY <1>a, <2>1 DEF InFlight, AtReader, AtHandler
  <2> QED
    BY <1>a, <1>b, <2>1, <2>2, <2>3, CountersMove DEF Balanced, DispatcherAlive
<1>10. CASE HandlerReturns
  <2>1. /\ UNCHANGED <<channel, reader>> /\ dispatcher = "handling"
        /\ dispatcher' \in {"idle", "saving"} /\ reader # "down"
        /\ Persists => eventCount' = eventCount + 1
    BY <1>10 DEF HandlerReturns, Control
  <2>2. Persists => InFlight' = InFlight + 0
    <3>1. AtHandler = 1 /\ AtHandler' = 0 /\ AtReader' = AtReader
      BY <2>1 DEF AtReader, AtHandler
    <3>2. AtReader \in Nat
      BY DEF AtReader
    <3> QED
      BY <1>a, <2>1, <3>1, <3>2 DEF InFlight
  <2>3. PICK failed \in {0, 1} : metrics' = [metrics EXCEPT !.errors = @ + failed]
    BY <1>10 DEF HandlerReturns
  <2>4. Counted(0, 0, failed)
    BY <1>a, <2>3, UpdateCounts
  <2> QED
    BY <1>a, <1>b, <2>1, <2>2, <2>4, CountersMove DEF Balanced, DispatcherAlive
<1>11. CASE HandlerPanics
  BY <1>11 DEF HandlerPanics, Counters, CountersAddUp, DispatcherAlive, Control
<1>12. CASE UNCHANGED vars
  BY <1>12 DEF vars, Counters, CountersAddUp, InFlight, DispatcherAlive,
     AtReader, AtHandler
<1> QED
  BY <1>1, <1>2, <1>3, <1>4, <1>5, <1>6, <1>7, <1>8, <1>9, <1>10, <1>11, <1>12
     DEF Next, ReaderStep, DispatcherStep

\* While the dispatcher lives, every event received is counted exactly once.
THEOREM MetricsAddUp == Spec => []CountersAddUp
<1>1. Init => Counters
  BY DEF Init, Counters, CountersAddUp, DispatcherAlive
<1>2. Counters => CountersAddUp
  BY DEF Counters
<1> QED
  BY <1>1, <1>2, CountersStep, TypeAndControl, PTL DEF Spec
=============================================================================
