------------------------ MODULE OAuthSession_proofs ------------------------
(***************************************************************************)
(* Proofs about OAuthSession, for every value of its constants.            *)
(***************************************************************************)
EXTENDS OAuthSession, TLAPS

-----------------------------------------------------------------------------
(* The inductive invariant *)

Holding == {"found", "exchanging", "creating"}

\* What a callback's handler may rely on.
CallbackOK(h) ==
    /\ callback[h].stage # "idle" =>
          /\ callback[h].login \in Logins
          /\ started[callback[h].login] # None
    /\ callback[h].stage \in Holding =>
          /\ callback[h].row \in StateRows
          /\ callback[h].row.did = started[callback[h].login]
    /\ callback[h].stage = "creating" => callback[h].login \in redeemed

\* What the rows of the two tables and the handlers say about each other.
Flow ==
    /\ \A l \in Logins :
          states[l] # None => started[l] # None /\ states[l].did = started[l]
    /\ \A h \in Callbacks : CallbackOK(h)
    /\ \A r \in Requests :
          request[r].stage # "idle" => request[r].session \in 1..issued
    /\ \A s \in Sessions :
          sessions[s] # None => /\ s <= issued
                                /\ started[sessions[s].login] # None
                                /\ sessions[s].login \in redeemed
    /\ ended \subseteq 1..issued

\* A code that was redeemed is in the hands of one handler, or became one
\* session, or is lost.
Unique ==
    /\ \A h, k \in Callbacks :
          (/\ callback[h].stage = "creating" /\ callback[k].stage = "creating"
           /\ callback[h].login = callback[k].login) => h = k
    /\ \A h \in Callbacks, s \in Sessions :
          callback[h].stage = "creating" /\ sessions[s] # None
             => sessions[s].login # callback[h].login

-----------------------------------------------------------------------------
(* Types *)

\* The rows a handler or a DELETE leaves.
LEMMA SweptType ==
    ASSUME NEW K, NEW R, NEW table \in [K -> R \cup {None}], NEW now
    PROVE  /\ Swept(table, now) \in [K -> R \cup {None}]
           /\ \A k \in K : Swept(table, now)[k] \in {table[k], None}
  BY DEF Swept

LEMMA TypeStep == TypeOK /\ Flow /\ [Next]_vars => TypeOK'
<1> SUFFICES ASSUME TypeOK, Flow, [Next]_vars PROVE TypeOK'
  OBVIOUS
<1> USE DEF history
<1>0. /\ StateTtl \in Nat /\ TokenTtl \in Nat /\ MaxLogins \in Nat
      /\ MaxSessions \in Nat /\ MaxTime \in Nat /\ clock \in Times
  BY OAuthAssumption DEF TypeOK
<1>1. CASE Tick
  <2>1. clock' \in Times
    BY <1>0, <1>1 DEF Tick, Times
  <2> QED
    BY <1>1, <2>1 DEF Tick, TypeOK
<1>2. CASE Login
  <2>1. PICK l \in Logins, u \in Users :
           /\ started' = [started EXCEPT ![l] = u]
           /\ states' = [states EXCEPT ![l] =
                            [did |-> u, expires |-> clock + StateTtl]]
    BY <1>2 DEF Login
  <2>2. [did |-> u, expires |-> clock + StateTtl] \in StateRows
    BY <1>0 DEF StateRows, Times
  <2>3. states' \in [Logins -> StateRows \cup {None}]
    BY <2>1, <2>2 DEF TypeOK
  <2>4. started' \in [Logins -> Users \cup {None}]
    BY <2>1 DEF TypeOK
  <2> QED
    BY <1>2, <2>3, <2>4 DEF Login, TypeOK
<1> DEFINE CallbackType == [stage : CallbackStages, login : 0..MaxLogins,
                            now : Times, row : StateRows \cup {None}]
<1>3. /\ IdleCallback \in CallbackType /\ 0 \in Times
      /\ \A l \in Logins : l \in 0..MaxLogins
  BY <1>0 DEF IdleCallback, CallbackStages, Times, Logins
<1>4. ASSUME NEW h \in Callbacks, NEW l \in Logins, Deliver(h, l) PROVE TypeOK'
  <2>1. [stage |-> "finding", login |-> l, now |-> clock, row |-> None]
           \in CallbackType
    BY <1>0, <1>3 DEF CallbackStages
  <2>2. callback' \in [Callbacks -> CallbackType]
    BY <1>4, <2>1 DEF Deliver, TypeOK
  <2> QED
    BY <1>4, <2>2 DEF Deliver, TypeOK
<1>5. ASSUME NEW h \in Callbacks, FindState(h) PROVE TypeOK'
  <2>1. callback[h].stage = "finding" /\ callback[h].login \in Logins
    BY <1>5 DEF FindState, Flow, CallbackOK
  <2>2. [stage |-> "found", login |-> callback[h].login, now |-> 0,
         row |-> states[callback[h].login]] \in CallbackType
    BY <1>3, <2>1 DEF CallbackStages, TypeOK
  <2>3. callback' \in [Callbacks -> CallbackType]
    BY <1>3, <1>5, <2>2 DEF FindState, TypeOK
  <2> QED
    BY <1>5, <2>3 DEF FindState, TypeOK
<1>6. ASSUME NEW h \in Callbacks, DeleteState(h) PROVE TypeOK'
  <2>1. /\ callback[h].stage = "found" /\ callback[h].login \in Logins
        /\ callback[h].row \in StateRows
    BY <1>6 DEF DeleteState, Flow, CallbackOK, Holding
  <2>2. [stage |-> "exchanging", login |-> callback[h].login, now |-> 0,
         row |-> callback[h].row] \in CallbackType
    BY <1>3, <2>1 DEF CallbackStages
  <2>3. callback' \in [Callbacks -> CallbackType]
    BY <1>6, <2>2 DEF DeleteState, TypeOK
  <2>4. states' \in [Logins -> StateRows \cup {None}]
    BY <1>6 DEF DeleteState, TypeOK
  <2>5. accepted' \in [Logins -> Nat]
    BY <1>6, <2>1 DEF DeleteState, TypeOK
  <2> QED
    BY <1>6, <2>3, <2>4, <2>5 DEF DeleteState, TypeOK
<1>7. ASSUME NEW h \in Callbacks, Exchange(h) PROVE TypeOK'
  <2>1. /\ callback[h].login \in Logins /\ callback[h].row \in StateRows
    BY <1>7 DEF Exchange, Flow, CallbackOK, Holding
  <2>2. [stage |-> "creating", login |-> callback[h].login, now |-> clock,
         row |-> callback[h].row] \in CallbackType
    BY <1>0, <1>3, <2>1 DEF CallbackStages
  <2>3. callback' \in [Callbacks -> CallbackType]
    BY <1>3, <1>7, <2>2 DEF Exchange, TypeOK
  <2>4. redeemed' \subseteq Logins
    BY <1>7, <2>1 DEF Exchange, TypeOK
  <2> QED
    BY <1>7, <2>3, <2>4 DEF Exchange, TypeOK
<1>8. ASSUME NEW h \in Callbacks, CreateSession(h) PROVE TypeOK'
  <2>1. /\ callback[h].login \in Logins /\ callback[h].row \in StateRows
        /\ callback[h].now \in Times
    BY <1>8 DEF CreateSession, Flow, CallbackOK, Holding, TypeOK
  <2> DEFINE new == [did |-> callback[h].row.did, login |-> callback[h].login,
                     lastUsed |-> clock, expires |-> callback[h].now + TokenTtl]
  <2>2. new \in SessionRows
    <3>1. callback[h].row.did \in Users
      BY <2>1 DEF StateRows
    <3>2. callback[h].now + TokenTtl \in 0..(MaxTime + TokenTtl)
      BY <1>0, <2>1 DEF Times
    <3> QED
      BY <1>0, <2>1, <3>1, <3>2 DEF SessionRows
  <2>3. sessions' = [sessions EXCEPT ![issued + 1] = new]
    BY <1>8 DEF CreateSession
  <2> HIDE DEF new
  <2>4. sessions' \in [Sessions -> SessionRows \cup {None}]
    BY <2>2, <2>3 DEF TypeOK
  <2>5. callback' \in [Callbacks -> CallbackType]
    BY <1>3, <1>8 DEF CreateSession, TypeOK
  <2>6. issued' \in 0..MaxSessions
    BY <1>0, <1>8 DEF CreateSession, TypeOK
  <2> QED
    BY <1>8, <2>4, <2>5, <2>6 DEF CreateSession, TypeOK
<1>9. ASSUME NEW h \in Callbacks, CallbackEnds(h) PROVE TypeOK'
  <2>1. callback[h].login \in Logins
    BY <1>9 DEF CallbackEnds, Flow, CallbackOK
  <2>2. callback' \in [Callbacks -> CallbackType]
    BY <1>3, <1>9 DEF CallbackEnds, TypeOK
  <2>3. redeemed' \subseteq Logins
    BY <1>9, <2>1 DEF CallbackEnds, TypeOK
  <2> QED
    BY <1>9, <2>2, <2>3 DEF CallbackEnds, TypeOK
<1> DEFINE RequestType == [stage : RequestStages, session : 0..MaxSessions,
                           now : Times]
<1>10. /\ IdleRequest \in RequestType
       /\ \A s \in Sessions : s \in 0..MaxSessions
       /\ \A s \in 1..issued : s \in Sessions
  BY <1>0, <1>3 DEF IdleRequest, RequestStages, Sessions, TypeOK
<1>11. ASSUME NEW r \in Requests, NEW s \in Sessions, Ask(r, s) PROVE TypeOK'
  <2>1. [stage |-> "finding", session |-> s, now |-> clock] \in RequestType
    BY <1>0, <1>10 DEF RequestStages
  <2>2. request' \in [Requests -> RequestType]
    BY <1>11, <2>1 DEF Ask, TypeOK
  <2> QED
    BY <1>11, <2>2 DEF Ask, TypeOK
<1>12. ASSUME NEW r \in Requests, FindSession(r) PROVE TypeOK'
  <2>1. request[r].session \in 0..MaxSessions
    BY DEF TypeOK
  <2>2. [stage |-> "touching", session |-> request[r].session, now |-> clock]
           \in RequestType
    BY <1>0, <2>1 DEF RequestStages
  <2>3. request' \in [Requests -> RequestType]
    BY <1>10, <1>12, <2>2 DEF FindSession, TypeOK
  <2> QED
    BY <1>12, <2>3 DEF FindSession, TypeOK
<1>13. ASSUME NEW r \in Requests, Touch(r) PROVE TypeOK'
  <2> DEFINE s == request[r].session
  <2>1. s \in Sessions /\ request[r].now \in Times
    BY <1>10, <1>13 DEF Touch, Flow, TypeOK
  <2>2. sessions' = [sessions EXCEPT ![s] = IF sessions[s] = None THEN None
                       ELSE [sessions[s] EXCEPT !.lastUsed = request[r].now]]
    BY <1>13 DEF Touch
  <2>3. ASSUME sessions[s] # None
        PROVE  [sessions[s] EXCEPT !.lastUsed = request[r].now] \in SessionRows
    <3>1. sessions[s] \in SessionRows
      BY <2>1, <2>3 DEF TypeOK
    <3> QED
      BY <2>1, <3>1 DEF SessionRows
  <2>4. sessions' \in [Sessions -> SessionRows \cup {None}]
    BY <2>1, <2>2, <2>3 DEF TypeOK
  <2>5. request' \in [Requests -> RequestType]
    BY <1>10, <1>13 DEF Touch, TypeOK
  <2> QED
    BY <1>13, <2>4, <2>5 DEF Touch, TypeOK
<1>14. ASSUME NEW r \in Requests, RequestEnds(r) PROVE TypeOK'
  <2>1. request' \in [Requests -> RequestType]
    BY <1>10, <1>14 DEF RequestEnds, TypeOK
  <2> QED
    BY <1>14, <2>1 DEF RequestEnds, TypeOK
<1>15. ASSUME NEW s \in Sessions, Logout(s) PROVE TypeOK'
  <2>1. sessions' \in [Sessions -> SessionRows \cup {None}]
    BY <1>15 DEF Logout, TypeOK
  <2> QED
    BY <1>15, <2>1 DEF Logout, TypeOK
<1>16. CASE Wake
  <2>1. cleaner' \in [stage : CleanerStages, now : Times]
    BY <1>0, <1>16 DEF Wake, CleanerStages
  <2> QED
    BY <1>16, <2>1 DEF Wake, TypeOK
<1>17. CASE CleanSessions
  <2>1. cleaner' \in [stage : CleanerStages, now : Times]
    BY <1>0, <1>17 DEF CleanSessions, CleanerStages
  <2>2. sessions' \in [Sessions -> SessionRows \cup {None}]
    <3>1. sessions \in [Sessions -> SessionRows \cup {None}]
      BY DEF TypeOK
    <3>2. Swept(sessions, cleaner.now) \in [Sessions -> SessionRows \cup {None}]
      BY <3>1, SweptType
    <3> QED
      BY <1>17, <3>1, <3>2 DEF CleanSessions
  <2> QED
    BY <1>17, <2>1, <2>2 DEF CleanSessions, TypeOK
<1>18. CASE CleanStates
  <2>1. cleaner' \in [stage : CleanerStages, now : Times]
    BY <1>3, <1>18 DEF CleanStates, CleanerStages
  <2>2. states' \in [Logins -> StateRows \cup {None}]
    BY <1>18, SweptType DEF CleanStates, TypeOK
  <2> QED
    BY <1>18, <2>1, <2>2 DEF CleanStates, TypeOK
<1>19. CASE CleanStatesFails
  <2>1. cleaner' \in [stage : CleanerStages, now : Times]
    BY <1>3, <1>19 DEF CleanStatesFails, CleanerStages
  <2> QED
    BY <1>19, <2>1 DEF CleanStatesFails, TypeOK
<1>20. CASE UNCHANGED vars
  BY <1>20 DEF vars, TypeOK
<1> QED
  BY <1>1, <1>2, <1>4, <1>5, <1>6, <1>7, <1>8, <1>9, <1>11, <1>12, <1>13,
     <1>14, <1>15, <1>16, <1>17, <1>18, <1>19, <1>20
  DEF Next, CallbackStep, RequestStep, CleanerStep

-----------------------------------------------------------------------------
(* Logins, callbacks and sessions *)

\* What no step takes back.
LEMMA Grows ==
    ASSUME TypeOK, [Next]_vars
    PROVE  /\ \A l \in Logins : started[l] # None => started'[l] = started[l]
           /\ redeemed \subseteq redeemed'
           /\ issued \in Nat /\ issued' \in {issued, issued + 1}
<1>0. issued \in Nat
  BY OAuthAssumption DEF TypeOK
<1>1. CASE Login
  BY <1>0, <1>1 DEF Login, TypeOK
<1>2. CASE UNCHANGED started
  BY <1>0, <1>2 DEF Next, Tick, Login, CallbackStep, Deliver, FindState, DeleteState,
     Exchange, CreateSession, CallbackEnds, RequestStep, Ask, FindSession,
     Touch, RequestEnds, Logout, CleanerStep, Wake, CleanSessions, CleanStates,
     CleanStatesFails, history, vars
<1>3. Login \/ UNCHANGED started
  BY DEF Next, Tick, CallbackStep, Deliver, FindState, DeleteState,
     Exchange, CreateSession, CallbackEnds, RequestStep, Ask, FindSession,
     Touch, RequestEnds, Logout, CleanerStep, Wake, CleanSessions, CleanStates,
     CleanStatesFails, history, vars
<1> QED
  BY <1>1, <1>2, <1>3

\* A stored state names the DID its login resolved.
LEMMA StatesStep ==
    ASSUME TypeOK, Flow, [Next]_vars, NEW l \in Logins, states'[l] # None
    PROVE  started'[l] # None /\ states'[l].did = started'[l]
<1>1. started[l] # None => started'[l] = started[l]
  BY Grows
<1>2. CASE states'[l] = states[l]
  BY <1>1, <1>2 DEF Flow
<1>3. CASE Login
  <2>1. PICK k \in Logins, u \in Users :
           /\ started' = [started EXCEPT ![k] = u]
           /\ states' = [states EXCEPT ![k] =
                            [did |-> u, expires |-> clock + StateTtl]]
    BY <1>3 DEF Login
  <2>2. CASE k = l
    BY <2>1, <2>2, NoneAssumption DEF TypeOK
  <2>3. CASE k # l
    BY <1>2, <2>1, <2>3 DEF TypeOK
  <2> QED
    BY <2>2, <2>3
<1>4. CASE CleanStates
  <2>1. states'[l] = states[l]
    <3>1. states \in [Logins -> StateRows \cup {None}]
      BY DEF TypeOK
    <3>2. Swept(states, cleaner.now)[l] \in {states[l], None}
      BY <3>1, SweptType
    <3> QED
      BY <1>4, <3>2 DEF CleanStates
  <2> QED
    BY <1>2, <2>1
<1>5. ASSUME NEW h \in Callbacks, DeleteState(h) PROVE states'[l] = states[l]
  BY <1>5 DEF DeleteState, TypeOK
<1>6. Login \/ CleanStates \/ UNCHANGED states
        \/ \E h \in Callbacks : DeleteState(h)
  BY DEF Next, Tick, CallbackStep, Deliver, FindState,
     Exchange, CreateSession, CallbackEnds, RequestStep, Ask, FindSession,
     Touch, RequestEnds, Logout, CleanerStep, Wake, CleanSessions,
     CleanStatesFails, history, vars
<1> QED
  BY <1>2, <1>3, <1>4, <1>5, <1>6

\* A step of a handler of the callback leaves the others alone.
LEMMA OneCallbackMoves ==
    ASSUME TypeOK, [Next]_vars
    PROVE  \/ UNCHANGED callback
           \/ \E h \in Callbacks :
                 /\ CallbackStep(h) \/ \E l \in Logins : Deliver(h, l)
                 /\ \A k \in Callbacks : k # h => callback'[k] = callback[k]
<1>1. ASSUME NEW h \in Callbacks, NEW v, callback' = [callback EXCEPT ![h] = v]
      PROVE  \A k \in Callbacks : k # h => callback'[k] = callback[k]
  BY <1>1 DEF TypeOK
<1>2. ASSUME NEW h \in Callbacks,
             CallbackStep(h) \/ \E l \in Logins : Deliver(h, l)
      PROVE  \A k \in Callbacks : k # h => callback'[k] = callback[k]
  BY <1>2 DEF CallbackStep, Deliver, FindState, DeleteState, Exchange,
              CreateSession, CallbackEnds, TypeOK
<1>3. \/ UNCHANGED callback
      \/ \E h \in Callbacks : CallbackStep(h) \/ \E l \in Logins : Deliver(h, l)
  BY DEF Next, Tick, Login, RequestStep, Ask, FindSession, Touch, RequestEnds,
     Logout, CleanerStep, Wake, CleanSessions, CleanStates, CleanStatesFails,
     vars
<1> QED
  BY <1>2, <1>3

LEMMA CallbackFrame ==
    ASSUME TypeOK, Flow, [Next]_vars, NEW h \in Callbacks,
           callback'[h] = callback[h]
    PROVE  CallbackOK(h)'
<1>1. CallbackOK(h)
  BY DEF Flow
<1>2. /\ \A l \in Logins : started[l] # None => started'[l] = started[l]
      /\ redeemed \subseteq redeemed'
  BY Grows
<1>3. callback[h].stage \in Holding => callback[h].stage # "idle"
  BY DEF Holding
<1> QED
  BY <1>1, <1>2, <1>3 DEF CallbackOK

LEMMA CallbacksStep ==
    ASSUME TypeOK, Flow, [Next]_vars, NEW h \in Callbacks
    PROVE  CallbackOK(h)'
<1>0. /\ CallbackOK(h)
      /\ \A l \in Logins : started[l] # None => started'[l] = started[l]
  BY Grows DEF Flow
<1>1. CASE callback'[h] = callback[h]
  BY <1>1, CallbackFrame
<1>2. CASE callback'[h] = IdleCallback
  BY <1>2 DEF CallbackOK, IdleCallback, Holding
<1>3. ASSUME NEW l \in Logins, Deliver(h, l) PROVE CallbackOK(h)'
  <2>1. /\ callback'[h] = [stage |-> "finding", login |-> l, now |-> clock,
                           row |-> None]
        /\ started[l] # None
    BY <1>3 DEF Deliver, TypeOK
  <2> QED
    BY <1>0, <2>1 DEF CallbackOK, Holding
<1>4. CASE FindState(h)
  <2> DEFINE l == callback[h].login
  <2>1. l \in Logins /\ started[l] # None
    BY <1>0, <1>4 DEF FindState, CallbackOK
  <2>2. CASE Live(states[l], callback[h].now)
    <3>1. callback'[h] = [stage |-> "found", login |-> l, now |-> 0,
                          row |-> states[l]]
      BY <1>4, <2>2 DEF FindState, TypeOK
    <3>2. states[l] \in StateRows /\ states[l].did = started[l]
      BY <2>1, <2>2 DEF Live, Flow, TypeOK
    <3> QED
      BY <1>0, <2>1, <3>1, <3>2 DEF CallbackOK, Holding
  <2>3. CASE ~Live(states[l], callback[h].now)
    BY <1>2, <1>4, <2>3 DEF FindState, TypeOK
  <2> QED
    BY <2>2, <2>3
<1>5. CASE DeleteState(h)
  <2>1. callback'[h] = [stage |-> "exchanging", login |-> callback[h].login,
                        now |-> 0, row |-> callback[h].row]
    BY <1>5 DEF DeleteState, TypeOK
  <2> QED
    BY <1>0, <1>5, <2>1 DEF DeleteState, CallbackOK, Holding
<1>6. CASE Exchange(h)
  <2>1. \/ callback'[h] = IdleCallback
        \/ callback'[h] = [stage |-> "creating", login |-> callback[h].login,
                           now |-> clock, row |-> callback[h].row]
    BY <1>6 DEF Exchange, TypeOK
  <2>2. redeemed' = redeemed \cup {callback[h].login}
    BY <1>6 DEF Exchange
  <2> QED
    BY <1>0, <1>2, <1>6, <2>1, <2>2 DEF Exchange, CallbackOK, Holding
<1>7. CASE CreateSession(h) \/ CallbackEnds(h)
  BY <1>2, <1>7 DEF CreateSession, CallbackEnds, TypeOK
<1> QED
  BY <1>1, <1>3, <1>4, <1>5, <1>6, <1>7, OneCallbackMoves DEF CallbackStep

\* Requests and logouts name sessions that were issued.
LEMMA RequestsStep ==
    ASSUME TypeOK, Flow, [Next]_vars
    PROVE  /\ \A r \in Requests :
                 request'[r].stage # "idle" => request'[r].session \in 1..issued'
           /\ ended' \subseteq 1..issued'
<1>0. /\ issued \in Nat /\ issued' \in {issued, issued + 1}
      /\ 1..issued \subseteq 1..issued'
  BY Grows
<1>1. ended' \subseteq 1..issued'
  <2>1. ASSUME NEW s \in Sessions, Logout(s) PROVE ended' \subseteq 1..issued'
    <3>1. s \in 1..issued /\ ended' = ended \cup {s}
      BY <1>0, <2>1, OAuthAssumption DEF Logout, Sessions
    <3> QED
      BY <1>0, <3>1 DEF Flow
  <2>2. CASE UNCHANGED ended
    BY <1>0, <2>2 DEF Flow
  <2>3. UNCHANGED ended \/ \E s \in Sessions : Logout(s)
    BY DEF Next, Tick, Login, CallbackStep, Deliver, FindState, DeleteState,
       Exchange, CreateSession, CallbackEnds, RequestStep, Ask, FindSession,
       Touch, RequestEnds, CleanerStep, Wake, CleanSessions, CleanStates,
       CleanStatesFails, history, vars
  <2> QED
    BY <2>1, <2>2, <2>3
<1>2. ASSUME NEW r \in Requests, request'[r].stage # "idle"
      PROVE  request'[r].session \in 1..issued'
  <2>1. CASE request'[r] = request[r]
    BY <1>0, <1>2, <2>1 DEF Flow
  <2>2. request'[r] # IdleRequest
    BY <1>2 DEF IdleRequest
  <2>3. ASSUME NEW q \in Requests, RequestStep(q)
        PROVE  \/ request'[r] = request[r]
               \/ /\ r = q /\ request[r].stage # "idle"
                  /\ request'[r].session = request[r].session
    <3>1. CASE FindSession(q)
      BY <2>2, <3>1 DEF FindSession, TypeOK
    <3>2. CASE Touch(q) \/ RequestEnds(q)
      BY <2>2, <3>2 DEF Touch, RequestEnds, TypeOK
    <3> QED
      BY <2>3, <3>1, <3>2 DEF RequestStep
  <2>4. ASSUME NEW q \in Requests, NEW s \in Sessions, Ask(q, s)
        PROVE  request'[r] = request[r] \/ request'[r].session \in 1..issued
    BY <1>0, <2>4 DEF Ask, Sessions, TypeOK
  <2>5. \/ UNCHANGED request
        \/ \E q \in Requests : RequestStep(q) \/ \E s \in Sessions : Ask(q, s)
    BY DEF Next, Tick, Login, CallbackStep, Deliver, FindState, DeleteState,
       Exchange, CreateSession, CallbackEnds, Logout, CleanerStep, Wake,
       CleanSessions, CleanStates, CleanStatesFails, vars
  <2> QED
    BY <1>0, <2>1, <2>3, <2>4, <2>5 DEF Flow
<1> QED
  BY <1>1, <1>2

\* Where the rows of atrg_sessions come from: a row is one that was there, of
\* the same user and login, or the new one of a callback.
LEMMA SessionRowMoves ==
    ASSUME TypeOK, Flow, [Next]_vars, NEW s \in Sessions, sessions'[s] # None
    PROVE  \/ /\ sessions[s] # None
              /\ sessions'[s].did = sessions[s].did
              /\ sessions'[s].login = sessions[s].login
           \/ \E h \in Callbacks :
                 /\ CreateSession(h) /\ s = issued + 1
                 /\ sessions'[s].did = callback[h].row.did
                 /\ sessions'[s].login = callback[h].login
<1> DEFINE Kept == /\ sessions[s] # None
                   /\ sessions'[s].did = sessions[s].did
                   /\ sessions'[s].login = sessions[s].login
<1>1. CASE sessions'[s] = sessions[s]
  BY <1>1
<1>2. ASSUME NEW h \in Callbacks, CreateSession(h), sessions'[s] # sessions[s]
      PROVE  /\ s = issued + 1
             /\ sessions'[s].did = callback[h].row.did
             /\ sessions'[s].login = callback[h].login
  <2> DEFINE new == [did |-> callback[h].row.did, login |-> callback[h].login,
                     lastUsed |-> clock, expires |-> callback[h].now + TokenTtl]
  <2>1. sessions' = [sessions EXCEPT ![issued + 1] = new]
    BY <1>2 DEF CreateSession
  <2>2. s = issued + 1 /\ sessions'[s] = new
    BY <1>2, <2>1 DEF TypeOK
  <2> QED
    BY <2>2
<1>3. ASSUME NEW r \in Requests, Touch(r) PROVE Kept
  <2>1. sessions' = [sessions EXCEPT ![request[r].session] =
                        IF sessions[request[r].session] = None THEN None
                        ELSE [sessions[request[r].session]
                                EXCEPT !.lastUsed = request[r].now]]
    BY <1>3 DEF Touch
  <2>2. CASE s = request[r].session
    <3>1. /\ sessions[s] # None
          /\ sessions'[s] = [sessions[s] EXCEPT !.lastUsed = request[r].now]
      BY <2>1, <2>2 DEF TypeOK
    <3>2. sessions[s] \in SessionRows
      BY <3>1 DEF TypeOK
    <3> QED
      BY <3>1, <3>2 DEF SessionRows
  <2>3. CASE s # request[r].session
    BY <1>1, <2>1, <2>3 DEF TypeOK
  <2> QED
    BY <2>2, <2>3
<1>4. ASSUME NEW q \in Sessions, Logout(q) PROVE Kept
  BY <1>1, <1>4 DEF Logout, TypeOK
<1>5. CASE CleanSessions
  <2>1. sessions \in [Sessions -> SessionRows \cup {None}]
    BY DEF TypeOK
  <2>2. Swept(sessions, cleaner.now)[s] \in {sessions[s], None}
    BY <2>1, SweptType
  <2> QED
    BY <1>1, <1>5, <2>2 DEF CleanSessions
<1>6. \/ UNCHANGED sessions \/ CleanSessions
      \/ \E h \in Callbacks : CreateSession(h)
      \/ \E r \in Requests : Touch(r)
      \/ \E q \in Sessions : Logout(q)
  BY DEF Next, Tick, Login, CallbackStep, Deliver, FindState, DeleteState,
     Exchange, CallbackEnds, RequestStep, Ask, FindSession, RequestEnds,
     CleanerStep, Wake, CleanStates, CleanStatesFails, vars
<1> HIDE DEF Kept
<1>7. sessions'[s] = sessions[s] => Kept
  BY <1>1 DEF Kept
<1> QED
  BY <1>2, <1>3, <1>4, <1>5, <1>6, <1>7 DEF Kept

LEMMA SessionsStep ==
    ASSUME TypeOK, Flow, [Next]_vars, NEW s \in Sessions, sessions'[s] # None
    PROVE  /\ s <= issued'
           /\ started'[sessions'[s].login] # None
           /\ sessions'[s].login \in redeemed'
<1>0. /\ \A l \in Logins : started[l] # None => started'[l] = started[l]
      /\ redeemed \subseteq redeemed'
      /\ issued \in Nat /\ issued' \in {issued, issued + 1}
  BY Grows
<1>1. CASE sessions[s] # None /\ sessions'[s].login = sessions[s].login
  <2>1. sessions[s].login \in Logins
    BY <1>1 DEF TypeOK, SessionRows
  <2>2. s <= issued /\ s \in Nat
    BY <1>1, OAuthAssumption DEF Flow, Sessions
  <2> QED
    BY <1>0, <1>1, <2>1, <2>2 DEF Flow
<1>2. ASSUME NEW h \in Callbacks, CreateSession(h), s = issued + 1,
             sessions'[s].login = callback[h].login
      PROVE  /\ s <= issued'
             /\ started'[sessions'[s].login] # None
             /\ sessions'[s].login \in redeemed'
  <2>1. /\ callback[h].login \in Logins /\ started[callback[h].login] # None
        /\ callback[h].login \in redeemed
    BY <1>2 DEF CreateSession, Flow, CallbackOK
  <2>2. s <= issued'
    BY <1>0, <1>2 DEF CreateSession
  <2> QED
    BY <1>0, <1>2, <2>1, <2>2
<1> QED
  BY <1>1, <1>2, SessionRowMoves

LEMMA FlowStep == TypeOK /\ Flow /\ [Next]_vars => Flow'
<1> SUFFICES ASSUME TypeOK, Flow, [Next]_vars PROVE Flow'
  OBVIOUS
<1>1. \A l \in Logins :
         states'[l] # None => started'[l] # None /\ states'[l].did = started'[l]
  BY StatesStep
<1>2. \A h \in Callbacks : CallbackOK(h)'
  BY CallbacksStep
<1>3. /\ \A r \in Requests :
             request'[r].stage # "idle" => request'[r].session \in 1..issued'
      /\ ended' \subseteq 1..issued'
  BY RequestsStep
<1>4. \A s \in Sessions :
         sessions'[s] # None => /\ s <= issued'
                               /\ started'[sessions'[s].login] # None
                               /\ sessions'[s].login \in redeemed'
  BY SessionsStep
<1> QED
  BY <1>1, <1>2, <1>3, <1>4 DEF Flow

LEMMA FlowInvariant == Spec => [](TypeOK /\ Flow)
<1>1. Init => TypeOK /\ Flow
  <2> SUFFICES ASSUME Init PROVE TypeOK /\ Flow
    OBVIOUS
  <2>0. 0 \in Times /\ 0 \in 0..MaxLogins /\ 0 \in 0..MaxSessions
    BY OAuthAssumption DEF Times
  <2>1. \A h \in Callbacks : callback[h] = IdleCallback
    BY DEF Init
  <2>2. \A r \in Requests : request[r] = IdleRequest
    BY DEF Init
  <2>3. callback \in [Callbacks -> [stage : CallbackStages, login : 0..MaxLogins,
                                    now : Times, row : StateRows \cup {None}]]
    BY <2>0 DEF Init, IdleCallback, CallbackStages
  <2>4. request \in [Requests -> [stage : RequestStages,
                                  session : 0..MaxSessions, now : Times]]
    BY <2>0 DEF Init, IdleRequest, RequestStages
  <2>5. cleaner \in [stage : CleanerStages, now : Times]
    BY <2>0 DEF Init, CleanerStages
  <2>6. TypeOK
    BY <2>0, <2>3, <2>4, <2>5 DEF Init, TypeOK
  <2>7. Flow
    BY <2>1, <2>2 DEF Init, Flow, CallbackOK, IdleCallback, IdleRequest, Holding
  <2> QED
    BY <2>6, <2>7
<1>2. TypeOK /\ Flow /\ [Next]_vars => (TypeOK /\ Flow)'
  BY TypeStep, FlowStep
<1> QED
  BY <1>1, <1>2, PTL DEF Spec

-----------------------------------------------------------------------------
(* Theorems *)

\* The variables keep their types.
THEOREM OAuthTypeCorrect == Spec => []TypeOK
  BY FlowInvariant, PTL

\* Whatever the interleaving of logins, callbacks, requests and cleanups, a
\* session bears the DID that the login it came from resolved.
THEOREM SessionsBelongToTheirLogins == Spec => []SessionIsItsLogins
<1>1. Init => SessionIsItsLogins
  BY DEF Init, SessionIsItsLogins
<1>2. TypeOK /\ Flow /\ SessionIsItsLogins /\ [Next]_vars => SessionIsItsLogins'
  <2> SUFFICES ASSUME TypeOK, Flow, SessionIsItsLogins, [Next]_vars,
                      NEW s \in Sessions, sessions'[s] # None
               PROVE  sessions'[s].did = started'[sessions'[s].login]
    BY DEF SessionIsItsLogins
  <2>0. \A l \in Logins : started[l] # None => started'[l] = started[l]
    BY Grows
  <2>1. CASE /\ sessions[s] # None
             /\ sessions'[s].did = sessions[s].did
             /\ sessions'[s].login = sessions[s].login
    <3>1. sessions[s].login \in Logins /\ started[sessions[s].login] # None
      BY <2>1 DEF TypeOK, Flow, SessionRows
    <3> QED
      BY <2>0, <2>1, <3>1 DEF SessionIsItsLogins
  <2>2. ASSUME NEW h \in Callbacks, CreateSession(h),
               sessions'[s].did = callback[h].row.did,
               sessions'[s].login = callback[h].login
        PROVE  sessions'[s].did = started'[sessions'[s].login]
    <3>1. /\ callback[h].login \in Logins /\ started[callback[h].login] # None
          /\ callback[h].row.did = started[callback[h].login]
      BY <2>2 DEF CreateSession, Flow, CallbackOK, Holding
    <3> QED
      BY <2>0, <2>2, <3>1
  <2> QED
    BY <2>1, <2>2, SessionRowMoves
<1> QED
  BY <1>1, <1>2, FlowInvariant, PTL DEF Spec

\* No request in flight brings a session back that was logged out.
THEOREM LoggedOutStaysOut == Spec => []LogoutIsFinal
<1>1. Init => LogoutIsFinal
  BY DEF Init, LogoutIsFinal
<1>2. TypeOK /\ Flow /\ LogoutIsFinal /\ [Next]_vars => LogoutIsFinal'
  <2> SUFFICES ASSUME TypeOK, Flow, LogoutIsFinal, [Next]_vars,
                      NEW s \in ended', sessions'[s] # None
               PROVE  FALSE
    BY DEF LogoutIsFinal
  <2>0. issued \in Nat /\ s \in Sessions
    BY Grows, TypeStep DEF TypeOK
  <2>1. CASE s \in ended
    <3>1. s \in 1..issued /\ sessions[s] = None
      BY <2>1 DEF Flow, LogoutIsFinal
    <3>2. s # issued + 1
      BY <2>0, <3>1
    <3> QED
      BY <2>0, <3>1, <3>2, SessionRowMoves
  <2>2. CASE s \notin ended
    <3>1. PICK q \in Sessions : Logout(q)
      BY <2>2 DEF Next, Tick, Login, CallbackStep, Deliver, FindState,
         DeleteState, Exchange, CreateSession, CallbackEnds, RequestStep, Ask,
         FindSession, Touch, RequestEnds, CleanerStep, Wake, CleanSessions,
         CleanStates, CleanStatesFails, history, vars
    <3>2. s = q /\ sessions'[q] = None
      BY <2>2, <3>1 DEF Logout, TypeOK
    <3> QED
      BY <3>2
  <2> QED
    BY <2>1, <2>2
<1> QED
  BY <1>1, <1>2, FlowInvariant, PTL DEF Spec

\* A handler that is about to create a session was so before, or it has just
\* redeemed a code that nobody had redeemed.
LEMMA CreatingMoves ==
    ASSUME TypeOK, [Next]_vars, NEW h \in Callbacks,
           callback'[h].stage = "creating"
    PROVE  /\ callback'[h].login = callback[h].login
           /\ ~CreateSession(h)
           /\ \/ callback'[h] = callback[h]
              \/ /\ Exchange(h) /\ callback[h].login \notin redeemed
                 /\ UNCHANGED sessions
<1>1. callback'[h] # IdleCallback
  BY DEF IdleCallback
<1>2. ~CreateSession(h)
  BY <1>1 DEF CreateSession, TypeOK
<1>3. ASSUME NEW l \in Logins PROVE ~Deliver(h, l)
  BY DEF Deliver, TypeOK
<1>4. ~FindState(h)
  BY <1>1 DEF FindState, TypeOK
<1>5. ~DeleteState(h)
  BY DEF DeleteState, TypeOK
<1>6. ~CallbackEnds(h)
  BY <1>1 DEF CallbackEnds, TypeOK
<1>7. CASE Exchange(h)
  <2>1. callback'[h].login = callback[h].login
    BY <1>1, <1>7 DEF Exchange, TypeOK
  <2> QED
    BY <1>2, <1>7, <2>1 DEF Exchange
<1>8. callback'[h] = callback[h] \/ Exchange(h)
  BY <1>2, <1>3, <1>4, <1>5, <1>6, OneCallbackMoves DEF CallbackStep
<1> QED
  BY <1>2, <1>7, <1>8

LEMMA UniqueStep ==
    TypeOK /\ Flow /\ Unique /\ OneSessionPerLogin /\ [Next]_vars
      => Unique' /\ OneSessionPerLogin'
<1> SUFFICES ASSUME TypeOK, Flow, Unique, OneSessionPerLogin, [Next]_vars
             PROVE  Unique' /\ OneSessionPerLogin'
  OBVIOUS
<1>0. issued \in Nat
  BY Grows
<1>1. ASSUME NEW h \in Callbacks, NEW k \in Callbacks,
             callback'[h].stage = "creating", callback'[k].stage = "creating",
             callback'[h].login = callback'[k].login
      PROVE  h = k
  <2>1. callback[h].login = callback[k].login
    BY <1>1, CreatingMoves
  <2>2. CASE callback'[h] = callback[h] /\ callback'[k] = callback[k]
    BY <1>1, <2>2 DEF Unique
  <2>3. CASE callback'[h] # callback[h] /\ callback'[k] # callback[k]
    BY <2>3, OneCallbackMoves
  <2>4. CASE callback'[h] = callback[h] /\ callback'[k] # callback[k]
    <3>1. callback[h].login \in redeemed
      BY <1>1, <2>4 DEF Flow, CallbackOK
    <3>2. callback[k].login \notin redeemed
      BY <1>1, <2>4, CreatingMoves
    <3> QED
      BY <2>1, <3>1, <3>2
  <2>5. CASE callback'[h] # callback[h] /\ callback'[k] = callback[k]
    <3>1. callback[k].login \in redeemed
      BY <1>1, <2>5 DEF Flow, CallbackOK
    <3>2. callback[h].login \notin redeemed
      BY <1>1, <2>5, CreatingMoves
    <3> QED
      BY <2>1, <3>1, <3>2
  <2> QED
    BY <2>2, <2>3, <2>4, <2>5
<1>2. ASSUME NEW h \in Callbacks, NEW s \in Sessions,
             callback'[h].stage = "creating", sessions'[s] # None
      PROVE  sessions'[s].login # callback'[h].login
  <2>1. callback'[h].login = callback[h].login /\ ~CreateSession(h)
    BY <1>2, CreatingMoves
  <2>2. CASE callback'[h] = callback[h]
    <3>1. CASE sessions[s] # None /\ sessions'[s].login = sessions[s].login
      BY <1>2, <2>2, <3>1 DEF Unique
    <3>2. ASSUME NEW k \in Callbacks, CreateSession(k),
                 sessions'[s].login = callback[k].login
          PROVE  sessions'[s].login # callback'[h].login
      <4>1. callback[k].stage = "creating" /\ callback[h].stage = "creating"
        BY <1>2, <2>2, <3>2 DEF CreateSession
      <4>2. h # k
        BY <2>1, <3>2
      <4> QED
        BY <2>1, <3>2, <4>1, <4>2 DEF Unique
    <3> QED
      BY <1>2, <3>1, <3>2, SessionRowMoves
  <2>3. CASE callback'[h] # callback[h]
    <3>1. callback[h].login \notin redeemed /\ UNCHANGED sessions
      BY <1>2, <2>3, CreatingMoves
    <3>2. sessions'[s].login \in redeemed
      BY <1>2, <3>1 DEF Flow
    <3> QED
      BY <2>1, <3>1, <3>2
  <2> QED
    BY <2>2, <2>3
<1>3. ASSUME NEW s \in Sessions, NEW t \in Sessions,
             sessions'[s] # None, sessions'[t] # None,
             sessions'[s].login = sessions'[t].login
      PROVE  s = t
  <2> DEFINE Kept(q) == sessions[q] # None /\ sessions'[q].login = sessions[q].login
             Made(q) == \E h \in Callbacks :
                           /\ CreateSession(h) /\ q = issued + 1
                           /\ sessions'[q].login = callback[h].login
  <2>1. (Kept(s) \/ Made(s)) /\ (Kept(t) \/ Made(t))
    BY <1>3, SessionRowMoves
  <2>2. ASSUME NEW q \in Sessions, NEW u \in Sessions, Kept(q), Made(u)
        PROVE  sessions'[q].login # sessions'[u].login
    <3>1. PICK h \in Callbacks : /\ CreateSession(h)
                                 /\ sessions'[u].login = callback[h].login
      BY <2>2
    <3>2. callback[h].stage = "creating"
      BY <3>1 DEF CreateSession
    <3> QED
      BY <2>2, <3>1, <3>2 DEF Unique
  <2>3. CASE Kept(s) /\ Kept(t)
    BY <1>3, <2>3 DEF OneSessionPerLogin
  <2>4. CASE Made(s) /\ Made(t)
    BY <2>4
  <2> HIDE DEF Kept, Made
  <2> QED
    BY <1>3, <2>1, <2>2, <2>3, <2>4
<1>4. Unique'
  BY <1>1, <1>2 DEF Unique
<1>5. OneSessionPerLogin'
  BY <1>3 DEF OneSessionPerLogin
<1> QED
  BY <1>4, <1>5

\* However often and however concurrently the callback of a login arrives, it
\* leaves one session at most.
THEOREM LoginYieldsOneSession == Spec => []OneSessionPerLogin
<1>1. Init => Unique /\ OneSessionPerLogin
  BY DEF Init, Unique, OneSessionPerLogin, IdleCallback
<1>2. TypeOK /\ Flow /\ Unique /\ OneSessionPerLogin /\ [Next]_vars
        => Unique' /\ OneSessionPerLogin'
  BY UniqueStep
<1> QED
  BY <1>1, <1>2, FlowInvariant, PTL DEF Spec

-----------------------------------------------------------------------------
(* The cleanup *)

\* The time the cleanup deletes with was read before.
CleanerIsBehind == cleaner.now <= clock

LEMMA CleanerInvariant == Spec => []CleanerIsBehind
<1>1. Init => CleanerIsBehind
  BY DEF Init, CleanerIsBehind
<1>2. TypeOK /\ CleanerIsBehind /\ [Next]_vars => CleanerIsBehind'
  <2> SUFFICES ASSUME TypeOK, CleanerIsBehind, [Next]_vars PROVE cleaner'.now <= clock'
    BY DEF CleanerIsBehind
  <2>1. clock \in Nat /\ cleaner.now \in Nat /\ cleaner.now <= clock
    BY OAuthAssumption DEF TypeOK, Times, CleanerIsBehind
  <2>2. cleaner' = cleaner \/ cleaner'.now \in {clock, 0}
    <3>1. ASSUME CleanerStep PROVE cleaner'.now \in {clock, 0}
      BY <3>1 DEF CleanerStep, Wake, CleanSessions, CleanStates, CleanStatesFails
    <3>2. CleanerStep \/ UNCHANGED cleaner
      BY DEF Next, Tick, Login, CallbackStep, Deliver, FindState, DeleteState, Exchange,
         CreateSession, CallbackEnds, RequestStep, Ask, FindSession, Touch, RequestEnds,
         Logout, vars
    <3> QED
      BY <3>1, <3>2
  <2>3. clock' = clock \/ clock' = clock + 1
    BY DEF Next, Tick, Login, CallbackStep, Deliver, FindState, DeleteState, Exchange,
       CreateSession, CallbackEnds, RequestStep, Ask, FindSession, Touch, RequestEnds,
       Logout, CleanerStep, Wake, CleanSessions, CleanStates, CleanStatesFails, vars
  <2> QED
    BY <2>1, <2>2, <2>3
<1> QED
  BY <1>1, <1>2, FlowInvariant, PTL DEF Spec

\* A live session that a step does not log out is still there afterwards.
LEMMA LiveSessionsStay ==
    ASSUME TypeOK, Flow, CleanerIsBehind, [Next]_vars,
           NEW s \in Sessions, Live(sessions[s], clock), s \notin ended'
    PROVE  sessions'[s] # None
<1>1. /\ sessions[s] \in SessionRows /\ sessions[s] # None
      /\ sessions[s].expires > clock
  BY DEF TypeOK, Live
<1>2. \A row \in SessionRows : row # None
  BY NoneAssumption
<1>3. CASE UNCHANGED sessions
  BY <1>1, <1>3
<1>4. CASE CleanSessions
  <2>1. /\ clock \in Nat /\ cleaner.now \in Nat /\ cleaner.now <= clock
        /\ sessions[s].expires \in Nat
    BY <1>1, OAuthAssumption DEF TypeOK, Times, SessionRows, CleanerIsBehind
  <2>2. sessions[s].expires > cleaner.now
    BY <1>1, <2>1
  <2>3. Live(sessions[s], cleaner.now)
    BY <1>1, <2>2 DEF Live
  <2>4. s \in DOMAIN sessions
    BY DEF TypeOK
  <2>5. Swept(sessions, cleaner.now)[s] = sessions[s]
    BY <2>3, <2>4 DEF Swept
  <2> QED
    BY <1>1, <1>4, <2>5 DEF CleanSessions
<1>5. ASSUME NEW h \in Callbacks, CreateSession(h) PROVE sessions'[s] # None
  <2> DEFINE new == [did |-> callback[h].row.did, login |-> callback[h].login,
                     lastUsed |-> clock, expires |-> callback[h].now + TokenTtl]
  <2>1. sessions' = [sessions EXCEPT ![issued + 1] = new]
    BY <1>5 DEF CreateSession
  <2>2. new \in SessionRows
    <3>1. /\ callback[h].login \in Logins /\ callback[h].row.did \in Users
          /\ callback[h].now \in Times
      BY <1>5 DEF CreateSession, Flow, CallbackOK, Holding, TypeOK, StateRows
    <3>2. /\ callback[h].now + TokenTtl \in 0..(MaxTime + TokenTtl)
          /\ clock \in Times
      BY <3>1, OAuthAssumption DEF Times, TypeOK
    <3> QED
      BY <3>1, <3>2 DEF SessionRows
  <2>3. new # None
    BY <1>2, <2>2
  <2> HIDE DEF new
  <2>4. sessions'[s] \in {sessions[s], new}
    BY <2>1 DEF TypeOK
  <2> QED
    BY <1>1, <2>3, <2>4
<1>6. ASSUME NEW r \in Requests, Touch(r) PROVE sessions'[s] # None
  <2>1. CASE s = request[r].session
    <3>1. sessions'[s] = [sessions[s] EXCEPT !.lastUsed = request[r].now]
      BY <1>1, <1>6, <2>1 DEF Touch, TypeOK
    <3>2. request[r].now \in Times
      BY DEF TypeOK
    <3>3. sessions'[s] \in SessionRows
      BY <1>1, <3>1, <3>2 DEF SessionRows
    <3> QED
      BY <1>2, <3>3
  <2>2. CASE s # request[r].session
    BY <1>1, <1>6, <2>2 DEF Touch, TypeOK
  <2> QED
    BY <2>1, <2>2
<1>7. ASSUME NEW q \in Sessions, Logout(q) PROVE sessions'[s] # None
  <2>1. s # q
    BY <1>7 DEF Logout
  <2> QED
    BY <1>1, <1>7, <2>1 DEF Logout, TypeOK
<1>8. \/ UNCHANGED sessions \/ CleanSessions
      \/ \E h \in Callbacks : CreateSession(h)
      \/ \E r \in Requests : Touch(r)
      \/ \E q \in Sessions : Logout(q)
  BY DEF Next, Tick, Login, CallbackStep, Deliver, FindState, DeleteState,
     Exchange, CallbackEnds, RequestStep, Ask, FindSession, RequestEnds,
     CleanerStep, Wake, CleanStates, CleanStatesFails, vars
<1> QED
  BY <1>3, <1>4, <1>5, <1>6, <1>7, <1>8

\* SessionsLast: the cleanup, with a time it read before, removes no session that is
\* still live (spawn_cleanup_task); one lasts until it expires or is logged out.
THEOREM LiveSessionsLast == Spec => SessionsLast
<1>1. TypeOK /\ Flow /\ CleanerIsBehind /\ [Next]_vars
        => [ \A s \in Sessions :
               Live(sessions[s], clock) /\ s \notin ended' => sessions'[s] # None ]_vars
  BY LiveSessionsStay
<1> QED
  BY <1>1, FlowInvariant, CleanerInvariant, PTL DEF Spec, SessionsLast
=============================================================================
