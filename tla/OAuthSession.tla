---------------------------- MODULE OAuthSession ----------------------------
(***************************************************************************)
(* The login flow and the session store of crates/atrg-auth.  A login      *)
(* stores an OAuth state and sends the browser to the user's PDS; the      *)
(* callback looks the state up, deletes it, redeems the code at the PDS,   *)
(* compares DIDs and creates a session; requests look sessions up and      *)
(* touch them; logout deletes one; a cleanup task sweeps what has expired. *)
(* Handlers run concurrently, every call to the database or to the PDS is  *)
(* a step, and a handler whose client goes away is dropped between two.    *)
(*                                                                         *)
(* Logins and sessions are numbered in the order in which their random     *)
(* identifiers are generated.                                              *)
(***************************************************************************)
EXTENDS Naturals, FiniteSets

CONSTANTS
    Users,         \* DIDs
    Callbacks,     \* handlers of GET /auth/callback
    Requests,      \* handlers of authenticated requests
    StateTtl,      \* login: 600 seconds
    TokenTtl,      \* expires_in of the token response
    None,          \* no row
    MaxLogins,     \* logins that are started (bound)
    MaxSessions,   \* sessions that are created (bound)
    MaxTime        \* last value of the clock (bound)

ASSUME OAuthAssumption ==
    /\ StateTtl \in Nat /\ TokenTtl \in Nat
    /\ MaxLogins \in Nat /\ MaxSessions \in Nat /\ MaxTime \in Nat

Logins == 1..MaxLogins
Sessions == 1..MaxSessions
Times == 0..MaxTime

\* A row of atrg_oauth_states, and one of atrg_sessions; login is history.
StateRows == [did : Users, expires : 0..(MaxTime + StateTtl)]
SessionRows == [did : Users, login : Logins, lastUsed : Times,
                expires : 0..(MaxTime + TokenTtl)]

ASSUME NoneAssumption == None \notin Users \cup StateRows \cup SessionRows

VARIABLES
    clock,        \* seconds since the epoch, as the server reads it
    \* The database.
    states,       \* atrg_oauth_states
    sessions,     \* atrg_sessions
    \* The PDS (external).
    redeemed,     \* logins whose authorization code was redeemed
    \* The handlers.
    callback,     \* per handler of the callback: its stage and what it read
    request,      \* per handler of a request: the same
    \* The cleanup task.
    cleaner,      \* its stage and the time it read
    \* History.
    started,      \* the DID each login resolved, in order
    issued,       \* the last session identifier generated
    ended,        \* sessions that were logged out
    accepted      \* how many callbacks used each login's state

vars == <<clock, states, sessions, redeemed, callback, request, cleaner,
          started, issued, ended, accepted>>
history == <<started, issued, ended, accepted>>

\* Idle handlers hold nothing.
IdleCallback == [stage |-> "idle", login |-> 0, now |-> 0, row |-> None]
IdleRequest == [stage |-> "idle", session |-> 0, now |-> 0]

Init ==
    /\ clock = 0
    /\ states = [l \in Logins |-> None]
    /\ sessions = [s \in Sessions |-> None]
    /\ redeemed = {}
    /\ callback = [h \in Callbacks |-> IdleCallback]
    /\ request = [r \in Requests |-> IdleRequest]
    /\ cleaner = [stage |-> "waiting", now |-> 0]
    /\ started = [l \in Logins |-> None]
    /\ issued = 0
    /\ ended = {}
    /\ accepted = [l \in Logins |-> 0]

\* A second passes.
Tick ==
    /\ clock < MaxTime
    /\ clock' = clock + 1
    /\ UNCHANGED <<states, sessions, redeemed, callback, request, cleaner,
                   history>>

\* A row that a query with this `now` still finds.
Live(row, now) == row # None /\ row.expires > now

-----------------------------------------------------------------------------
(* GET /auth/login *)

\* A state is saved once the handle is resolved and the PDS's metadata found;
\* everything that fails before leaves no trace.
Login ==
    \E l \in Logins, u \in Users :
        /\ started[l] = None
        /\ \A k \in 1..(l - 1) : started[k] # None
        /\ started' = [started EXCEPT ![l] = u]
        /\ states' = [states EXCEPT ![l] =
                         [did |-> u, expires |-> clock + StateTtl]]
        /\ UNCHANGED <<clock, sessions, redeemed, callback, request, cleaner,
                       issued, ended, accepted>>

-----------------------------------------------------------------------------
(* GET /auth/callback *)

\* A callback arrives, for the first time or again, with a code and a state;
\* find_oauth_state reads the clock.
Deliver(h, l) ==
    /\ callback[h].stage = "idle"
    /\ started[l] # None
    /\ callback' = [callback EXCEPT ![h] =
          [stage |-> "finding", login |-> l, now |-> clock, row |-> None]]
    /\ UNCHANGED <<clock, states, sessions, redeemed, request, cleaner, history>>

\* SELECT the state unless it has expired; without one the answer is a 400.
FindState(h) ==
    LET row == states[callback[h].login]
    IN  /\ callback[h].stage = "finding"
        /\ callback' = [callback EXCEPT ![h] =
              IF Live(row, @.now)
              THEN [stage |-> "found", login |-> @.login, now |-> 0, row |-> row]
              ELSE IdleCallback]
        /\ UNCHANGED <<clock, states, sessions, redeemed, request, cleaner,
                       history>>

\* DELETE the state; that no row is left to delete goes unnoticed.
DeleteState(h) ==
    /\ callback[h].stage = "found"
    /\ states' = [states EXCEPT ![callback[h].login] = None]
    /\ accepted' = [accepted EXCEPT ![callback[h].login] = @ + 1]
    /\ callback' = [callback EXCEPT ![h] =
          [stage |-> "exchanging", login |-> @.login, now |-> 0, row |-> @.row]]
    /\ UNCHANGED <<clock, sessions, redeemed, request, cleaner,
                   started, issued, ended>>

\* Mutant: the DIDs are not compared.
ExchangeUnchecked(h) ==
    /\ callback[h].stage = "exchanging"
    /\ callback[h].login \notin redeemed
    /\ redeemed' = redeemed \cup {callback[h].login}
    /\ \E sub \in Users :
          callback' = [callback EXCEPT ![h] =
             [stage |-> "creating", login |-> @.login, now |-> clock,
              row |-> [did |-> sub, expires |-> @.row.expires]]]
    /\ UNCHANGED <<clock, states, sessions, request, cleaner, history>>

\* The PDS redeems a code once, for whoever approved at its side; a DID other
\* than the one the login resolved ends the callback.  The time the session's
\* expiry counts from is read when the answer is there.
Exchange(h) ==
    /\ callback[h].stage = "exchanging"
    /\ callback[h].login \notin redeemed
    /\ redeemed' = redeemed \cup {callback[h].login}
    /\ \E sub \in Users :
          callback' = [callback EXCEPT ![h] =
             IF sub = @.row.did
             THEN [stage |-> "creating", login |-> @.login, now |-> clock,
                   row |-> @.row]
             ELSE IdleCallback]
    /\ UNCHANGED <<clock, states, sessions, request, cleaner, history>>

\* Mutant: the lifetime of a session is rounded up.
CreateLongerSession(h) ==
    /\ callback[h].stage = "creating"
    /\ issued < MaxSessions
    /\ issued' = issued + 1
    /\ sessions' = [sessions EXCEPT ![issued + 1] =
          [did |-> callback[h].row.did, login |-> callback[h].login,
           lastUsed |-> clock, expires |-> callback[h].now + TokenTtl + 1]]
    /\ callback' = [callback EXCEPT ![h] = IdleCallback]
    /\ UNCHANGED <<clock, states, redeemed, request, cleaner,
                   started, ended, accepted>>

\* Mutant: the INSERT is tried again after it succeeded.
CreateSessionAgain(h) ==
    /\ callback[h].stage = "creating"
    /\ issued < MaxSessions
    /\ issued' = issued + 1
    /\ sessions' = [sessions EXCEPT ![issued + 1] =
          [did |-> callback[h].row.did, login |-> callback[h].login,
           lastUsed |-> clock, expires |-> callback[h].now + TokenTtl]]
    /\ UNCHANGED <<clock, states, redeemed, callback, request, cleaner,
                   started, ended, accepted>>

\* INSERT the session, under an identifier of its own.
CreateSession(h) ==
    /\ callback[h].stage = "creating"
    /\ issued < MaxSessions
    /\ issued' = issued + 1
    /\ sessions' = [sessions EXCEPT ![issued + 1] =
          [did |-> callback[h].row.did, login |-> callback[h].login,
           lastUsed |-> clock, expires |-> callback[h].now + TokenTtl]]
    /\ callback' = [callback EXCEPT ![h] = IdleCallback]
    /\ UNCHANGED <<clock, states, redeemed, request, cleaner,
                   started, ended, accepted>>

\* A call fails, or the client goes away and the handler is dropped.  The PDS
\* may have redeemed the code all the same.
CallbackEnds(h) ==
    /\ callback[h].stage # "idle"
    /\ callback' = [callback EXCEPT ![h] = IdleCallback]
    /\ \/ UNCHANGED redeemed
       \/ /\ callback[h].stage = "exchanging"
          /\ redeemed' = redeemed \cup {callback[h].login}
    /\ UNCHANGED <<clock, states, sessions, request, cleaner, history>>

-----------------------------------------------------------------------------
(* Requests and logout *)

\* A request bears the identifier of a session; find_session reads the clock.
Ask(r, s) ==
    /\ request[r].stage = "idle"
    /\ s <= issued
    /\ request' = [request EXCEPT ![r] =
          [stage |-> "finding", session |-> s, now |-> clock]]
    /\ UNCHANGED <<clock, states, sessions, redeemed, callback, cleaner, history>>

\* SELECT the session unless it has expired; without one nobody is logged in.
FindSession(r) ==
    /\ request[r].stage = "finding"
    /\ request' = [request EXCEPT ![r] =
          IF Live(sessions[@.session], @.now)
          THEN [stage |-> "touching", session |-> @.session, now |-> clock]
          ELSE IdleRequest]
    /\ UNCHANGED <<clock, states, sessions, redeemed, callback, cleaner, history>>

\* Mutant: the touch writes a whole row.
TouchRestores(r) ==
    LET s == request[r].session
    IN  /\ request[r].stage = "touching"
        /\ sessions' = [sessions EXCEPT ![s] =
              IF @ = None
              THEN [did |-> started[1], login |-> 1,
                    lastUsed |-> request[r].now, expires |-> clock + TokenTtl]
              ELSE [@ EXCEPT !.lastUsed = request[r].now]]
        /\ request' = [request EXCEPT ![r] = IdleRequest]
        /\ UNCHANGED <<clock, states, redeemed, callback, cleaner, history>>

\* UPDATE last_used_at of the row, if it is still there; errors are ignored.
Touch(r) ==
    LET s == request[r].session
    IN  /\ request[r].stage = "touching"
        /\ sessions' = [sessions EXCEPT ![s] =
              IF @ = None THEN None ELSE [@ EXCEPT !.lastUsed = request[r].now]]
        /\ request' = [request EXCEPT ![r] = IdleRequest]
        /\ UNCHANGED <<clock, states, redeemed, callback, cleaner, history>>

\* A query fails, or the client goes away.
RequestEnds(r) ==
    /\ request[r].stage # "idle"
    /\ request' = [request EXCEPT ![r] = IdleRequest]
    /\ UNCHANGED <<clock, states, sessions, redeemed, callback, cleaner, history>>

\* POST /auth/logout deletes the session it is given, if there is one.
Logout(s) ==
    /\ s <= issued
    /\ sessions' = [sessions EXCEPT ![s] = None]
    /\ ended' = ended \cup {s}
    /\ UNCHANGED <<clock, states, redeemed, callback, request, cleaner,
                   started, issued, accepted>>

-----------------------------------------------------------------------------
(* The cleanup task *)

\* The interval ticks; cleanup_expired_sessions reads the clock.
Wake ==
    /\ cleaner.stage = "waiting"
    /\ cleaner' = [stage |-> "sessions", now |-> clock]
    /\ UNCHANGED <<clock, states, sessions, redeemed, callback, request, history>>

\* Mutant: the comparison is the wrong way round.
SweptReversed(table, now) ==
    [k \in DOMAIN table |-> IF Live(table[k], now) THEN None ELSE table[k]]

\* The rows that a DELETE with this `now` leaves in a table.
Swept(table, now) ==
    [k \in DOMAIN table |-> IF Live(table[k], now) THEN table[k] ELSE None]

\* Mutant: a failure ends the round.
CleanSessionsOrReturn ==
    /\ cleaner.stage = "sessions"
    /\ \/ /\ sessions' = Swept(sessions, cleaner.now)
          /\ cleaner' = [stage |-> "states", now |-> clock]
       \/ /\ UNCHANGED sessions
          /\ cleaner' = [stage |-> "waiting", now |-> 0]
    /\ UNCHANGED <<clock, states, redeemed, callback, request, history>>

\* DELETE the expired sessions, or fail with a warning; then read the clock
\* for the states.
CleanSessions ==
    /\ cleaner.stage = "sessions"
    /\ sessions' \in {sessions, Swept(sessions, cleaner.now)}
    /\ cleaner' = [stage |-> "states", now |-> clock]
    /\ UNCHANGED <<clock, states, redeemed, callback, request, history>>

\* DELETE the expired states.
CleanStates ==
    /\ cleaner.stage = "states"
    /\ states' = Swept(states, cleaner.now)
    /\ cleaner' = [stage |-> "waiting", now |-> 0]
    /\ UNCHANGED <<clock, sessions, redeemed, callback, request, history>>

\* The DELETE fails with a warning.
CleanStatesFails ==
    /\ cleaner.stage = "states"
    /\ cleaner' = [stage |-> "waiting", now |-> 0]
    /\ UNCHANGED <<clock, states, sessions, redeemed, callback, request, history>>

-----------------------------------------------------------------------------

CallbackStep(h) ==
    FindState(h) \/ DeleteState(h) \/ Exchange(h) \/ CreateSession(h)
                 \/ CallbackEnds(h)
RequestStep(r) == FindSession(r) \/ Touch(r) \/ RequestEnds(r)
CleanerStep == Wake \/ CleanSessions \/ CleanStates \/ CleanStatesFails

Next ==
    \/ Tick \/ Login
    \/ \E h \in Callbacks : CallbackStep(h) \/ \E l \in Logins : Deliver(h, l)
    \/ \E r \in Requests : RequestStep(r) \/ \E s \in Sessions : Ask(r, s)
    \/ \E s \in Sessions : Logout(s)
    \/ CleanerStep

Spec == Init /\ [][Next]_vars

\* The cleanup task is polled while the process lives, and the deletion of the
\* states does not fail every time; nothing is assumed of that of the sessions.
FairSpec == Spec /\ WF_vars(CleanerStep) /\ SF_vars(CleanStates)

-----------------------------------------------------------------------------
(* Properties *)

CallbackStages == {"idle", "finding", "found", "exchanging", "creating"}
RequestStages == {"idle", "finding", "touching"}
CleanerStages == {"waiting", "sessions", "states"}

\* Every variable has its type.
TypeOK ==
    /\ clock \in Times
    /\ states \in [Logins -> StateRows \cup {None}]
    /\ sessions \in [Sessions -> SessionRows \cup {None}]
    /\ redeemed \subseteq Logins
    /\ callback \in [Callbacks -> [stage : CallbackStages, login : 0..MaxLogins,
                                   now : Times, row : StateRows \cup {None}]]
    /\ request \in [Requests -> [stage : RequestStages,
                                 session : 0..MaxSessions, now : Times]]
    /\ cleaner \in [stage : CleanerStages, now : Times]
    /\ started \in [Logins -> Users \cup {None}]
    /\ issued \in 0..MaxSessions
    /\ ended \subseteq Sessions
    /\ accepted \in [Logins -> Nat]

\* Every session belongs to the DID that its login resolved, although the user
\* may approve as somebody else at the PDS and callbacks of several logins,
\* some of them delivered twice, run at once (callback, steps 1 to 5).
SessionIsItsLogins ==
    \A s \in Sessions :
        sessions[s] # None => sessions[s].did = started[sessions[s].login]

\* A login yields one session at most, however often its callback is
\* delivered: a state may be found twice, but its code is redeemed once.
OneSessionPerLogin ==
    \A s, t \in Sessions :
        (/\ sessions[s] # None /\ sessions[t] # None
         /\ sessions[s].login = sessions[t].login) => s = t

\* Logout is final: a request that found the session before it was deleted
\* and touches it afterwards does not bring it back (find_session, logout).
LogoutIsFinal == \A s \in ended : sessions[s] = None

\* A session lasts until it expires unless it is logged out: the cleanup, with
\* a time it read before, removes nothing that is still live.
SessionsLast ==
    [][ \A s \in Sessions :
          Live(sessions[s], clock) /\ s \notin ended' => sessions'[s] # None ]_vars

\* An expired state is deleted in the end, even if the deletion of the
\* sessions before it fails every time (spawn_cleanup_task).
ExpiredStatesGo ==
    \A l \in Logins :
        (states[l] # None /\ ~Live(states[l], clock)) ~> states[l] = None

\* "Delete the state immediately (one-time use)": one callback per login, at
\* most, gets past the state.
StateUsedOnce == \A l \in Logins : accepted[l] <= 1
=============================================================================
