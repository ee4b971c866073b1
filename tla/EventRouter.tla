----------------------------- MODULE EventRouter -----------------------------
(***************************************************************************)
(* The event router of crates/atrg-stream: the closure that build returns  *)
(* is the handler of the Jetstream dispatcher, which awaits it event by    *)
(* event.  The feed, and what becomes of it before the dispatcher and of   *)
(* its cursor after it, are module JetstreamConsumer.                      *)
(***************************************************************************)
EXTENDS Naturals, Sequences, FiniteSets, FiniteSetsExt

CONSTANTS
    Collections,
    MaxRoutes,    \* registrations of one router (bound)
    MaxEvents     \* events of the feed (bound)

Operations == {"create", "update", "delete"}
Route == [collection : Collections, operation : Operations \cup {"any"}]

\* A JetstreamEvent: its commit, if it has one.  The operation is whatever
\* string the relay sent.
Commit == [collection : Collections, operation : Operations \cup {"other"}]
Event == {[commit |-> {c}] : c \in Commit} \cup {[commit |-> {}]}

VARIABLES
    routes,       \* EventRouter::routes, in the order of registration
    taken,        \* the events the dispatcher has received
    at,           \* the route dispatch looks at next, 0 between two events
    alive,        \* the dispatcher task
    errors,       \* metrics.errors
    \* History.
    calls         \* handlers called: event, route and how the call ended

vars == <<routes, taken, at, alive, errors, calls>>

Init ==
    /\ routes = <<>> /\ taken = <<>> /\ at = 0 /\ alive = TRUE
    /\ errors = 0 /\ calls = <<>>

\* on_create, on_update, on_delete, on: before the router is built.
Register(route) ==
    /\ taken = <<>>
    /\ Len(routes) < MaxRoutes
    /\ routes' = Append(routes, route)
    /\ UNCHANGED <<taken, at, alive, errors, calls>>

\* The dispatcher takes an event.  Without a commit, or with an operation that
\* is not known, dispatch returns at once.
Dispatch(event) ==
    /\ alive /\ at = 0
    /\ Len(taken) < MaxEvents
    /\ taken' = Append(taken, event)
    /\ at' = IF \E c \in event.commit : c.operation \in Operations THEN 1 ELSE 0
    /\ UNCHANGED <<routes, alive, errors, calls>>

\* Mutant: a handler for all operations hides the others.
MatchesFirstOnly(route, c) ==
    /\ route.collection = c.collection /\ route.operation \in {"any", c.operation}
    /\ ~\E i \in 1..(at - 1) : routes[i] = [collection |-> c.collection, operation |-> "any"]

\* The condition of the loop of dispatch.
Matches(route, c) ==
    route.collection = c.collection /\ route.operation \in {"any", c.operation}

Current == taken[Len(taken)]
Matching ==
    {i \in at..Len(routes) : \E c \in Current.commit : Matches(routes[i], c)}

\* The next handler that matches is called and awaited.  An error leaves the
\* loop (`?`) and is counted by the dispatcher; a panic ends its task.
CallHandler ==
    /\ alive /\ at > 0
    /\ Matching # {}
    /\ LET i == Min(Matching)
       IN  \E outcome \in {"ok", "error", "panic"} :
             /\ calls' = Append(calls, [event |-> Len(taken), route |-> i, outcome |-> outcome])
             /\ at' = IF outcome = "ok" THEN i + 1 ELSE 0
             /\ errors' = IF outcome = "error" THEN errors + 1 ELSE errors
             /\ alive' = (outcome # "panic")
    /\ UNCHANGED <<routes, taken>>

\* The loop ends.
DispatchReturns ==
    /\ alive /\ at > 0
    /\ Matching = {}
    /\ at' = 0
    /\ UNCHANGED <<routes, taken, alive, errors, calls>>

Next ==
    \/ \E route \in Route : Register(route)
    \/ \E event \in Event : Dispatch(event)
    \/ CallHandler \/ DispatchReturns

Spec == Init /\ [][Next]_vars

-----------------------------------------------------------------------------
(* Properties *)

Subscribed(route, event) ==
    \E c \in event.commit :
        /\ route.collection = c.collection
        /\ \/ route.operation = c.operation
           \/ route.operation = "any" /\ c.operation # "other"

Earlier(c, d) == c.event < d.event \/ (c.event = d.event /\ c.route < d.route)

\* A handler is called at most once for an event, in the order of the events
\* and then of registration.  A handler that missed an event of its collection
\* and operation did so because an earlier handler failed: then the dispatcher
\* has counted an error for the event, or is dead.
NoHandlerMissesSilently ==
    /\ \A m, n \in DOMAIN calls : m < n => Earlier(calls[m], calls[n])
    /\ \A e \in DOMAIN taken, i \in DOMAIN routes :
           Subscribed(routes[i], taken[e]) /\ (e < Len(taken) \/ at = 0) =>
               \E n \in DOMAIN calls :
                   calls[n].event = e /\ (calls[n].route = i \/ calls[n].outcome # "ok")
    /\ errors + (IF alive THEN 0 ELSE 1) =
           Cardinality({calls[n].event : n \in {k \in DOMAIN calls : calls[k].outcome # "ok"}})
=============================================================================
