--------------------------- MODULE RateLimitedApp ---------------------------
(***************************************************************************)
(* The rate limiter as crates/atrg-core/src/app.rs puts it in front of the *)
(* application: which bucket a request is counted in.  A client is its IP. *)
(***************************************************************************)
EXTENDS RateLimiter

CONSTANTS Clients, Localhost

VARIABLES served, refused    \* each client's requests so far

appVars == <<vars, served, refused>>

AppInit ==
    /\ Init
    /\ served = [c \in Clients |-> 0]
    /\ refused = [c \in Clients |-> 0]

\* The addresses that axum::serve attaches to a client's requests: it is given
\* the router itself, not a make-service with connection information.
ConnectInfo(c) == {}

\* The address the middleware counts the request under.
Bucket(c) == IF ConnectInfo(c) = {} THEN Localhost ELSE CHOOSE ip \in ConnectInfo(c) : TRUE

Request(c) ==
    \/ /\ Allow(Bucket(c))
       /\ served' = [served EXCEPT ![c] = @ + 1] /\ UNCHANGED refused
    \/ /\ Refuse(Bucket(c))
       /\ refused' = [refused EXCEPT ![c] = @ + 1] /\ UNCHANGED served

AppNext ==
    \/ (Tick \/ Cleanup) /\ UNCHANGED <<served, refused>>
    \/ \E c \in Clients : Request(c)

AppSpec == AppInit /\ [][AppNext]_appVars

-----------------------------------------------------------------------------
(* Property *)

\* "Per-IP token-bucket rate limiter" (rate_limit.rs): a client that has not
\* used up anything itself is not refused on account of other clients.
FirstRequestIsServed ==
    \A c \in Clients : refused[c] > 0 => served[c] > 0
=============================================================================
