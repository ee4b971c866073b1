---------------------------- MODULE OAuthExchange ----------------------------
(***************************************************************************)
(* What the logins of crates/atrg-auth say to the outside: discovery of    *)
(* the authorization server a PDS delegates to, and the exchange of the    *)
(* code for tokens, with one retry for a DPoP nonce.  A callback may be    *)
(* delivered more than once, and two of them may pass the look-up of the   *)
(* state before either deletes it; each then runs an exchange of its own.  *)
(* An HTTP request with its answer is a step; it, or its answer, may get   *)
(* lost.  A PDS may delegate elsewhere at any time.  Users, sessions and   *)
(* the expiry of states are module OAuthSession.                           *)
(*                                                                         *)
(* The random values of a login (state, verifier, key) are the login       *)
(* itself; a server is its metadata document and endpoints.                *)
(***************************************************************************)
EXTENDS Naturals, Sequences, SequencesExt

CONSTANTS
    Logins,
    Callbacks,   \* requests to /auth/callback, each of one delivery
    Pds,         \* the users' PDS, which may be a server itself
    Servers,     \* authorization servers, Pds among them
    MaxMoves     \* changes of the delegation (bound)

VARIABLES
    \* The PDS and the servers (external).
    delegation,  \* authorization_servers, {} where the document is missing
    moves,
    issued,      \* codes: <<server, login>>
    redeemed,    \* the codes that were redeemed
    \* atrg.
    stage,       \* how far each login has come
    server,      \* the server it has discovered, in the row's token_endpoint
    states,      \* the logins whose row is in atrg_oauth_states
    callback,    \* what each callback is about to do, and what it holds
    tokens,      \* the callbacks that were given tokens
    \* History.
    sent,        \* the servers each callback sent its code to, in order
    lost         \* the callbacks that lost the answer with the tokens

vars == <<delegation, moves, issued, redeemed, stage, server, states, callback,
          tokens, sent, lost>>
external == <<delegation, moves, issued, redeemed>>
logins == <<stage, server>>
exchanges == <<callback, tokens, sent, lost>>

\* An entry of authorization_servers may be blank.
Blank == "blank"
Documents == {{}} \cup {{<<>>}} \cup {{<<s>>} : s \in Servers}
                  \cup {{<<Blank, s>>} : s \in Servers}

Idle == [at |-> "idle"]

Init ==
    /\ delegation \in Documents /\ moves = 0
    /\ issued = {} /\ redeemed = {}
    /\ stage = [l \in Logins |-> "start"]
    /\ server = [l \in Logins |-> Pds]
    /\ states = {}
    /\ callback = [c \in Callbacks |-> Idle]
    /\ tokens = {} /\ lost = {}
    /\ sent = [c \in Callbacks |-> <<>>]

Delegate(document) ==
    /\ moves < MaxMoves
    /\ moves' = moves + 1
    /\ delegation' = document
    /\ UNCHANGED <<issued, redeemed, logins, states, exchanges>>

Goto(l, next) == stage' = [stage EXCEPT ![l] = next]

-----------------------------------------------------------------------------
(* GET /auth/login *)

\* The first entry that is not blank; the PDS itself if there is none, or no
\* document.
Delegated ==
    LET named == UNION {ToSet(d) : d \in delegation} \ {Blank}
    IN  IF named = {} THEN Pds ELSE CHOOSE s \in named : TRUE

\* discover_authorization_server: an HTTP error counts as no document.
DiscoverServer(l) ==
    /\ stage[l] = "start"
    /\ Goto(l, "metadata")
    /\ server' = [server EXCEPT ![l] = Delegated]
    /\ UNCHANGED <<external, states, exchanges>>

\* fetch_authorization_server_metadata, then login saves the state and sends
\* the browser to the authorization endpoint.
FetchMetadata(l) ==
    /\ stage[l] = "metadata"
    /\ Goto(l, "authorize")
    /\ states' = states \cup {l}
    /\ UNCHANGED <<external, server, exchanges>>

\* No answer, an HTTP error or a document that does not parse; the user gives
\* up or declines.
LoginEnds(l) ==
    /\ stage[l] \in {"start", "metadata", "authorize"}
    /\ Goto(l, "failed")
    /\ UNCHANGED <<external, server, states, exchanges>>

\* The authorization server issues a code, for the browser to bring back.
Authorize(l) ==
    /\ stage[l] = "authorize"
    /\ issued' = issued \cup {<<server[l], l>>}
    /\ Goto(l, "approved")
    /\ UNCHANGED <<delegation, moves, redeemed, server, states, exchanges>>

-----------------------------------------------------------------------------
(* GET /auth/callback *)

\* Mutant: the server is discovered anew for the callback.
EndpointNow(l) == Delegated

\* The token endpoint stored with the state.
Endpoint(l) == server[l]

\* find_oauth_state
FindState(c, l) ==
    /\ callback[c] = Idle
    /\ stage[l] = "approved" /\ l \in states
    /\ callback' = [callback EXCEPT ![c] =
           [at |-> "delete", login |-> l, endpoint |-> Endpoint(l)]]
    /\ UNCHANGED <<external, logins, states, tokens, sent, lost>>

Reach(c, at) == callback' = [callback EXCEPT ![c].at = at]

\* delete_oauth_state, which says nothing of whether there was a row to delete.
DeleteState(c) ==
    /\ callback[c].at = "delete"
    /\ states' = states \ {callback[c].login}
    /\ Reach(c, "exchange")
    /\ UNCHANGED <<external, logins, tokens, sent, lost>>

\* A query or a proof fails, or the client goes away between two requests.
CallbackEnds(c) ==
    /\ callback[c].at \in {"delete", "exchange", "retry"}
    /\ Reach(c, "ended")
    /\ UNCHANGED <<external, logins, states, tokens, sent, lost>>

-----------------------------------------------------------------------------
(* exchange_code_for_tokens *)

Posting(c) == callback[c].at \in {"exchange", "retry"}
Post(c) == sent' = [sent EXCEPT ![c] = Append(@, callback[c].endpoint)]
Code(c) == <<callback[c].endpoint, callback[c].login>>

\* The server redeems the code, and the answer arrives or does not.
Granted(c) ==
    /\ Posting(c)
    /\ Code(c) \in issued \ redeemed
    /\ Post(c)
    /\ redeemed' = redeemed \cup {Code(c)}
    /\ Reach(c, "ended")
    /\ \/ tokens' = tokens \cup {c} /\ UNCHANGED lost
       \/ lost' = lost \cup {c} /\ UNCHANGED tokens
    /\ UNCHANGED <<delegation, moves, issued, logins, states>>

\* A 4xx with a DPoP-Nonce: one more request with that nonce.
WantsNonce(c) ==
    /\ callback[c].at = "exchange"
    /\ Post(c)
    /\ Reach(c, "retry")
    /\ UNCHANGED <<external, logins, states, tokens, lost>>

\* Any other answer, a second nonce included, or none.
Refused(c) ==
    /\ Posting(c)
    /\ Post(c)
    /\ Reach(c, "ended")
    /\ UNCHANGED <<external, logins, states, tokens, lost>>

Next ==
    \/ \E document \in Documents : Delegate(document)
    \/ \E l \in Logins :
          DiscoverServer(l) \/ FetchMetadata(l) \/ LoginEnds(l) \/ Authorize(l)
    \/ \E c \in Callbacks :
          \/ \E l \in Logins : FindState(c, l)
          \/ DeleteState(c) \/ CallbackEnds(c)
          \/ Granted(c) \/ WantsNonce(c) \/ Refused(c)

Spec == Init /\ [][Next]_vars

-----------------------------------------------------------------------------
(* Properties *)

\* A callback sends its code only to the server that issued it, at most twice,
\* although the PDS may have delegated elsewhere since the login began.  However
\* many callbacks exchange one code, what they get for it is one set of tokens:
\* when the code has been used up exactly one of them was given the tokens, or
\* lost them with the answer.
CodeStaysHome ==
    /\ \A c \in Callbacks :
          /\ \A n \in DOMAIN sent[c] : <<sent[c][n], callback[c].login>> \in issued
          /\ Len(sent[c]) <= 2
    /\ \A l \in Logins, s \in Servers : <<s, l>> \in redeemed =>
          \E c \in tokens \cup lost : callback[c].login = l
    /\ \A c, d \in tokens \cup lost : callback[c].login = callback[d].login => c = d
=============================================================================
