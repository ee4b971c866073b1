------------------------------- MODULE ApiKeys -------------------------------
(***************************************************************************)
(* How a request of an atrg application is authenticated: the extractor of *)
(* crates/atrg-auth takes a JWT, an API key or a session id from the       *)
(* Authorization header, or a session id from the cookie.  API keys are    *)
(* created and revoked meanwhile, sessions end.  Logging in, and what      *)
(* find_session does to a session, is module OAuthSession.                 *)
(***************************************************************************)
EXTENDS Naturals

CONSTANTS
    Keys,        \* the keys generate_key may draw, never one of them twice
    PrefixOf,    \* the first 8 hex digits of each key
    Dids,
    Jwts,        \* tokens that look like a JWT: the claims sub, exp and aud, and
                 \* whether the issuer's key has signed them
    SessionOf,   \* the DID of each session there is at first
    Requests,
    MaxTime      \* bound

None == [kind |-> "none"]
KeyToken(k) == [kind |-> "key", key |-> k]
SessionToken(s) == [kind |-> "session", id |-> s]
Bearers ==
    {None} \cup {KeyToken(k) : k \in Keys} \cup {SessionToken(s) : s \in DOMAIN SessionOf}
           \cup {[kind |-> "jwt", claims |-> j.claims, signed |-> j.signed] : j \in Jwts}
Cookies == {None} \cup {SessionToken(s) : s \in DOMAIN SessionOf}

VARIABLES
    clock,
    rows,       \* api_keys
    sessions,   \* ids in atrg_sessions
    request,    \* what each request is about to do and what it holds
    \* History.
    ownerOf,    \* the DID each drawn key was made for
    withdrawn   \* the keys and sessions that were revoked or ended

vars == <<clock, rows, sessions, request, ownerOf, withdrawn>>

Idle == [at |-> "idle"]

Init ==
    /\ clock = 0
    /\ rows = {}
    /\ sessions = DOMAIN SessionOf
    /\ request = [q \in Requests |-> Idle]
    /\ ownerOf = <<>>
    /\ withdrawn = {}

Tick ==
    /\ clock < MaxTime
    /\ clock' = clock + 1
    /\ UNCHANGED <<rows, sessions, request, ownerOf, withdrawn>>

\* create_api_key: only the hash of the key is stored; nothing sets expires_at.
CreateKey(k, did) ==
    /\ k \notin DOMAIN ownerOf
    /\ ownerOf' = [x \in DOMAIN ownerOf \cup {k} |-> IF x = k THEN did ELSE ownerOf[x]]
    /\ rows' = rows \cup {[key |-> k, did |-> did, used |-> FALSE]}
    /\ UNCHANGED <<clock, sessions, request, withdrawn>>

\* revoke_api_key deletes every key with the display prefix, whoever's it is.
RevokeKeys(prefix) ==
    LET gone == {r \in rows : PrefixOf[r.key] = prefix}
    IN  /\ rows' = rows \ gone
        /\ withdrawn' = withdrawn \cup {KeyToken(r.key) : r \in gone}
        /\ UNCHANGED <<clock, sessions, request, ownerOf>>

EndSession(s) ==
    /\ sessions' = sessions \ {s}
    /\ withdrawn' = withdrawn \cup {SessionToken(s)}
    /\ UNCHANGED <<clock, rows, request, ownerOf>>

-----------------------------------------------------------------------------
(* A request.  "early" is what had been withdrawn when it began. *)

Goto(q, at) == request' = [request EXCEPT ![q].at = at]
Answer(q, token, did) ==
    request' = [request EXCEPT ![q] =
        [at |-> "answered", token |-> token, did |-> did, early |-> request[q].early]]
Refuse(q) == request' = [request EXCEPT ![q] = Idle]

\* resolve_session: a Bearer token that is not empty, or else the cookie.
Begin(q, bearer, cookie) ==
    /\ request[q].at \in {"idle", "answered"}
    /\ request' = [request EXCEPT ![q] =
           IF bearer # None
           THEN [at |-> IF bearer.kind = "jwt" THEN "jwt" ELSE "key",
                 token |-> bearer, early |-> withdrawn]
           ELSE IF cookie # None
           THEN [at |-> "session", token |-> cookie, early |-> withdrawn]
           ELSE Idle]
    /\ UNCHANGED <<clock, rows, sessions, ownerOf, withdrawn>>

\* verify_expiration and verify_audience.  exp and aud are sets of at most one
\* value: a claim that is missing passes.
NotExpired(claims) == \A exp \in claims.exp : clock <= exp
AudienceFits(claims) == claims.aud \subseteq {"this host"}

\* resolve_bearer_token: the claims decide, as decode_claims_unverified reads them,
\* signed or not; otherwise the token is tried as a key.
TryJwt(q) ==
    /\ request[q].at = "jwt"
    /\ LET claims == request[q].token.claims
       IN  IF NotExpired(claims) /\ AudienceFits(claims)
           THEN Answer(q, request[q].token, claims.sub)
           ELSE Goto(q, "key")
    /\ UNCHANGED <<clock, rows, sessions, ownerOf, withdrawn>>

\* find_by_key selects the row by the hash of the token.  A token without an
\* underscore is not looked up, and a query that fails counts as not found.
FindKey(q) ==
    /\ request[q].at = "key"
    /\ \/ \E r \in rows :
            /\ request[q].token = KeyToken(r.key)
            /\ request' = [request EXCEPT ![q] =
                   [at |-> "touch", token |-> @.token, found |-> r, early |-> @.early]]
       \/ Goto(q, "session")
    /\ UNCHANGED <<clock, rows, sessions, ownerOf, withdrawn>>

\* Mutant: the row that was read is written back.
TouchedUpsert(row) == (rows \ {r \in rows : r.key = row.key}) \cup {[row EXCEPT !.used = TRUE]}

\* UPDATE ... WHERE key_hash: no row, if the key was revoked meanwhile.
Touched(row) == {IF r.key = row.key THEN [r EXCEPT !.used = TRUE] ELSE r : r \in rows}

\* find_by_key updates last_used_at; if that fails, it does so unnoticed.
TouchKey(q) ==
    /\ request[q].at = "touch"
    /\ rows' = Touched(request[q].found) \/ rows' = rows
    /\ Answer(q, request[q].token, request[q].found.did)
    /\ UNCHANGED <<clock, sessions, ownerOf, withdrawn>>

\* resolve_atrg_session, with whatever token is left over.
TrySession(q) ==
    /\ request[q].at = "session"
    /\ \/ \E s \in sessions :
            /\ request[q].token = SessionToken(s)
            /\ Answer(q, request[q].token, SessionOf[s])
       \/ Refuse(q)
    /\ UNCHANGED <<clock, rows, sessions, ownerOf, withdrawn>>

Next ==
    \/ Tick
    \/ \E k \in Keys, did \in Dids : CreateKey(k, did)
    \/ \E k \in Keys : RevokeKeys(PrefixOf[k])
    \/ \E s \in sessions : EndSession(s)
    \/ \E q \in Requests, bearer \in Bearers, cookie \in Cookies : Begin(q, bearer, cookie)
    \/ \E q \in Requests : TryJwt(q) \/ FindKey(q) \/ TouchKey(q) \/ TrySession(q)

Spec == Init /\ [][Next]_vars

-----------------------------------------------------------------------------
(* Properties *)

Owner(token) ==
    CASE token.kind = "key" -> ownerOf[token.key]
      [] token.kind = "session" -> SessionOf[token.id]

\* A key or session that was withdrawn before a request began does not
\* authenticate it, although looking a key up and touching its row are two
\* queries and revocations come between them; a key or session that is accepted
\* authenticates as the one it was made for.  It says nothing of JWTs, which cannot
\* be withdrawn and authenticate whomever they claim.
WithdrawnStaysOut ==
    \A q \in Requests : request[q].at = "answered" =>
        /\ request[q].token \notin request[q].early
        /\ request[q].token.kind # "jwt" => request[q].did = Owner(request[q].token)
=============================================================================
