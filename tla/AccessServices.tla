--------------------------- MODULE AccessServices ---------------------------
(***************************************************************************)
(* The services that decide who may get in: codes by e-mail, identities,   *)
(* API keys and sessions, roles and bans, and the exchange of              *)
(* authorization codes. Each is an instance of its own module, whose       *)
(* constants and variables have the prefix given below. They share no      *)
(* state in the code, so that a step of one leaves the others alone.       *)
(***************************************************************************)
EXTENDS Integers, Sequences

CONSTANTS
    OtpMembers, OtpDrawn, OtpVerifiers, OtpLifetime, OtpMaxSends, OtpMaxTime,
    NoHandle, IdDids, IdHandles, IdResolvers, IdMaxChanges,
    KeyKeys, KeyPrefixOf, KeyDids, KeyJwts, KeySessionOf, KeyRequests,
        KeyMaxTime,
    Null, RbDids, RbRoles, RbScopeTypes, RbScopeIds, RbAdmins, RbProcesses,
        RbTtls, RbMaxRows, RbMaxTime,
    ExLogins, ExCallbacks, ExPds, ExServers, ExMaxMoves

VARIABLES
    otpClock, otpRows, otpVerify, otpFound, otpAccepted,
    idChanges, idClaims, idOwner, idCache, idTask, idNotBefore,
    keyClock, keyRows, keySessions, keyRequest, keyOwnerOf, keyWithdrawn,
    rbClock, rbNextId, rbRoles, rbBans, rbStartup, rbSentence, rbWithdrawn,
    exDelegation, exMoves, exIssued, exRedeemed, exStage, exServer, exStates,
        exCallback, exTokens, exSent, exLost

otpVars == <<otpClock, otpRows, otpVerify, otpFound, otpAccepted>>
idVars == <<idChanges, idClaims, idOwner, idCache, idTask, idNotBefore>>
keyVars == <<keyClock, keyRows, keySessions, keyRequest, keyOwnerOf, keyWithdrawn>>
rbVars == <<rbClock, rbNextId, rbRoles, rbBans, rbStartup, rbSentence, rbWithdrawn>>
exVars == <<exDelegation, exMoves, exIssued, exRedeemed, exStage, exServer, exStates,
            exCallback, exTokens, exSent, exLost>>
accessVars == <<otpVars, idVars, keyVars, rbVars, exVars>>

Otp == INSTANCE OtpCodes WITH
    Members <- OtpMembers, Codes <- OtpDrawn, Verifiers <- OtpVerifiers,
    Lifetime <- OtpLifetime, MaxSends <- OtpMaxSends, MaxTime <- OtpMaxTime,
    clock <- otpClock, rows <- otpRows, verify <- otpVerify, found <- otpFound,
    accepted <- otpAccepted

Identity == INSTANCE IdentityCache WITH
    Dids <- IdDids, Handles <- IdHandles,
    Resolvers <- IdResolvers, MaxChanges <- IdMaxChanges,
    changes <- idChanges, claims <- idClaims, owner <- idOwner,
    cache <- idCache, task <- idTask, notBefore <- idNotBefore

Api == INSTANCE ApiKeys WITH
    Keys <- KeyKeys, PrefixOf <- KeyPrefixOf, Dids <- KeyDids, Jwts <- KeyJwts,
    SessionOf <- KeySessionOf, Requests <- KeyRequests, MaxTime <- KeyMaxTime,
    clock <- keyClock, rows <- keyRows, sessions <- keySessions,
    request <- keyRequest, ownerOf <- keyOwnerOf, withdrawn <- keyWithdrawn

Roles == INSTANCE Rbac WITH
    Dids <- RbDids, Roles <- RbRoles, ScopeTypes <- RbScopeTypes, ScopeIds <- RbScopeIds,
    Admins <- RbAdmins, Processes <- RbProcesses, Ttls <- RbTtls, MaxRows <- RbMaxRows,
    MaxTime <- RbMaxTime,
    clock <- rbClock, nextId <- rbNextId, roles <- rbRoles, bans <- rbBans,
    startup <- rbStartup, sentence <- rbSentence, withdrawn <- rbWithdrawn

Exchange == INSTANCE OAuthExchange WITH
    Logins <- ExLogins, Callbacks <- ExCallbacks, Pds <- ExPds,
    Servers <- ExServers, MaxMoves <- ExMaxMoves,
    delegation <- exDelegation, moves <- exMoves, issued <- exIssued,
    redeemed <- exRedeemed, stage <- exStage, server <- exServer,
    states <- exStates, callback <- exCallback,
    tokens <- exTokens, sent <- exSent, lost <- exLost

-----------------------------------------------------------------------------
(* What the proofs assume of the constants; numbers are numbers.             *)

ASSUME OtpAssumption == OtpLifetime \in Nat /\ OtpMaxSends \in Nat /\ OtpMaxTime \in Nat

\* Null stands for a ban's missing expiry.
ASSUME RolesAssumption == RbTtls \subseteq Nat /\ RbMaxTime \in Nat /\ Null \notin Nat

-----------------------------------------------------------------------------
(* The composition                                                          *)

AccessInit ==
    /\ Otp!Init /\ Identity!Init /\ Api!Init /\ Roles!Init /\ Exchange!Init

AccessNext ==
    \/ Otp!Next /\ UNCHANGED <<idVars, keyVars, rbVars, exVars>>
    \/ Identity!Next /\ UNCHANGED <<otpVars, keyVars, rbVars, exVars>>
    \/ Api!Next /\ UNCHANGED <<otpVars, idVars, rbVars, exVars>>
    \/ Roles!Next /\ UNCHANGED <<otpVars, idVars, keyVars, exVars>>
    \/ Exchange!Next /\ UNCHANGED <<otpVars, idVars, keyVars, rbVars>>

AccessSpec == AccessInit /\ [][AccessNext]_accessVars

-----------------------------------------------------------------------------
(* The services' properties, as they are stated in their modules.           *)

\* OtpCodes: a used code is never found again by a later verification, one that
\* was answered with true is used, and only a verification that found it valid
\* uses it up (send_otp, verify_otp).
CodesAreSpent == Otp!SpentStaysSpent /\ Otp!AcceptedIsUsed /\ Otp!UsedWasFound

\* IdentityCache: an entry names its key, and only a resolution that had read the
\* network before an invalidation undoes it (resolve, invalidate).
CacheIsHonest == Identity!KeyedByItself /\ Identity!InvalidateHolds

\* ApiKeys: a key or session that was withdrawn before a request began does not
\* authenticate it (resolve_session, find_by_key, revoke_api_key).
WithdrawnStaysOut == Api!WithdrawnStaysOut

\* Rbac: a role that was revoked as a whole is gone, and a ban lasts as long as
\* it was imposed for (grant_role, revoke_role, has_role, ban_did, is_banned).
DecisionsStand == Roles!RevokedRoleIsGone /\ Roles!BansRunTheirTime

\* OAuthExchange: a callback sends its code to the server that issued it and
\* nowhere else, at most twice, and however many callbacks exchange one code, one
\* of them gets the tokens (callback_handler, exchange_code_for_tokens).
CodeStaysHome == Exchange!CodeStaysHome
=============================================================================
