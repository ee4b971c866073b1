--------------------------- MODULE IdentityCache ---------------------------
(***************************************************************************)
(* The identity resolver of crates/atrg-identity: a cache with a time to   *)
(* live over lookups in the network.  A resolution that misses fetches     *)
(* for a while and then stores its result under the DID and under the      *)
(* handle of the document, one after the other.  Several run at once, and  *)
(* with invalidations.                                                     *)
(***************************************************************************)
EXTENDS Naturals

CONSTANTS
    Dids, Handles,
    NoHandle,      \* the empty handle of a document without alsoKnownAs
    Resolvers,     \* concurrent calls of resolve
    MaxChanges     \* changes of the network (bound)

VARIABLES
    \* The network (external).
    changes,    \* how often it has changed
    claims,     \* what each DID's document gives for its handle
    owner,      \* the DID that resolveHandle gives for each handle
    \* The resolver.
    cache,      \* key -> identity, or Miss
    task,       \* where each resolution stands
    \* History.
    notBefore   \* for each key, the changes an answer must reflect

vars == <<changes, claims, owner, cache, task, notBefore>>

\* A document's handle is whatever follows at:// in it, a DID included.
Claims == Dids \cup Handles \cup {NoHandle}
Keys == Dids \cup Handles \cup {NoHandle}
Miss == [did |-> NoHandle]
Idle == [at |-> "idle"]

Init ==
    /\ changes = 0
    /\ claims \in [Dids -> Claims]
    /\ owner \in [Handles -> Dids]
    /\ \A h \in Handles : claims[owner[h]] = h
    /\ cache = [k \in Keys |-> Miss]
    /\ task = [r \in Resolvers |-> Idle]
    /\ notBefore = [k \in Keys |-> 0]

\* Somebody changes a document or moves a handle.
NetworkChanges ==
    /\ changes < MaxChanges
    /\ changes' = changes + 1
    /\ \/ \E d \in Dids, h \in Claims :
            claims' = [claims EXCEPT ![d] = h] /\ UNCHANGED owner
       \/ \E h \in Handles, d \in Dids :
            owner' = [owner EXCEPT ![h] = d] /\ UNCHANGED claims
    /\ UNCHANGED <<cache, task, notBefore>>

\* resolve: a hit returns what is cached (no state changes), a miss goes to
\* the network.
Resolve(r, k) ==
    /\ task[r] = Idle
    /\ cache[k] = Miss
    /\ task' = [task EXCEPT ![r] =
           IF k \in Dids
           THEN [at |-> "document", did |-> k, asked |-> k]
           ELSE [at |-> "handle", asked |-> k]]
    /\ UNCHANGED <<changes, claims, owner, cache, notBefore>>

\* resolve_handle: ask for the DID of the handle ...
AskOwner(r) ==
    /\ task[r].at = "handle"
    /\ task[r].asked \in Handles
    /\ task' = [task EXCEPT ![r] =
           [at |-> "owned", did |-> owner[@.asked], asked |-> @.asked,
            read |-> changes, overtaken |-> {}]]
    /\ UNCHANGED <<changes, claims, owner, cache, notBefore>>

\* The handle of the result: the document's, or the one asked for if it has none.
HandleOf(t) ==
    IF claims[t.did] = NoHandle /\ t.asked \in Handles THEN t.asked ELSE claims[t.did]

\* ... and resolve_did: fetch the document.
FetchDocument(r) ==
    /\ task[r].at \in {"document", "owned"}
    /\ LET owned == task[r].at = "owned"
       IN  task' = [task EXCEPT ![r] =
               [at |-> "store_did", did |-> @.did, handle |-> HandleOf(@),
                read |-> IF owned THEN @.read ELSE changes,
                overtaken |-> IF owned THEN @.overtaken ELSE {}]]
    /\ UNCHANGED <<changes, claims, owner, cache, notBefore>>

\* What a resolution stores under k.  History: when the network was read for it
\* first, and whether the key was invalidated since then.
Entry(r, k) == [did |-> task[r].did, handle |-> task[r].handle,
                read |-> task[r].read, late |-> k \in task[r].overtaken]

\* Mutant: the result is stored under the handle only after its DID was
\* looked up in the cache again.
StoreFromCache(r) ==
    /\ task[r].at = "store_handle"
    /\ cache' = [cache EXCEPT ![task[r].handle] =
           IF cache[task[r].did] # Miss THEN cache[task[r].did]
           ELSE Entry(r, task[r].handle)]
    /\ task' = [task EXCEPT ![r] = Idle]
    /\ UNCHANGED <<changes, claims, owner, notBefore>>

\* The two insertions.
StoreUnderDid(r) ==
    /\ task[r].at = "store_did"
    /\ cache' = [cache EXCEPT ![task[r].did] = Entry(r, task[r].did)]
    /\ task' = [task EXCEPT ![r].at = "store_handle"]
    /\ UNCHANGED <<changes, claims, owner, notBefore>>

StoreUnderHandle(r) ==
    /\ task[r].at = "store_handle"
    /\ cache' = [cache EXCEPT ![task[r].handle] = Entry(r, task[r].handle)]
    /\ task' = [task EXCEPT ![r] = Idle]
    /\ UNCHANGED <<changes, claims, owner, notBefore>>

\* The network fails, or the caller goes away.
ResolveEnds(r) ==
    /\ task[r] # Idle
    /\ task' = [task EXCEPT ![r] = Idle]
    /\ UNCHANGED <<changes, claims, owner, cache, notBefore>>

\* cache.invalidate removes one key.
Without(k) == [cache EXCEPT ![k] = Miss]

\* An invalidation overtakes the resolutions that hold what was read before the
\* network changed last.
Holds(r) == task[r].at \in {"owned", "store_did", "store_handle"}
Overtaken(k) ==
    [r \in Resolvers |->
        IF Holds(r) /\ task[r].read < changes
        THEN [task[r] EXCEPT !.overtaken = @ \cup {k}] ELSE task[r]]

Invalidate(k) ==
    /\ cache' = Without(k)
    /\ task' = Overtaken(k)
    /\ notBefore' = [notBefore EXCEPT ![k] = changes]
    /\ UNCHANGED <<changes, claims, owner>>

\* moka evicts an entry when it has outlived its time, or for want of room: at
\* any time, as far as this module is concerned.
Evict(k) ==
    /\ cache[k] # Miss
    /\ cache' = [cache EXCEPT ![k] = Miss]
    /\ UNCHANGED <<changes, claims, owner, task, notBefore>>

Next ==
    \/ NetworkChanges
    \/ \E k \in Keys : Invalidate(k) \/ Evict(k) \/ \E r \in Resolvers : Resolve(r, k)
    \/ \E r \in Resolvers : \/ AskOwner(r) \/ FetchDocument(r) \/ StoreUnderDid(r)
                            \/ StoreUnderHandle(r) \/ ResolveEnds(r)

Spec == Init /\ [][Next]_vars

-----------------------------------------------------------------------------
(* Properties *)

\* An entry names the key it is stored under: what is cached for a DID is that
\* DID's identity, or that of one whose document claims the DID for its handle.
KeyedByItself ==
    \A k \in Keys : cache[k] # Miss => k = cache[k].did \/ k = cache[k].handle

\* After an invalidation of a key an answer for it is never older than that,
\* unless a resolution stored it that had read the network by then: one that reads
\* it later never brings back what was forgotten, nor does the entry that the
\* identity has under its other key.
InvalidateHolds ==
    \A k \in Keys :
        cache[k] # Miss => cache[k].late \/ cache[k].read >= notBefore[k]
=============================================================================
