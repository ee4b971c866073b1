-------------------------------- MODULE Rbac --------------------------------
(***************************************************************************)
(* Roles and bans of crates/atrg-auth, with the provisioning of the        *)
(* configured administrators that every start of the application does.     *)
(* Rows of atrg_roles are told apart by their id: UNIQUE(did, role,        *)
(* scope_type, scope_id) holds NULLs for distinct, in both databases.      *)
(***************************************************************************)
EXTENDS Naturals, Sequences

CONSTANTS
    Dids, Roles, ScopeTypes, ScopeIds,
    Null,         \* SQL's NULL, the None of the callers
    Admins,       \* config.app.admin_dids, a sequence
    Processes,    \* processes that start
    Ttls,         \* lifetimes of temporary bans
    MaxRows, MaxTime    \* bounds

VARIABLES
    clock,
    nextId,
    roles,       \* atrg_roles
    bans,        \* atrg_bans: DID -> the expiries stored, {} if it has no row
    startup,     \* how many administrators each process has provisioned
    \* History.
    sentence,    \* the ticks that are left of each DID's last ban
    withdrawn    \* <<did, role>> revoked as a whole and not granted since

vars == <<clock, nextId, roles, bans, startup, sentence, withdrawn>>

Types == ScopeTypes \cup {Null}
Ids == ScopeIds \cup {Null}

Init ==
    /\ clock = 0 /\ nextId = 1 /\ roles = {}
    /\ bans = [d \in Dids |-> {}]
    /\ startup = [p \in Processes |-> 0]
    /\ sentence = [d \in Dids |-> 0]
    /\ withdrawn = {}

Tick ==
    /\ clock < MaxTime
    /\ clock' = clock + 1
    /\ sentence' = [d \in Dids |-> IF sentence[d] > 0 THEN sentence[d] - 1 ELSE 0]
    /\ UNCHANGED <<nextId, roles, bans, startup, withdrawn>>

-----------------------------------------------------------------------------
(* Roles *)

\* The unique constraint: rows with a NULL are never in conflict.
Conflicts(row, did, role, type, id) ==
    /\ row.did = did /\ row.role = role
    /\ row.type = type /\ row.id = id
    /\ type # Null /\ id # Null

\* INSERT OR IGNORE, ON CONFLICT DO NOTHING.
Insert(did, role, type, id) ==
    /\ IF \E row \in roles : Conflicts(row, did, role, type, id)
       THEN UNCHANGED <<nextId, roles>>
       ELSE /\ nextId <= MaxRows
            /\ nextId' = nextId + 1
            /\ roles' = roles \cup {[rowid |-> nextId, did |-> did, role |-> role,
                                     type |-> type, id |-> id]}
    /\ withdrawn' = withdrawn \ {<<did, role>>}

\* grant_role
GrantRole(did, role, type, id) ==
    /\ Insert(did, role, type, id)
    /\ UNCHANGED <<clock, bans, startup, sentence>>

\* Mutant: the unscoped assignment is removed, the scoped ones are not.
RevokedUnscoped(row, did, role, id) == row.did = did /\ row.role = role /\ row.id = id

\* The WHERE clauses of revoke_role.
Revoked(row, did, role, id) ==
    row.did = did /\ row.role = role /\ (id = Null \/ row.id = id)

\* revoke_role
RevokeRole(did, role, id) ==
    /\ roles' = {row \in roles : ~Revoked(row, did, role, id)}
    /\ withdrawn' = IF id = Null THEN withdrawn \cup {<<did, role>>} ELSE withdrawn
    /\ UNCHANGED <<clock, nextId, bans, startup, sentence>>

\* has_role: an instance-wide grant matches any scope.
HasRole(did, role, id) ==
    \E row \in roles :
        row.did = did /\ row.role = role /\ (id = Null \/ row.id \in {id, Null})

\* AtrgApp::run provisions the administrators one by one; an INSERT that fails
\* is logged and passed over.
Provision(p) ==
    /\ startup[p] < Len(Admins)
    /\ startup' = [startup EXCEPT ![p] = @ + 1]
    /\ \/ Insert(Admins[startup[p] + 1], "admin", Null, Null)
       \/ UNCHANGED <<nextId, roles, withdrawn>>
    /\ UNCHANGED <<clock, bans, sentence>>

\* The process ends and is started again.
Restart(p) ==
    /\ startup[p] > 0
    /\ startup' = [startup EXCEPT ![p] = 0]
    /\ UNCHANGED <<clock, nextId, roles, bans, sentence, withdrawn>>

-----------------------------------------------------------------------------
(* Bans *)

\* Both calls read the clock before their query, at some time now.

\* ban_did replaces a ban there is, a permanent one too; the sentence counts from
\* the call.
BanDid(did, ttl, now) ==
    /\ bans' = [bans EXCEPT ![did] = {IF ttl = Null THEN Null ELSE now + ttl}]
    /\ sentence' = [sentence EXCEPT ![did] =
                       IF ttl = Null THEN MaxTime + 1
                       ELSE IF now + ttl > clock THEN now + ttl - clock ELSE 0]
    /\ UNCHANGED <<clock, nextId, roles, startup, withdrawn>>

\* lift_ban
LiftBan(did) ==
    /\ bans' = [bans EXCEPT ![did] = {}]
    /\ sentence' = [sentence EXCEPT ![did] = 0]
    /\ UNCHANGED <<clock, nextId, roles, startup, withdrawn>>

\* is_banned
IsBanned(did, now) == \E expiry \in bans[did] : expiry = Null \/ expiry > now

Next ==
    \/ Tick
    \/ \E did \in Dids, role \in Roles :
          \/ \E type \in Types, id \in Ids : GrantRole(did, role, type, id)
          \/ \E id \in Ids : RevokeRole(did, role, id)
    \/ \E p \in Processes : Provision(p) \/ Restart(p)
    \/ \E did \in Dids :
          \/ \E ttl \in Ttls \cup {Null}, now \in 0..clock : BanDid(did, ttl, now)
          \/ LiftBan(did)

Spec == Init /\ [][Next]_vars

-----------------------------------------------------------------------------
(* Properties *)

\* After revoke_role without a scope no check for the role succeeds, in any
\* scope, until it is granted or provisioned again, however many assignments
\* had piled up and whatever was granted next to it.
RevokedRoleIsGone ==
    \A did \in Dids, role \in Roles : <<did, role>> \in withdrawn =>
        \A id \in Ids : ~HasRole(did, role, id)

\* A ban is in force from the moment it is imposed for as many ticks as the last
\* one said, or for ever: a later ban replaces an earlier one, longer or not,
\* and what has run out does not come back.  A check errs on the side of the ban:
\* it overlooks none however long ago it read the clock, and can only report one
\* that has run out since.
BansRunTheirTime ==
    \A did \in Dids, now \in 0..clock :
        /\ sentence[did] > 0 => IsBanned(did, now)
        /\ IsBanned(did, now) /\ now = clock => sentence[did] > 0

\* Documented at grant_role, and for the administrators at bootstrap_admins: an
\* assignment that exists already is not made again.
AssignmentsAreUnique ==
    \A a, b \in roles :
        a.did = b.did /\ a.role = b.role /\ a.type = b.type /\ a.id = b.id => a = b
=============================================================================
