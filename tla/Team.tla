-------------------------------- MODULE Team --------------------------------
(***************************************************************************)
(* The members of one organization and their roles, which managers change  *)
(* by updating organization_members directly, under its row-level security *)
(* policies.  Two updates may overlap: the caller's own role is read from  *)
(* the statement's snapshot (org_role is STABLE), while the member's row   *)
(* is read again when another update of it has been waited for.            *)
(***************************************************************************)

CONSTANTS
    Users,     \* the active members of the organization
    Teams,     \* the roles they may have in the beginning
    NoUpdate   \* no update is executing

VARIABLES
    role,      \* per member: organization_members.role
    update     \* per member: the update of a role it is executing

teamVars == <<role, update>>

Roles == {"viewer", "operator", "admin", "owner"}

ASSUME TeamAssumption ==
    /\ NoUpdate \notin [target : Users, new : Roles, sees : Roles, saw : Roles]
    /\ Teams \subseteq [Users -> Roles]

TeamTypeOK ==
    /\ role \in [Users -> Roles]
    /\ update \in [Users -> [target : Users, new : Roles, sees : Roles,
                             saw : Roles] \cup {NoUpdate}]

TeamInit ==
    /\ role \in Teams
    /\ update = [u \in Users |-> NoUpdate]

\* What members_update_managers lets a caller do to a row of another member.
MayManage(callerRole, memberRole) ==
    \/ callerRole = "owner"
    \/ callerRole = "admin" /\ memberRole \in {"operator", "viewer"}

\* The statement starts: its snapshot has the roles of caller and member.
BeginUpdate(u, target, new) ==
    /\ update[u] = NoUpdate
    /\ update' = [update EXCEPT ![u] = [target |-> target, new |-> new,
                                        sees |-> role[u],
                                        saw |-> role[target]]]
    /\ UNCHANGED role

\* Mutant of RowMatches: an owner may update its own row.
RowMatchesSelf(u) ==
    /\ MayManage(update[u].sees, update[u].saw)
    /\ MayManage(update[u].sees, role[update[u].target])

\* USING, on the row of the snapshot and on the row as it is now.
RowMatches(u) ==
    /\ update[u].target # u
    /\ MayManage(update[u].sees, update[u].saw)
    /\ MayManage(update[u].sees, role[update[u].target])

\* WITH CHECK, on the new row.
NewRowAllowed(u) == MayManage(update[u].sees, update[u].new)

\* A row that does not match is skipped without an error; a new row that is
\* not allowed is error 42501.
Outcome(u) ==
    IF ~ RowMatches(u) THEN "skipped"
    ELSE IF ~ NewRowAllowed(u) THEN "refused"
    ELSE "applied"

CommitUpdate(u) ==
    /\ update[u] # NoUpdate
    /\ role' = IF Outcome(u) = "applied"
               THEN [role EXCEPT ![update[u].target] = update[u].new]
               ELSE role
    /\ update' = [update EXCEPT ![u] = NoUpdate]

TeamNext ==
    \E u \in Users :
        \/ \E target \in Users, new \in Roles : BeginUpdate(u, target, new)
        \/ CommitUpdate(u)

TeamSpec == TeamInit /\ [][TeamNext]_teamVars

-----------------------------------------------------------------------------

HasOwner == \E u \in Users : role[u] = "owner"

\* No manager may update its own row, so no single update takes the last
\* owner away: only one whose caller was demoted while it was executing.
OwnerLostOnlyByOverlap ==
    [][HasOwner /\ ~ HasOwner' =>
          \E u \in Users :
              /\ update[u] # NoUpdate
              /\ update'[u] = NoUpdate
              /\ role[u] # update[u].sees]_teamVars
=============================================================================
