------------------------------ MODULE Accounts ------------------------------
(***************************************************************************)
(* Accounts, roles and assignments, and the requests that administer them. *)
(*                                                                         *)
(* A human account comes from the first-startup seed, from a login or from *)
(* an administrator; a robot account only from an administrator.  Roles    *)
(* carry capabilities; an account's capabilities are the union over its    *)
(* assigned roles.  Every request is a sequence of SQL statements or       *)
(* transactions with nothing held in between, so a request is a slot that  *)
(* remembers what it has read, and the statements of all slots interleave. *)
(*                                                                         *)
(* Scopes, names and descriptions are left out; of the capabilities only   *)
(* the ones the guards ask for are kept.  What an account authenticates    *)
(* with is the subject of module Credentials.                              *)
(***************************************************************************)
EXTENDS Naturals, FiniteSets

CONSTANTS
    Humans,     \* human accounts (e-mail addresses)
    Robots,     \* robot accounts
    Builtin,    \* names of builtin roles, "admin" among them
    Custom,     \* names of custom roles
    CapSets,    \* capability sets of request bodies
    Slots       \* requests in progress

ASSUME AccountsAssumption ==
    /\ Humans \cap Robots = {}
    /\ "admin" \in Builtin /\ Builtin \subseteq {"admin", "builder", "viewer"}
    /\ Custom \cap Builtin = {}

VARIABLES
    acct,   \* table users: "none", "active" or "inactive"
    caps,   \* tables roles and role_caps: the capabilities of an existing role
    has,    \* table user_roles
    req,    \* the requests in progress
    lost    \* history: the last administrator went in a way the code lets pass

vars == <<acct, caps, has, req, lost>>

Entities == Humans \cup Robots

Roles == Builtin \cup Custom

\* KNOWN_CAPS, as far as the capabilities are modelled.
KnownCaps == {"*", "permissions:manage", "builds:create", "apikeys:create:own"}

\* validate_caps.
ValidateCaps(C) == C \subseteq KnownCaps

\* ROBOT_FORBIDDEN_CAPS, as far as the capabilities are modelled.
ForbiddenToRobots == {"*", "permissions:manage", "apikeys:create:own"}

\* The role does not exist.
NoRole == {"none"}

Free == [pc |-> "free", who |-> "nobody", e |-> "nobody", R |-> {}, body |-> {},
         old |-> {}]

\* What the seed gives admin, builder and viewer.
BuiltinCaps(r) ==
    CASE r = "admin"   -> {"*"}
      [] r = "builder" -> {"builds:create", "builds:revoke:own", "builds:list:own",
                           "builds:list:any", "apikeys:create:own", "workers:view",
                           "channels:view"}
      [] r = "viewer"  -> {"builds:list:any", "workers:view"}

\* create_builtin_role: the table of roles after the seed.
CreateBuiltinRoles == [r \in Roles |-> IF r \in Builtin THEN BuiltinCaps(r) ELSE NoRole]

\* run_first_startup_seed: the builtin roles and the seed administrator.
Init ==
    /\ \E a \in Humans :
        /\ acct = [e \in Entities |-> IF e = a THEN "active" ELSE "none"]
        /\ has = [e \in Entities |-> IF e = a THEN {"admin"} ELSE {}]
    /\ caps = CreateBuiltinRoles
    /\ req = [s \in Slots |-> Free]
    /\ lost = FALSE

\* get_role finds the role.
Live(r) == caps[r] # NoRole

\* is_role_builtin.
IsRoleBuiltin(r) == Live(r) /\ r \in Builtin

\* get_role_caps: a role that is gone has none.
CapsOf(r) == IF Live(r) THEN caps[r] ELSE {}

\* get_effective_caps.
EffectiveCaps(e) == UNION {CapsOf(r) : r \in has[e]}

\* Mutant: robots count as administrators.
HoldersAmongAll(a) == {e \in Entities : a[e] = "active" /\ "*" \in EffectiveCaps(e)}

\* count_active_wildcard_holders_tx over the account states a of the transaction:
\* the active humans with a role that carries "*".
Holders(a) == {e \in Humans : a[e] = "active" /\ "*" \in EffectiveCaps(e)}

\* count_active_wildcard_holders, outside a transaction.
ActiveHolders == Holders(acct)

\* last_admin_guard of routes/permissions.rs lets the handler go on.
LastAdminGuard == ActiveHolders # {}

\* last_admin_guard of routes/admin.rs, after a change of an entity's roles.
EntityAdminGuard == ActiveHolders # {}

\* Somebody may still administer the system.
Administered ==
    \E h \in Humans : acct[h] = "active" /\ \E r \in has[h] : "*" \in CapsOf(r)

\* Keeps the history: a step that the code lets pass (b) while nobody may
\* administer the system explains the loss until it is repaired.
Blame(b) == lost' = (~Administered' /\ (lost \/ b))

At(s, pc) == req[s].pc = pc

Goto(s, r) == req' = [req EXCEPT ![s] = r]

Done(s) == Goto(s, Free)

-----------------------------------------------------------------------------
(* Signing in and the extractor every handler runs first.                   *)

\* OAuth callback: create_or_update_user inserts an unknown address and leaves
\* active alone when the row is there.
Login(h) ==
    /\ acct[h] = "none"
    /\ acct' = [acct EXCEPT ![h] = "active"]
    /\ UNCHANGED <<caps, has, req>>
    /\ Blame(FALSE)

\* load_authed_user, the account row: an unknown or inactive account is refused.
Arrive(s, u) ==
    /\ At(s, "free")
    /\ acct[u] = "active"
    /\ Goto(s, [Free EXCEPT !.pc = "caps", !.who = u])
    /\ UNCHANGED <<acct, caps, has>>
    /\ Blame(FALSE)

\* Mutant: the capabilities of a robot are taken as they are.
GrantedUnstripped(u) == EffectiveCaps(u)

\* load_authed_user, the capabilities: robots lose the forbidden ones.
Granted(u) ==
    IF u \in Robots THEN EffectiveCaps(u) \ ForbiddenToRobots ELSE EffectiveCaps(u)

\* has_cap for "permissions:manage" or "robots:manage": the wildcard counts.
MayManage(C) == "*" \in C \/ "permissions:manage" \in C

\* The capabilities are read and require_cap lets the handler run, or answers 403.
Permit(s) ==
    /\ At(s, "caps")
    /\ IF MayManage(Granted(req[s].who))
       THEN Goto(s, [req[s] EXCEPT !.pc = "go"])
       ELSE Done(s)
    /\ UNCHANGED <<acct, caps, has>>
    /\ Blame(FALSE)

-----------------------------------------------------------------------------
(* Accounts.                                                                *)

\* provision_user reads the row, checks the roles and inserts, all under BEGIN
\* IMMEDIATE; an existing row or an unknown role is refused.
ProvisionUser(h, R) ==
    /\ acct[h] = "none"
    /\ \A r \in R : Live(r)
    /\ acct' = [acct EXCEPT ![h] = "active"]
    /\ has' = [has EXCEPT ![h] = R]

\* create_entity, which provisions humans only.
CreateEntity(s) ==
    /\ At(s, "go")
    /\ \E h \in Humans, R \in SUBSET Roles : ProvisionUser(h, R)
    /\ Done(s)
    /\ UNCHANGED caps
    /\ Blame(FALSE)

\* deactivate_entity, the account row: an unknown account is a 404, an inactive one
\* is already deactivated.
FindToDeactivate(s) ==
    /\ At(s, "go")
    /\ \E e \in Entities :
        /\ acct[e] = "active"
        /\ Goto(s, [Free EXCEPT !.pc = "deactivate", !.e = e, !.who = req[s].who])
    /\ UNCHANGED <<acct, caps, has>>
    /\ Blame(FALSE)

\* activate_entity, the account row: an unknown account is a 404.
FindToActivate(s) ==
    /\ At(s, "go")
    /\ \E e \in Entities :
        /\ acct[e] # "none"
        /\ Goto(s, [Free EXCEPT !.pc = "activate", !.e = e, !.who = req[s].who])
    /\ UNCHANGED <<acct, caps, has>>
    /\ Blame(FALSE)

\* deactivate_entity: the update and the count are one transaction, rolled back
\* when no administrator would be left.
Deactivate(s) ==
    LET off == [acct EXCEPT ![req[s].e] = "inactive"]
    IN  /\ At(s, "deactivate")
        /\ acct' = IF Holders(off) = {} THEN acct ELSE off
        /\ Done(s)
        /\ UNCHANGED <<caps, has>>
        /\ Blame(FALSE)

\* activate_entity: the update; a robot without a token is refused before it.
Activate(s) ==
    /\ At(s, "activate")
    /\ \/ acct' = [acct EXCEPT ![req[s].e] = "active"]
       \/ req[s].e \in Robots /\ UNCHANGED acct
    /\ Done(s)
    /\ UNCHANGED <<caps, has>>
    /\ Blame(FALSE)

-----------------------------------------------------------------------------
(* Roles.                                                                   *)

\* create_role of the database: the row, with no capabilities; a name in use fails.
CreateRole(r) ==
    /\ ~Live(r)
    /\ caps' = [caps EXCEPT ![r] = {}]

\* The create_role request inserts the row first.
InsertRole(s) ==
    /\ At(s, "go")
    /\ \E r \in Roles, C \in CapSets :
        /\ ValidateCaps(C)
        /\ CreateRole(r)
        /\ Goto(s, [req[s] EXCEPT !.pc = "fill", !.R = {r}, !.body = C])
    /\ UNCHANGED <<acct, has>>
    /\ Blame(FALSE)

\* set_role_caps_and_scopes with capability set C on the slot's role: a role that
\* is gone fails the foreign key.
SetCaps(s, C) ==
    caps' = [r \in Roles |-> IF r \in req[s].R /\ Live(r) THEN C ELSE caps[r]]

\* create_role then sets the capabilities, with no guard.
FillRole(s) ==
    /\ At(s, "fill")
    /\ SetCaps(s, req[s].body)
    /\ Done(s)
    /\ UNCHANGED <<acct, has>>
    /\ Blame(TRUE)

\* update_role refuses a builtin role and then looks the role up; a missing one is
\* a 404.
FindRole(s) ==
    /\ At(s, "go")
    /\ \E r \in Roles, C \in CapSets :
        /\ ValidateCaps(C)
        /\ ~IsRoleBuiltin(r) /\ Live(r)
        /\ Goto(s, [req[s] EXCEPT !.pc = "old", !.R = {r}, !.body = C])
    /\ UNCHANGED <<acct, caps, has>>
    /\ Blame(FALSE)

\* update_role keeps the old capabilities.
ReadOldCaps(s) ==
    /\ At(s, "old")
    /\ Goto(s, [req[s] EXCEPT !.pc = "write",
                              !.old = UNION {CapsOf(r) : r \in req[s].R}])
    /\ UNCHANGED <<acct, caps, has>>
    /\ Blame(FALSE)

\* update_role sets the new ones, and goes on to the guard when the capabilities
\* it read before had the wildcard and the new ones have not.
WriteRole(s) ==
    /\ At(s, "write")
    /\ SetCaps(s, req[s].body)
    /\ IF "*" \in req[s].old \ req[s].body /\ \A r \in req[s].R : Live(r)
       THEN Goto(s, [req[s] EXCEPT !.pc = "guard", !.body = {}])
       ELSE Done(s)
    /\ UNCHANGED <<acct, has>>
    /\ Blame("*" \notin req[s].old)

\* The guard of update_role: without an administrator the old ones come back.
GuardUpdate(s) ==
    /\ At(s, "guard")
    /\ IF LastAdminGuard
       THEN Done(s)
       ELSE Goto(s, [req[s] EXCEPT !.pc = "restore"])
    /\ UNCHANGED <<acct, caps, has>>
    /\ Blame(FALSE)

\* The rollback of update_role, whose own failure is ignored.
RestoreRole(s) ==
    /\ At(s, "restore")
    /\ SetCaps(s, req[s].old)
    /\ Done(s)
    /\ UNCHANGED <<acct, has>>
    /\ Blame(TRUE)

\* delete_role refuses a builtin role and reads the capabilities.
ReadForDelete(s) ==
    /\ At(s, "go")
    /\ \E r \in Roles :
        /\ ~IsRoleBuiltin(r)
        /\ Goto(s, [req[s] EXCEPT !.pc = "delete", !.R = {r}, !.old = CapsOf(r)])
    /\ UNCHANGED <<acct, caps, has>>
    /\ Blame(FALSE)

\* Mutant: the assignments stay when the role goes.
DeleteRoleOnly(r) ==
    /\ caps' = [caps EXCEPT ![r] = IF IsRoleBuiltin(r) THEN @ ELSE NoRole]
    /\ UNCHANGED has

\* delete_role of the database: a role that is not builtin goes, and by the cascade
\* its capabilities and assignments with it.
DeleteRole(r) ==
    /\ caps' = [caps EXCEPT ![r] = IF IsRoleBuiltin(r) THEN @ ELSE NoRole]
    /\ has' = [e \in Entities |-> IF IsRoleBuiltin(r) THEN has[e] ELSE has[e] \ {r}]

\* The delete_role request deletes, answers 404 when nothing went, and goes on to
\* the guard when the capabilities it read had the wildcard.
RemoveWholeRole(s) ==
    /\ At(s, "delete")
    /\ \E r \in req[s].R :
        /\ DeleteRole(r)
        /\ IF "*" \in req[s].old /\ Live(r)
           THEN Goto(s, [Free EXCEPT !.pc = "deleted", !.who = req[s].who])
           ELSE Done(s)
    /\ UNCHANGED acct
    /\ Blame("*" \notin req[s].old)

\* The guard of delete_role: it answers 409 when nobody is left; the role is gone.
GuardDelete(s) ==
    /\ At(s, "deleted")
    /\ Done(s)
    /\ UNCHANGED <<acct, caps, has>>
    /\ Blame(~LastAdminGuard)

-----------------------------------------------------------------------------
(* Assignments.                                                             *)

\* first_robot_forbidden_cap finds one among the capabilities of the role.
ForbiddenToRobot(r) == CapsOf(r) \cap ForbiddenToRobots # {}

\* A target whose row is there and says it is a robot.
IsRobot(e) == e \in Robots /\ acct[e] # "none"

\* replace_entity_roles: the roles exist, and none is forbidden to a robot target; a
\* target without a row passes as a human.
CheckReplacement(s) ==
    /\ At(s, "go")
    /\ \E e \in Entities, R \in SUBSET Roles :
        /\ Cardinality(R) <= 1
        /\ \A r \in R : Live(r) /\ ~(IsRobot(e) /\ ForbiddenToRobot(r))
        /\ Goto(s, [Free EXCEPT !.pc = "replace", !.e = e, !.R = R, !.who = req[s].who])
    /\ UNCHANGED <<acct, caps, has>>
    /\ Blame(FALSE)

\* add_entity_role: the target exists, the role exists and is not forbidden to it.
CheckAddition(s) ==
    /\ At(s, "go")
    /\ \E e \in Entities, r \in Roles :
        /\ acct[e] # "none"
        /\ Live(r) /\ ~(IsRobot(e) /\ ForbiddenToRobot(r))
        /\ Goto(s, [Free EXCEPT !.pc = "add", !.e = e, !.R = {r}, !.who = req[s].who])
    /\ UNCHANGED <<acct, caps, has>>
    /\ Blame(FALSE)

\* create_or_revive_robot: the roles exist and none is forbidden to robots.
CheckRobotRoles(s) ==
    /\ At(s, "go")
    /\ \E e \in Robots, R \in SUBSET Roles :
        /\ Cardinality(R) <= 1
        /\ \A r \in R : Live(r) /\ ~ForbiddenToRobot(r)
        /\ Goto(s, [Free EXCEPT !.pc = "robot", !.e = e, !.R = R, !.who = req[s].who])
    /\ UNCHANGED <<acct, caps, has>>
    /\ Blame(FALSE)

\* The foreign keys of user_roles.
Insertable(e, R) == \A r \in R : acct[e] # "none" /\ Live(r)

\* add_user_role: INSERT OR IGNORE, which a broken foreign key still fails.
AddUserRole(e, R) ==
    has' = [has EXCEPT ![e] = IF Insertable(e, R) THEN @ \cup R ELSE @]

\* add_entity_role: the insertion.
AddRole(s) ==
    /\ At(s, "add")
    /\ AddUserRole(req[s].e, req[s].R)
    /\ Done(s)
    /\ UNCHANGED <<acct, caps>>
    /\ Blame(FALSE)

\* set_user_roles: delete and insert in one transaction.
SetUserRoles(e, R) ==
    has' = [has EXCEPT ![e] = IF Insertable(e, R) THEN R ELSE @]

\* replace_entity_roles: the transaction, then the guard if it committed.
ReplaceRoles(s) ==
    /\ At(s, "replace")
    /\ SetUserRoles(req[s].e, req[s].R)
    /\ IF Insertable(req[s].e, req[s].R)
       THEN Goto(s, [Free EXCEPT !.pc = "replaced", !.who = req[s].who])
       ELSE Done(s)
    /\ UNCHANGED <<acct, caps>>
    /\ Blame(FALSE)

\* remove_user_role deletes a row; without one it says so.
RemoveUserRole(e, r) ==
    /\ r \in has[e]
    /\ has' = [has EXCEPT ![e] = @ \ {r}]

\* remove_entity_role: the deletion; no such assignment is a 404.
RemoveRole(s) ==
    /\ At(s, "go")
    /\ \E e \in Entities, r \in Roles : RemoveUserRole(e, r)
    /\ Goto(s, [Free EXCEPT !.pc = "removed", !.who = req[s].who])
    /\ UNCHANGED <<acct, caps>>
    /\ Blame(FALSE)

\* The guard of replace_entity_roles: it answers 409 when nobody is left and restores
\* nothing.
GuardReplacement(s) ==
    /\ At(s, "replaced")
    /\ Done(s)
    /\ UNCHANGED <<acct, caps, has>>
    /\ Blame(~EntityAdminGuard)

\* The guard of remove_entity_role, which does not restore the assignment either.
GuardRemoval(s) ==
    /\ At(s, "removed")
    /\ Done(s)
    /\ UNCHANGED <<acct, caps, has>>
    /\ Blame(~EntityAdminGuard)

-----------------------------------------------------------------------------
(* Robots.                                                                  *)

\* create_robot_in_conn and revive_robot_in_conn: the account is active, with the
\* roles of the request only.
CreateRobot(e, R) ==
    /\ acct' = [acct EXCEPT ![e] = "active"]
    /\ has' = [has EXCEPT ![e] = R]

\* A tombstoned or disabled robot is a new identity: its old roles are deleted.
ReviveRobot(e, R) ==
    LET cleared == [has EXCEPT ![e] = {}]
    IN  /\ acct' = [acct EXCEPT ![e] = "active"]
        /\ has' = [cleared EXCEPT ![e] = @ \cup R]

\* create_or_revive in one immediate transaction: an active robot is refused, and a
\* role that is gone fails a foreign key.
CreateOrRevive(s) ==
    LET e == req[s].e
        R == req[s].R
    IN  /\ At(s, "robot")
        /\ \/ acct[e] = "none" /\ (\A r \in R : Live(r)) /\ CreateRobot(e, R)
           \/ acct[e] = "inactive" /\ (\A r \in R : Live(r)) /\ ReviveRobot(e, R)
           \/ (acct[e] = "active" \/ \E r \in R : ~Live(r)) /\ UNCHANGED <<acct, has>>
        /\ Done(s)
        /\ UNCHANGED caps
        /\ Blame(FALSE)

\* tombstone_robot looks the robot up; an unknown one is a 404.
FindRobot(s) ==
    /\ At(s, "go")
    /\ \E e \in Robots :
        /\ acct[e] # "none"
        /\ Goto(s, [Free EXCEPT !.pc = "tombstone", !.e = e, !.who = req[s].who])
    /\ UNCHANGED <<acct, caps, has>>
    /\ Blame(FALSE)

\* tombstone_robot: no guard, a robot is never counted.
Tombstone(s) ==
    /\ At(s, "tombstone")
    /\ acct' = [acct EXCEPT ![req[s].e] = "inactive"]
    /\ Done(s)
    /\ UNCHANGED <<caps, has>>
    /\ Blame(FALSE)

-----------------------------------------------------------------------------

\* A guard or a rollback is still to come.
Guarding == {"guard", "restore", "deleted", "replaced", "removed"}

\* The handler returns early (a refusal, a failing statement) or is dropped with
\* its connection.
Leave(s) ==
    /\ req[s].pc # "free"
    /\ Done(s)
    /\ UNCHANGED <<acct, caps, has>>
    /\ Blame(req[s].pc \in Guarding)

Step(s) ==
    \/ Permit(s) \/ Leave(s)
    \/ CreateEntity(s) \/ FindToDeactivate(s) \/ Deactivate(s)
    \/ FindToActivate(s) \/ Activate(s)
    \/ InsertRole(s) \/ FillRole(s)
    \/ FindRole(s) \/ ReadOldCaps(s) \/ WriteRole(s) \/ GuardUpdate(s) \/ RestoreRole(s)
    \/ ReadForDelete(s) \/ RemoveWholeRole(s) \/ GuardDelete(s)
    \/ CheckReplacement(s) \/ CheckAddition(s) \/ CheckRobotRoles(s)
    \/ AddRole(s) \/ ReplaceRoles(s) \/ RemoveRole(s)
    \/ GuardReplacement(s) \/ GuardRemoval(s)
    \/ CreateOrRevive(s) \/ FindRobot(s) \/ Tombstone(s)

Next ==
    \/ \E h \in Humans : Login(h)
    \/ \E s \in Slots : Step(s) \/ \E u \in Entities : Arrive(s, u)

Spec == Init /\ [][Next]_vars

-----------------------------------------------------------------------------
(* Properties.                                                              *)

Pcs == {"free", "caps", "go", "deactivate", "activate", "fill", "old", "write",
        "guard", "restore", "delete", "deleted", "replaced", "removed", "add", "replace",
        "robot", "tombstone"}

AnyCap == KnownCaps \cup NoRole \cup UNION {BuiltinCaps(r) : r \in Builtin}

Requests ==
    [pc : Pcs, who : Entities \cup {"nobody"}, e : Entities \cup {"nobody"},
     R : SUBSET Roles, body : SUBSET KnownCaps, old : SUBSET KnownCaps]

\* Every variable stays in its type: builtin roles stay as they were seeded, custom
\* ones carry known capabilities, assignments refer to existing roles and only
\* existing accounts have any (the foreign keys of user_roles).
TypeOK ==
    /\ acct \in [Entities -> {"none", "active", "inactive"}]
    /\ caps \in [Roles -> SUBSET AnyCap]
    /\ \A r \in Builtin : caps[r] = BuiltinCaps(r)
    /\ \A r \in Custom : caps[r] = NoRole \/ caps[r] \subseteq KnownCaps
    /\ has \in [Entities -> SUBSET Roles]
    /\ \A e \in Entities : \A r \in has[e] : Live(r) /\ acct[e] # "none"
    /\ req \in [Slots -> Requests]
    /\ lost \in BOOLEAN

\* No handler that administers accounts, roles or robots ever runs for a robot
\* (the strip in load_authed_user), whatever roles the robot was given and
\* whatever those roles were changed to carry afterwards.
RobotNeverManages ==
    \A s \in Slots : req[s].pc \notin {"free", "caps"} => req[s].who \notin Robots

\* When no active human holds the wildcard any more, either the handler that took
\* it away has still to run its guard or its rollback (last_admin_guard), or the
\* loss passed one of the gaps of the guard: it answered 409 and restored nothing,
\* the handler ended before it, or it looked at capabilities that had changed.
\* Deactivation in particular never takes the last administrator.
LockoutExplained ==
    ~Administered =>
        lost \/ \E s \in Slots : req[s].pc \in Guarding

\* design 003: "At least one active user must retain the * capability at all
\* times."
AdminRetained == Administered
=============================================================================
