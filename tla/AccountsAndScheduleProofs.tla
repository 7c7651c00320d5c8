--------------------- MODULE AccountsAndScheduleProofs ---------------------
(***************************************************************************)
(* Two components, for every value of their constants.                     *)
(*                                                                         *)
(* Accounts: type correctness (with the foreign keys, and the builtin      *)
(* roles as they were seeded), that no robot administers, and that every   *)
(* loss of the last administrator is explained.  Three facts about         *)
(* requests are needed on top of the properties: a robot handler works on  *)
(* a robot, so that it takes no administrator; a handler that rewrites a   *)
(* role has one that is not builtin; and a request that reached its        *)
(* handler is not a robot's.  AccountsInv adds them.                       *)
(*                                                                         *)
(* PeriodicScheduler: type correctness and the absence of a lost wake-up.  *)
(* PeriodicInv adds that the loop past its wait, and a request that is     *)
(* about to write, have a task.                                            *)
(***************************************************************************)
EXTENDS Accounts, PeriodicScheduler, FiniteSetTheorems, TLAPS

\* One custom role.
OneCustom(R) == \E r \in Custom : R = {r}

\* A request in progress: its target, its role and its caller fit its place.
GoodRequest(r) ==
    /\ r \in Requests
    /\ r.pc \in {"robot", "tombstone"} => r.e \in Robots
    /\ r.pc \in {"fill", "old", "write", "guard", "restore", "delete"} => OneCustom(r.R)
    /\ r.pc \notin {"free", "caps"} => r.who \notin Robots

\* The tables.
Tables ==
    /\ acct \in [Entities -> {"none", "active", "inactive"}]
    /\ caps \in [Roles -> SUBSET AnyCap]
    /\ \A r \in Builtin : caps[r] = BuiltinCaps(r)
    /\ \A r \in Custom : caps[r] = NoRole \/ caps[r] \subseteq KnownCaps
    /\ has \in [Entities -> SUBSET Roles]
    /\ \A e \in Entities : \A r \in has[e] : Live(r) /\ acct[e] # "none"

AccountsInv ==
    /\ Tables
    /\ req \in [Slots -> Requests] /\ \A s \in Slots : GoodRequest(req[s])
    /\ lost \in BOOLEAN
    /\ LockoutExplained

-----------------------------------------------------------------------------
(* Roles and capabilities *)

LEMMA KnownNotNone == \A C \in SUBSET KnownCaps : C # NoRole /\ C \in SUBSET AnyCap
BY DEF KnownCaps, NoRole, AnyCap

LEMMA BuiltinNotNone ==
    \A r \in Builtin : BuiltinCaps(r) # NoRole /\ BuiltinCaps(r) \in SUBSET AnyCap
<1>1. \A r \in {"admin", "builder", "viewer"} : BuiltinCaps(r) # NoRole
  BY DEF BuiltinCaps, NoRole
<1>2. \A r \in Builtin : BuiltinCaps(r) \in SUBSET AnyCap
  BY DEF AnyCap
<1> QED BY <1>1, <1>2, AccountsAssumption

\* A role is live from the start, or its capabilities are known ones.
LEMMA LiveRole ==
    ASSUME Tables
    PROVE  /\ \A r \in Builtin : Live(r)
           /\ \A r \in Custom : Live(r) <=> caps[r] \subseteq KnownCaps
           /\ \A r \in Custom : CapsOf(r) \subseteq KnownCaps
BY KnownNotNone, BuiltinNotNone DEF Tables, Live, CapsOf

\* The count of the guard finds somebody exactly when the system is administered.
LEMMA HoldersFound == ActiveHolders # {} <=> Administered
BY DEF ActiveHolders, Holders, Administered, EffectiveCaps

-----------------------------------------------------------------------------
(* Requests *)

LEMMA FreeGood == GoodRequest(Free) /\ Free.pc = "free"
BY DEF GoodRequest, Requests, Free, Pcs

\* One request goes on and the others stay.
LEMMA OneRequest ==
    ASSUME AccountsInv, NEW s \in Slots, NEW r, GoodRequest(r), Goto(s, r)
    PROVE  /\ req' \in [Slots -> Requests] /\ \A t \in Slots : GoodRequest(req'[t])
           /\ req'[s] = r /\ \A t \in Slots \ {s} : req'[t] = req[t]
BY DEF AccountsInv, Goto, GoodRequest

\* What a step of slot s has to show for the lockout: it keeps an administrator, or
\* is blamed, or goes on to a guard; and when it leaves a guard, somebody
\* administers or it is blamed.
LEMMA Explained ==
    ASSUME AccountsInv, NEW s \in Slots, NEW r, GoodRequest(r), Goto(s, r),
           NEW b \in BOOLEAN, Blame(b),
           (Administered => Administered') \/ b \/ r.pc \in Guarding,
           req[s].pc \in Guarding => b \/ r.pc \in Guarding \/ Administered
    PROVE  LockoutExplained' /\ lost' \in BOOLEAN
<1>1. /\ req'[s] = r /\ \A t \in Slots \ {s} : req'[t] = req[t]
  BY OneRequest
<1>2. lost' \in BOOLEAN
  BY DEF Blame
<1>3. CASE Administered'
  BY <1>2, <1>3 DEF LockoutExplained
<1>4. CASE ~Administered' /\ (lost \/ b)
  BY <1>2, <1>4, ZenonT(60) DEF LockoutExplained, Blame
<1>5. CASE r.pc \in Guarding
  BY <1>1, <1>2, <1>5 DEF LockoutExplained
<1>6. CASE ~Administered' /\ ~lost /\ ~b /\ r.pc \notin Guarding
  <2>1. ~Administered /\ req[s].pc \notin Guarding
    BY <1>6
  <2>2. PICK t \in Slots : req[t].pc \in Guarding
    BY <1>6, <2>1 DEF AccountsInv, LockoutExplained
  <2>3. req'[t].pc \in Guarding
    BY <1>1, <2>1, <2>2
  <2> QED BY <1>2, <2>3 DEF LockoutExplained
<1> QED BY <1>3, <1>4, <1>5, <1>6

LEMMA Assemble ==
    ASSUME AccountsInv, NEW s \in Slots, NEW r, GoodRequest(r), Goto(s, r),
           NEW b \in BOOLEAN, Blame(b), Tables',
           (Administered => Administered') \/ b \/ r.pc \in Guarding,
           req[s].pc \in Guarding => b \/ r.pc \in Guarding \/ Administered
    PROVE  AccountsInv'
BY OneRequest, Explained DEF AccountsInv

LEMMA SameTables ==
    ASSUME Tables, UNCHANGED << acct, caps, has >>
    PROVE  Tables' /\ (Administered' <=> Administered)
BY DEF Tables, Administered, Live, CapsOf

\* A step that changes no table.
LEMMA Quiet ==
    ASSUME AccountsInv, NEW s \in Slots, NEW r, GoodRequest(r), Goto(s, r),
           NEW b \in BOOLEAN, Blame(b), UNCHANGED << acct, caps, has >>,
           req[s].pc \in Guarding => b \/ r.pc \in Guarding \/ Administered
    PROVE  AccountsInv'
BY SameTables, Assemble DEF AccountsInv

\* A step that ends the request without changing a table.
LEMMA Ends ==
    ASSUME AccountsInv, NEW s \in Slots, Done(s), NEW b \in BOOLEAN, Blame(b),
           UNCHANGED << acct, caps, has >>,
           req[s].pc \in Guarding => b \/ Administered
    PROVE  AccountsInv'
BY FreeGood, Quiet DEF Done

\* An account that is there stays there, and a role assigned to it as well.
LEMMA AccountSet ==
    ASSUME Tables, NEW e, NEW v \in {"active", "inactive"},
           acct' = [acct EXCEPT ![e] = v], UNCHANGED << caps, has >>
    PROVE  Tables'
BY ZenonT(60) DEF Tables, Live

\* A custom role that is there gets other known capabilities.
LEMMA RoleSet ==
    ASSUME Tables, NEW s \in Slots, NEW C \in SUBSET KnownCaps, req[s].R \subseteq Custom,
           SetCaps(s, C), UNCHANGED << acct, has >>
    PROVE  Tables'
<1>1. \A r \in Roles : caps'[r] = IF r \in req[s].R /\ Live(r) THEN C ELSE caps[r]
  BY DEF SetCaps
<1>2. caps' \in [Roles -> SUBSET AnyCap]
  BY KnownNotNone DEF SetCaps, Tables
<1>3. \A r \in Builtin : caps'[r] = BuiltinCaps(r)
  BY <1>1, AccountsAssumption DEF Tables, Roles
<1>4. \A r \in Custom : caps'[r] = NoRole \/ caps'[r] \subseteq KnownCaps
  BY <1>1 DEF Tables, Roles
<1>5. \A r \in Roles : Live(r) => Live(r)'
  BY <1>1, KnownNotNone DEF Live
<1>6. \A e \in Entities : \A r \in has'[e] : Live(r)' /\ acct'[e] # "none"
  BY <1>5 DEF Tables
<1> QED BY <1>2, <1>3, <1>4, <1>6 DEF Tables

\* The roles of one account are replaced by live ones.
LEMMA RolesSet ==
    ASSUME Tables, NEW e \in Entities, NEW R \in SUBSET Roles,
           \A r \in R : Live(r) /\ acct'[e] # "none",
           acct' = acct \/ \E v \in {"active", "inactive"} : acct' = [acct EXCEPT ![e] = v],
           has' = [has EXCEPT ![e] = R], UNCHANGED caps
    PROVE  Tables'
<1>1. \A r \in Roles : Live(r)' <=> Live(r)
  BY DEF Live
<1>2. acct' \in [Entities -> {"none", "active", "inactive"}]
  BY DEF Tables
<1>3. \A d \in Entities : acct[d] # "none" => acct'[d] # "none"
  BY DEF Tables
<1>4. has' \in [Entities -> SUBSET Roles]
  BY DEF Tables
<1>5. \A d \in Entities : \A r \in has'[d] : Live(r)' /\ acct'[d] # "none"
  BY <1>1, <1>3, <1>4 DEF Tables
<1> QED BY <1>2, <1>4, <1>5 DEF Tables

-----------------------------------------------------------------------------
(* The administrator *)

\* Whoever administers goes on while the account, its roles and their wildcards stay.
LEMMA StillAdministered ==
    ASSUME Tables,
           \A h \in Humans : acct[h] = "active" => acct'[h] = "active",
           \A h \in Humans : has[h] \subseteq has'[h],
           \A r \in Roles : "*" \in CapsOf(r) => ("*" \in CapsOf(r))'
    PROVE  Administered => Administered'
BY DEF Administered, Tables, Entities

-----------------------------------------------------------------------------
(* One lemma per action *)

LEMMA LoginInv == ASSUME AccountsInv, NEW h \in Humans, Login(h) PROVE AccountsInv'
<1>1. Tables /\ Tables'
  BY AccountSet, ZenonT(60) DEF AccountsInv, Login
<1>2. Administered => Administered'
  BY <1>1, StillAdministered DEF Login, CapsOf, Live, Tables, Entities
<1>3. lost' \in BOOLEAN /\ req' = req
  BY DEF Login, Blame
<1>4. LockoutExplained'
  BY <1>2, <1>3 DEF AccountsInv, LockoutExplained, Login, Blame
<1> QED BY <1>1, <1>3, <1>4 DEF AccountsInv

LEMMA ArriveInv ==
    ASSUME AccountsInv, NEW s \in Slots, NEW u \in Entities, Arrive(s, u)
    PROVE  AccountsInv'
<1> DEFINE r == [Free EXCEPT !.pc = "caps", !.who = u]
<1>1. GoodRequest(r) /\ r.pc = "caps"
  BY ZenonT(60) DEF GoodRequest, Requests, Free, Pcs
<1>2. Goto(s, r) /\ req[s].pc \notin Guarding
  BY DEF Arrive, At, Guarding
<1> HIDE DEF r
<1> QED BY <1>1, <1>2, Quiet, ZenonT(60) DEF Arrive

LEMMA PermitInv == ASSUME AccountsInv, NEW s \in Slots, Permit(s) PROVE AccountsInv'
<1> DEFINE r == [req[s] EXCEPT !.pc = "go"]
<1>1. GoodRequest(req[s]) /\ req[s].pc = "caps" /\ req[s].pc \notin Guarding
  BY DEF AccountsInv, Permit, At, Guarding
<1>2. CASE MayManage(Granted(req[s].who)) /\ Goto(s, r)
  <2>1. req[s].who \notin Robots
    BY <1>2 DEF MayManage, Granted, ForbiddenToRobots
  <2>2. GoodRequest(r)
    BY <1>1, <2>1 DEF GoodRequest, Requests, Pcs
  <2> HIDE DEF r
  <2> QED BY <1>1, <1>2, <2>2, Quiet, ZenonT(60) DEF Permit
<1>3. CASE Done(s)
  BY <1>1, <1>3, Ends, ZenonT(60) DEF Permit
<1> QED BY <1>2, <1>3 DEF Permit

\* A request that starts to work on account e with roles R.
LEMMA RequestTargets ==
    ASSUME AccountsInv, NEW s \in Slots, At(s, "go"),
           NEW pc \in {"deactivate", "activate", "tombstone", "robot", "replace", "add",
                       "deleted", "replaced", "removed"},
           NEW e \in Entities \cup {"nobody"}, pc \in {"robot", "tombstone"} => e \in Robots,
           NEW R \in SUBSET Roles
    PROVE  /\ GoodRequest([Free EXCEPT !.pc = pc, !.e = e, !.who = req[s].who])
           /\ GoodRequest([Free EXCEPT !.pc = pc, !.e = e, !.R = R, !.who = req[s].who])
           /\ req[s].pc \notin Guarding
<1>1. /\ req[s] \in Requests /\ req[s].who \in Entities \cup {"nobody"}
      /\ req[s].who \notin Robots /\ req[s].pc = "go"
  BY DEF AccountsInv, GoodRequest, At, Requests
<1>2. pc \in Pcs
  BY DEF Pcs
<1> QED BY <1>1, <1>2, ZenonT(60) DEF GoodRequest, Requests, Free, Guarding

LEMMA FindToDeactivateInv ==
    ASSUME AccountsInv, NEW s \in Slots, FindToDeactivate(s) PROVE AccountsInv'
<1>1. PICK e \in Entities : Goto(s, [Free EXCEPT !.pc = "deactivate", !.e = e, !.who = req[s].who])
  BY ZenonT(60) DEF FindToDeactivate
<1> QED BY <1>1, RequestTargets, Quiet, ZenonT(60) DEF FindToDeactivate

LEMMA FindToActivateInv ==
    ASSUME AccountsInv, NEW s \in Slots, FindToActivate(s) PROVE AccountsInv'
<1>1. PICK e \in Entities : Goto(s, [Free EXCEPT !.pc = "activate", !.e = e, !.who = req[s].who])
  BY ZenonT(60) DEF FindToActivate
<1> QED BY <1>1, RequestTargets, Quiet, ZenonT(60) DEF FindToActivate

LEMMA FindRobotInv == ASSUME AccountsInv, NEW s \in Slots, FindRobot(s) PROVE AccountsInv'
<1>1. PICK e \in Robots : Goto(s, [Free EXCEPT !.pc = "tombstone", !.e = e, !.who = req[s].who])
  BY ZenonT(60) DEF FindRobot
<1>2. e \in Entities
  BY DEF Entities
<1> QED BY <1>1, <1>2, RequestTargets, Quiet, ZenonT(60) DEF FindRobot

LEMMA CheckReplacementInv ==
    ASSUME AccountsInv, NEW s \in Slots, CheckReplacement(s) PROVE AccountsInv'
<1>1. PICK e \in Entities, R \in SUBSET Roles :
        Goto(s, [Free EXCEPT !.pc = "replace", !.e = e, !.R = R, !.who = req[s].who])
  BY ZenonT(60) DEF CheckReplacement
<1> QED BY <1>1, RequestTargets, Quiet, ZenonT(60) DEF CheckReplacement

LEMMA CheckAdditionInv ==
    ASSUME AccountsInv, NEW s \in Slots, CheckAddition(s) PROVE AccountsInv'
<1>1. PICK e \in Entities, R \in SUBSET Roles :
        Goto(s, [Free EXCEPT !.pc = "add", !.e = e, !.R = R, !.who = req[s].who])
  BY ZenonT(60) DEF CheckAddition
<1> QED BY <1>1, RequestTargets, Quiet, ZenonT(60) DEF CheckAddition

LEMMA CheckRobotRolesInv ==
    ASSUME AccountsInv, NEW s \in Slots, CheckRobotRoles(s) PROVE AccountsInv'
<1>1. PICK e \in Robots, R \in SUBSET Roles :
        Goto(s, [Free EXCEPT !.pc = "robot", !.e = e, !.R = R, !.who = req[s].who])
  BY ZenonT(60) DEF CheckRobotRoles
<1>2. e \in Entities
  BY DEF Entities
<1> QED BY <1>1, <1>2, RequestTargets, Quiet, ZenonT(60) DEF CheckRobotRoles

LEMMA CreateEntityInv ==
    ASSUME AccountsInv, NEW s \in Slots, CreateEntity(s) PROVE AccountsInv'
<1>1. PICK h \in Humans, R \in SUBSET Roles : ProvisionUser(h, R)
  BY DEF CreateEntity
<1>2. Tables /\ h \in Entities
  BY DEF AccountsInv, Entities
<1>3. acct'[h] = "active" /\ UNCHANGED caps
  BY <1>1, <1>2 DEF ProvisionUser, CreateEntity, Tables
<1>4. Tables'
  BY <1>1, <1>2, <1>3, RolesSet, ZenonT(60) DEF ProvisionUser
<1>5. has[h] = {}
  BY <1>1, <1>2 DEF Tables, ProvisionUser
<1>6. Administered => Administered'
  BY <1>1, <1>2, <1>3, <1>5, StillAdministered
     DEF ProvisionUser, CapsOf, Live, Tables, Entities
<1>7. req[s].pc \notin Guarding
  BY DEF CreateEntity, At, Guarding
<1> QED BY <1>4, <1>6, <1>7, FreeGood, Assemble, ZenonT(60) DEF CreateEntity, Done

LEMMA DeactivateInv ==
    ASSUME AccountsInv, NEW s \in Slots, Deactivate(s) PROVE AccountsInv'
<1> DEFINE off == [acct EXCEPT ![req[s].e] = "inactive"]
<1>1. req[s].pc \notin Guarding /\ Done(s) /\ Blame(FALSE) /\ UNCHANGED << caps, has >>
  BY ZenonT(60) DEF Deactivate, At, Guarding
<1>2. CASE Holders(off) = {} /\ acct' = acct
  BY <1>1, <1>2, Ends, ZenonT(60)
<1>3. CASE Holders(off) # {} /\ acct' = off
  <2>1. Tables'
    BY <1>1, <1>3, AccountSet, ZenonT(60) DEF AccountsInv
  <2>2. Administered'
    BY <1>1, <1>3 DEF Holders, EffectiveCaps, Administered, CapsOf, Live
  <2> QED BY <1>1, <2>1, <2>2, FreeGood, Assemble, ZenonT(60) DEF Done
<1> QED BY <1>2, <1>3, ZenonT(60) DEF Deactivate

LEMMA ActivateInv ==
    ASSUME AccountsInv, NEW s \in Slots, Activate(s) PROVE AccountsInv'
<1>1. req[s].pc \notin Guarding /\ Done(s) /\ Blame(FALSE) /\ UNCHANGED << caps, has >>
  BY ZenonT(60) DEF Activate, At, Guarding
<1>2. CASE UNCHANGED acct
  BY <1>1, <1>2, Ends, ZenonT(60)
<1>3. CASE acct' = [acct EXCEPT ![req[s].e] = "active"]
  <2>1. Tables /\ Tables'
    BY <1>1, <1>3, AccountSet, ZenonT(60) DEF AccountsInv
  <2>2. Administered => Administered'
    BY <1>1, <1>3, <2>1, StillAdministered DEF CapsOf, Live, Tables, Entities
  <2> QED BY <1>1, <2>1, <2>2, FreeGood, Assemble, ZenonT(60) DEF Done
<1> QED BY <1>2, <1>3 DEF Activate

LEMMA TombstoneInv ==
    ASSUME AccountsInv, NEW s \in Slots, Tombstone(s) PROVE AccountsInv'
<1>1. req[s].pc \notin Guarding /\ req[s].e \in Robots
  BY DEF Tombstone, At, Guarding, AccountsInv, GoodRequest
<1>2. Tables /\ Tables'
  BY AccountSet, ZenonT(60) DEF AccountsInv, Tombstone
<1>3. Administered => Administered'
  BY <1>1, <1>2, StillAdministered, AccountsAssumption
     DEF Tombstone, CapsOf, Live, Tables, Entities
<1> QED BY <1>1, <1>2, <1>3, FreeGood, Assemble, ZenonT(60) DEF Tombstone, Done

LEMMA CreateOrReviveInv ==
    ASSUME AccountsInv, NEW s \in Slots, CreateOrRevive(s) PROVE AccountsInv'
<1> DEFINE e == req[s].e
           R == req[s].R
<1>1. /\ req[s].pc \notin Guarding /\ Done(s) /\ Blame(FALSE) /\ UNCHANGED caps
      /\ e \in Robots /\ e \in Entities /\ R \in SUBSET Roles /\ Tables
  BY ZenonT(60) DEF CreateOrRevive, At, Guarding, AccountsInv, GoodRequest, Entities, Requests
<1>2. CASE UNCHANGED << acct, has >>
  BY <1>1, <1>2, Ends, ZenonT(60)
<1>3. CASE /\ \A r \in R : Live(r)
           /\ CreateRobot(e, R) \/ ReviveRobot(e, R)
  <2> HIDE DEF e, R
  <2>1. acct' = [acct EXCEPT ![e] = "active"] /\ has' = [has EXCEPT ![e] = R]
    BY <1>1, <1>3, ZenonT(60) DEF CreateRobot, ReviveRobot, Tables
  <2>2. acct'[e] = "active"
    BY <1>1, <2>1 DEF Tables
  <2>3. Tables'
    BY <1>1, <1>3, <2>1, <2>2, RolesSet, ZenonT(60)
  <2>4. Administered => Administered'
    BY <1>1, <2>1, StillAdministered, AccountsAssumption DEF CapsOf, Live, Tables, Entities
  <2> QED BY <1>1, <2>3, <2>4, FreeGood, Assemble, ZenonT(60) DEF Done
<1> QED BY <1>2, <1>3 DEF CreateOrRevive

LEMMA AddRoleInv == ASSUME AccountsInv, NEW s \in Slots, AddRole(s) PROVE AccountsInv'
<1> DEFINE e == req[s].e
           R == req[s].R
<1>1. /\ req[s].pc \notin Guarding /\ Done(s) /\ Blame(FALSE) /\ UNCHANGED << acct, caps >>
      /\ R \in SUBSET Roles /\ Tables
  BY ZenonT(60) DEF AddRole, At, Guarding, AccountsInv, GoodRequest, Requests
<1>2. CASE has' = has
  BY <1>1, <1>2, Ends, ZenonT(60)
<1>3. CASE e \in Entities /\ Insertable(e, R) /\ has' = [has EXCEPT ![e] = @ \cup R]
  <2> HIDE DEF e, R
  <2>1. has[e] \cup R \in SUBSET Roles /\ \A r \in has[e] \cup R : Live(r) /\ acct'[e] # "none"
    BY <1>1, <1>3 DEF Insertable, Tables
  <2>2. Tables'
    BY <1>1, <1>3, <2>1, RolesSet, ZenonT(60)
  <2>3. Administered => Administered'
    BY <1>1, <1>3, StillAdministered DEF CapsOf, Live, Tables, Entities
  <2> QED BY <1>1, <2>2, <2>3, FreeGood, Assemble, ZenonT(60) DEF Done
<1> QED BY <1>1, <1>2, <1>3, ZenonT(60) DEF AddRole, AddUserRole, Tables

LEMMA ReplaceRolesInv ==
    ASSUME AccountsInv, NEW s \in Slots, ReplaceRoles(s) PROVE AccountsInv'
<1> DEFINE e == req[s].e
           R == req[s].R
           r == [Free EXCEPT !.pc = "replaced", !.who = req[s].who]
<1>1. /\ req[s].pc \notin Guarding /\ Blame(FALSE) /\ UNCHANGED << acct, caps >>
      /\ R \in SUBSET Roles /\ Tables
  BY ZenonT(60) DEF ReplaceRoles, At, Guarding, AccountsInv, GoodRequest, Requests
<1>2. GoodRequest(r) /\ r.pc \in Guarding
  BY ZenonT(60) DEF ReplaceRoles, At, AccountsInv, GoodRequest, Requests, Free, Guarding, Pcs
<1>3. CASE ~Insertable(e, R) /\ Done(s) /\ has' = has
  BY <1>1, <1>3, Ends, ZenonT(60)
<1>4. CASE Insertable(e, R) /\ Goto(s, r) /\ has' = [has EXCEPT ![e] = R]
  <2>1. Tables'
    <3>1. CASE e \in Entities
      BY <1>1, <1>4, <3>1, RolesSet, ZenonT(60) DEF Insertable
    <3>2. CASE e \notin Entities
      BY <1>1, <1>4, <3>2, SameTables DEF Tables
    <3> QED BY <3>1, <3>2
  <2> HIDE DEF r
  <2> QED BY <1>1, <1>2, <1>4, <2>1, Assemble, ZenonT(60)
<1>5. has' = [has EXCEPT ![e] = has[e]] => has' = has
  BY <1>1 DEF Tables
<1> QED BY <1>3, <1>4, <1>5, ZenonT(60) DEF ReplaceRoles, SetUserRoles

LEMMA RemoveRoleInv ==
    ASSUME AccountsInv, NEW s \in Slots, RemoveRole(s) PROVE AccountsInv'
<1> DEFINE q == [Free EXCEPT !.pc = "removed", !.who = req[s].who]
<1>1. GoodRequest(q) /\ q.pc \in Guarding /\ req[s].pc \notin Guarding
  BY ZenonT(60) DEF RemoveRole, At, AccountsInv, GoodRequest, Requests, Free, Guarding, Pcs
<1>2. PICK e \in Entities, r \in Roles : RemoveUserRole(e, r)
  BY DEF RemoveRole
<1>3. Tables /\ UNCHANGED << acct, caps >>
  BY DEF AccountsInv, RemoveRole
<1>4. has[e] \ {r} \in SUBSET Roles /\ \A x \in has[e] \ {r} : Live(x) /\ acct'[e] # "none"
  BY <1>2, <1>3 DEF Tables
<1>5. Tables'
  BY <1>2, <1>3, <1>4, RolesSet, ZenonT(60) DEF RemoveUserRole
<1> HIDE DEF q
<1>6. Goto(s, q) /\ Blame(FALSE)
  BY ZenonT(60) DEF RemoveRole, q
<1> QED BY <1>1, <1>5, <1>6, Assemble, ZenonT(60)

\* A request that goes on with a custom role.
LEMMA WithRole ==
    ASSUME NEW w \in Requests, w.who \notin Robots,
           NEW pc \in {"fill", "old", "write", "guard", "restore", "delete"},
           NEW R, OneCustom(R), NEW C \in SUBSET KnownCaps, NEW D \in SUBSET KnownCaps
    PROVE  /\ GoodRequest([w EXCEPT !.pc = pc, !.R = R, !.body = C])
           /\ GoodRequest([w EXCEPT !.pc = pc, !.R = R, !.old = D])
           /\ OneCustom(w.R) => /\ GoodRequest([w EXCEPT !.pc = pc, !.old = D])
                                /\ GoodRequest([w EXCEPT !.pc = pc, !.body = C])
                                /\ GoodRequest([w EXCEPT !.pc = pc])
<1>1. pc \in Pcs /\ R \in SUBSET Roles
  BY DEF Pcs, Roles, OneCustom
<1>2. GoodRequest([w EXCEPT !.pc = pc, !.R = R, !.body = C])
  BY <1>1, ZenonT(60) DEF GoodRequest, Requests
<1>3. GoodRequest([w EXCEPT !.pc = pc, !.R = R, !.old = D])
  BY <1>1, ZenonT(60) DEF GoodRequest, Requests
<1>4. ASSUME OneCustom(w.R) PROVE GoodRequest([w EXCEPT !.pc = pc, !.old = D])
  BY <1>1, <1>4, ZenonT(60) DEF GoodRequest, Requests
<1>5. ASSUME OneCustom(w.R) PROVE GoodRequest([w EXCEPT !.pc = pc, !.body = C])
  BY <1>1, <1>5, ZenonT(60) DEF GoodRequest, Requests
<1>6. ASSUME OneCustom(w.R) PROVE GoodRequest([w EXCEPT !.pc = pc])
  BY <1>1, <1>6 DEF GoodRequest, Requests
<1> QED BY <1>2, <1>3, <1>4, <1>5, <1>6

LEMMA Fields ==
    ASSUME AccountsInv, NEW s \in Slots
    PROVE  /\ req[s] \in Requests
           /\ req[s].body \in SUBSET KnownCaps /\ req[s].old \in SUBSET KnownCaps
           /\ req[s].pc \notin {"free", "caps"} => req[s].who \notin Robots
BY DEF AccountsInv, GoodRequest, Requests

LEMMA InsertRoleInv ==
    ASSUME AccountsInv, NEW s \in Slots, InsertRole(s) PROVE AccountsInv'
<1>1. PICK r \in Roles, C \in CapSets :
        /\ ValidateCaps(C) /\ CreateRole(r)
        /\ Goto(s, [req[s] EXCEPT !.pc = "fill", !.R = {r}, !.body = C])
  BY ZenonT(60) DEF InsertRole
<1>2. Tables /\ r \in Custom /\ OneCustom({r}) /\ C \in SUBSET KnownCaps
  BY <1>1, LiveRole DEF OneCustom, AccountsInv, CreateRole, Roles, ValidateCaps
<1> DEFINE q == [req[s] EXCEPT !.pc = "fill", !.R = {r}, !.body = C]
<1>3. Goto(s, q)
  BY <1>1
<1>4. req[s].pc \notin Guarding /\ req[s].pc = "go"
  BY DEF InsertRole, At, Guarding
<1>5. GoodRequest(q)
  BY <1>2, <1>4, WithRole, Fields, ZenonT(60)
<1> HIDE DEF q
<1>6. caps' = [caps EXCEPT ![r] = {}] /\ UNCHANGED << acct, has >> /\ ~Live(r)
  BY <1>1, ZenonT(60) DEF CreateRole, InsertRole
<1>7. {} \in SUBSET KnownCaps /\ {} \in SUBSET AnyCap /\ {} # NoRole
  BY KnownNotNone
<1>8. caps' \in [Roles -> SUBSET AnyCap] /\ \A x \in Roles : caps'[x] = IF x = r THEN {} ELSE caps[x]
  BY <1>1, <1>2, <1>6, <1>7 DEF Tables
<1>9. Tables'
  <2>1. \A x \in Builtin : caps'[x] = BuiltinCaps(x)
    BY <1>2, <1>8, AccountsAssumption DEF Tables, Roles
  <2>2. \A x \in Custom : caps'[x] = NoRole \/ caps'[x] \subseteq KnownCaps
    BY <1>2, <1>8 DEF Tables, Roles
  <2>3. \A x \in Roles : Live(x) => Live(x)'
    BY <1>7, <1>8 DEF Live
  <2>4. \A e \in Entities : \A x \in has'[e] : Live(x)' /\ acct'[e] # "none"
    BY <1>2, <1>6, <2>3 DEF Tables
  <2> QED BY <1>2, <1>6, <1>8, <2>1, <2>2, <2>4 DEF Tables
<1>10. \A x \in Roles : "*" \in CapsOf(x) => ("*" \in CapsOf(x))'
  BY <1>6, <1>8 DEF CapsOf, Live
<1>11. Administered => Administered'
  BY <1>2, <1>6, <1>10, StillAdministered
<1> QED BY <1>3, <1>4, <1>5, <1>9, <1>11, Assemble, ZenonT(60) DEF InsertRole

LEMMA FillRoleInv == ASSUME AccountsInv, NEW s \in Slots, FillRole(s) PROVE AccountsInv'
<1>1. req[s].R \subseteq Custom /\ req[s].body \in SUBSET KnownCaps /\ Tables
  BY Fields DEF FillRole, At, AccountsInv, GoodRequest, OneCustom
<1>2. Tables'
  BY <1>1, RoleSet DEF FillRole
<1> QED BY <1>2, FreeGood, Assemble, ZenonT(60) DEF FillRole, Done

LEMMA RestoreRoleInv ==
    ASSUME AccountsInv, NEW s \in Slots, RestoreRole(s) PROVE AccountsInv'
<1>1. req[s].R \subseteq Custom /\ req[s].old \in SUBSET KnownCaps /\ Tables
  BY Fields DEF RestoreRole, At, AccountsInv, GoodRequest, OneCustom
<1>2. Tables'
  BY <1>1, RoleSet DEF RestoreRole
<1> QED BY <1>2, FreeGood, Assemble, ZenonT(60) DEF RestoreRole, Done

LEMMA FindRoleInv == ASSUME AccountsInv, NEW s \in Slots, FindRole(s) PROVE AccountsInv'
<1>1. PICK r \in Roles, C \in CapSets :
        /\ ValidateCaps(C) /\ ~IsRoleBuiltin(r) /\ Live(r)
        /\ Goto(s, [req[s] EXCEPT !.pc = "old", !.R = {r}, !.body = C])
  BY ZenonT(60) DEF FindRole
<1>2. OneCustom({r}) /\ C \in SUBSET KnownCaps
  BY <1>1 DEF OneCustom, IsRoleBuiltin, Roles, ValidateCaps
<1> DEFINE q == [req[s] EXCEPT !.pc = "old", !.R = {r}, !.body = C]
<1>3. Goto(s, q) /\ req[s].pc = "go" /\ req[s].pc \notin Guarding
  BY <1>1 DEF FindRole, At, Guarding
<1>4. GoodRequest(q)
  BY <1>2, <1>3, WithRole, Fields, ZenonT(60)
<1> HIDE DEF q
<1> QED BY <1>3, <1>4, Quiet, ZenonT(60) DEF FindRole

LEMMA ReadOldCapsInv ==
    ASSUME AccountsInv, NEW s \in Slots, ReadOldCaps(s) PROVE AccountsInv'
<1> DEFINE D == UNION {CapsOf(r) : r \in req[s].R}
           q == [req[s] EXCEPT !.pc = "write", !.old = D]
<1>1. OneCustom(req[s].R) /\ Tables /\ req[s].pc = "old" /\ req[s].pc \notin Guarding
  BY DEF ReadOldCaps, At, AccountsInv, GoodRequest, Guarding
<1>2. D \in SUBSET KnownCaps
  BY <1>1, LiveRole DEF OneCustom
<1> HIDE DEF D
<1>3. Goto(s, q)
  BY DEF ReadOldCaps, D
<1>4. GoodRequest(q)
  BY <1>1, <1>2, WithRole, Fields, ZenonT(60)
<1> HIDE DEF q
<1> QED BY <1>1, <1>3, <1>4, Quiet, ZenonT(60) DEF ReadOldCaps

LEMMA WriteRoleInv == ASSUME AccountsInv, NEW s \in Slots, WriteRole(s) PROVE AccountsInv'
<1> DEFINE C == req[s].body
           q == [req[s] EXCEPT !.pc = "guard", !.body = {}]
           b == "*" \notin req[s].old
<1>1. /\ OneCustom(req[s].R) /\ C \in SUBSET KnownCaps /\ Tables
      /\ req[s].pc = "write" /\ req[s].pc \notin Guarding
      /\ SetCaps(s, C) /\ UNCHANGED << acct, has >> /\ Blame(b) /\ b \in BOOLEAN
  BY Fields DEF WriteRole, At, AccountsInv, GoodRequest, Guarding
<1>2. Tables'
  BY <1>1, RoleSet DEF OneCustom
<1>3. CASE Goto(s, q)
  <2>1. {} \in SUBSET KnownCaps
    OBVIOUS
  <2>2. GoodRequest(q)
    BY <1>1, <2>1, WithRole, Fields, ZenonT(60)
  <2>3. q.pc \in Guarding
    BY Fields DEF Requests, Guarding
  <2> HIDE DEF q, b, C
  <2> QED BY <1>1, <1>2, <1>3, <2>2, <2>3, Assemble
<1>4. CASE Done(s) /\ ("*" \notin req[s].old \ C \/ \E r \in req[s].R : ~Live(r))
  <2>1. CASE b
    <3> HIDE DEF b, C
    <3> QED BY <1>1, <1>2, <1>4, <2>1, FreeGood, Assemble, ZenonT(60) DEF Done
  <2>2. CASE "*" \in C \/ \E r \in req[s].R : ~Live(r)
    <3>1. ASSUME NEW r \in Roles, "*" \in CapsOf(r) PROVE ("*" \in CapsOf(r))'
      <4>1. caps'[r] = IF r \in req[s].R /\ Live(r) THEN C ELSE caps[r]
        BY <1>1 DEF SetCaps
      <4>2. Live(r)
        BY <3>1 DEF CapsOf
      <4> QED BY <1>1, <2>2, <3>1, <4>1, <4>2, KnownNotNone DEF CapsOf, Live, OneCustom
    <3>2. Administered => Administered'
      BY <1>1, <3>1, StillAdministered
    <3> HIDE DEF b, C
    <3> QED BY <1>1, <1>2, <1>4, <3>2, FreeGood, Assemble DEF Done
  <2> QED BY <1>4, <2>1, <2>2
<1> QED BY <1>3, <1>4 DEF WriteRole

LEMMA GuardUpdateInv ==
    ASSUME AccountsInv, NEW s \in Slots, GuardUpdate(s) PROVE AccountsInv'
<1> DEFINE q == [req[s] EXCEPT !.pc = "restore"]
<1>1. OneCustom(req[s].R) /\ req[s].pc = "guard"
  BY DEF GuardUpdate, At, AccountsInv, GoodRequest
<1>2. CASE LastAdminGuard /\ Done(s)
  BY <1>2, HoldersFound, Ends, ZenonT(60) DEF LastAdminGuard, GuardUpdate
<1>3. CASE Goto(s, q)
  <2>1. GoodRequest(q) /\ q.pc \in Guarding
    BY <1>1, WithRole, Fields, ZenonT(60) DEF Requests, Guarding
  <2> HIDE DEF q
  <2> QED BY <1>3, <2>1, Quiet, ZenonT(60) DEF GuardUpdate
<1> QED BY <1>2, <1>3 DEF GuardUpdate

LEMMA ReadForDeleteInv ==
    ASSUME AccountsInv, NEW s \in Slots, ReadForDelete(s) PROVE AccountsInv'
<1>1. PICK r \in Roles :
        /\ ~IsRoleBuiltin(r)
        /\ Goto(s, [req[s] EXCEPT !.pc = "delete", !.R = {r}, !.old = CapsOf(r)])
  BY ZenonT(60) DEF ReadForDelete
<1> DEFINE q == [req[s] EXCEPT !.pc = "delete", !.R = {r}, !.old = CapsOf(r)]
<1>2. OneCustom({r}) /\ CapsOf(r) \in SUBSET KnownCaps
  BY <1>1, LiveRole DEF AccountsInv, OneCustom, IsRoleBuiltin, Roles
<1>3. req[s].pc = "go" /\ req[s].pc \notin Guarding
  BY DEF ReadForDelete, At, Guarding
<1>4. GoodRequest(q)
  BY <1>2, <1>3, WithRole, Fields, ZenonT(60)
<1>5. Goto(s, q)
  BY <1>1
<1> HIDE DEF q
<1> QED BY <1>3, <1>4, <1>5, Quiet, ZenonT(60) DEF ReadForDelete

LEMMA RemoveWholeRoleInv ==
    ASSUME AccountsInv, NEW s \in Slots, RemoveWholeRole(s) PROVE AccountsInv'
<1> DEFINE q == [Free EXCEPT !.pc = "deleted", !.who = req[s].who]
           b == "*" \notin req[s].old
<1>1. PICK r \in req[s].R :
        /\ DeleteRole(r)
        /\ IF "*" \in req[s].old /\ Live(r) THEN Goto(s, q) ELSE Done(s)
  BY DEF RemoveWholeRole
<1>2. /\ r \in Custom /\ r \in Roles /\ ~IsRoleBuiltin(r) /\ Tables
      /\ req[s].pc \notin Guarding /\ Blame(b) /\ b \in BOOLEAN /\ UNCHANGED acct
  BY <1>1, AccountsAssumption
     DEF RemoveWholeRole, At, AccountsInv, GoodRequest, OneCustom, Guarding, Roles, IsRoleBuiltin
<1>3. /\ caps' = [caps EXCEPT ![r] = NoRole]
      /\ has' = [e \in Entities |-> has[e] \ {r}]
  BY <1>1, <1>2 DEF DeleteRole
<1>4. Tables'
  <2>1. NoRole \in SUBSET AnyCap
    BY DEF AnyCap
  <2>2. caps' \in [Roles -> SUBSET AnyCap] /\ \A x \in Roles : x # r => caps'[x] = caps[x]
    BY <1>2, <1>3, <2>1 DEF Tables
  <2>3. \A x \in Builtin : caps'[x] = BuiltinCaps(x)
    BY <1>2, <2>2, AccountsAssumption, ZenonT(60) DEF Tables, Roles
  <2>4. \A x \in Custom : caps'[x] = NoRole \/ caps'[x] \subseteq KnownCaps
    BY <1>2, <1>3, <2>2 DEF Tables, Roles
  <2>5. has' \in [Entities -> SUBSET Roles]
    BY <1>2, <1>3 DEF Tables
  <2>6. \A e \in Entities : \A x \in has'[e] : x \in has[e] /\ x # r /\ x \in Roles
    BY <1>2, <1>3 DEF Tables
  <2>7. \A e \in Entities : \A x \in has'[e] : Live(x)' /\ acct'[e] # "none"
    BY <1>2, <2>2, <2>6 DEF Tables, Live
  <2> QED BY <1>2, <2>2, <2>3, <2>4, <2>5, <2>7 DEF Tables
<1>5. CASE Goto(s, q)
  <2>1. GoodRequest(q) /\ q.pc \in Guarding
    BY ZenonT(60) DEF RemoveWholeRole, At, AccountsInv, GoodRequest, Requests, Free, Guarding, Pcs
  <2> HIDE DEF q, b
  <2> QED BY <1>2, <1>4, <1>5, <2>1, Assemble
<1>6. CASE Done(s) /\ ~("*" \in req[s].old /\ Live(r))
  <2>1. CASE b
    <3> HIDE DEF b
    <3> QED BY <1>2, <1>4, <1>6, <2>1, FreeGood, Assemble, ZenonT(60) DEF Done
  <2>2. CASE ~Live(r)
    <3>1. caps' = caps
      BY <1>2, <1>3, <2>2 DEF Tables, Live
    <3>2. \A e \in Entities : has'[e] = has[e]
      BY <1>2, <1>3, <2>2 DEF Tables
    <3>3. Administered => Administered'
      BY <1>2, <3>1, <3>2, StillAdministered DEF CapsOf, Live, Entities
    <3> HIDE DEF b
    <3> QED BY <1>2, <1>4, <1>6, <3>3, FreeGood, Assemble DEF Done
  <2> QED BY <1>6, <2>1, <2>2
<1> QED BY <1>1, <1>5, <1>6

LEMMA GuardsInv ==
    ASSUME AccountsInv, NEW s \in Slots,
           GuardDelete(s) \/ GuardReplacement(s) \/ GuardRemoval(s) \/ Leave(s)
    PROVE  AccountsInv'
<1>1. CASE GuardDelete(s)
  BY <1>1, HoldersFound, Ends, ZenonT(60) DEF GuardDelete, LastAdminGuard
<1>2. CASE GuardReplacement(s)
  BY <1>2, HoldersFound, Ends, ZenonT(60) DEF GuardReplacement, EntityAdminGuard
<1>3. CASE GuardRemoval(s)
  BY <1>3, HoldersFound, Ends, ZenonT(60) DEF GuardRemoval, EntityAdminGuard
<1>4. CASE Leave(s)
  <2> DEFINE b == req[s].pc \in Guarding
  <2>1. b \in BOOLEAN /\ Blame(b) /\ Done(s) /\ UNCHANGED << acct, caps, has >>
    BY <1>4 DEF Leave
  <2>2. req[s].pc \in Guarding => b
    OBVIOUS
  <2> HIDE DEF b
  <2> QED BY <2>1, <2>2, Ends
<1> QED BY <1>1, <1>2, <1>3, <1>4

-----------------------------------------------------------------------------
LEMMA AccountsInit == Init => AccountsInv
<1> SUFFICES ASSUME Init PROVE AccountsInv
  OBVIOUS
<1>1. PICK a \in Humans :
        /\ acct = [e \in Entities |-> IF e = a THEN "active" ELSE "none"]
        /\ has = [e \in Entities |-> IF e = a THEN {"admin"} ELSE {}]
  BY DEF Init
<1>2. caps = [r \in Roles |-> IF r \in Builtin THEN BuiltinCaps(r) ELSE NoRole]
  BY DEF Init, CreateBuiltinRoles
<1>3. Tables
  <2>1. NoRole \in SUBSET AnyCap
    BY DEF AnyCap
  <2>2. caps \in [Roles -> SUBSET AnyCap]
    BY <1>2, <2>1, BuiltinNotNone
  <2>3. "admin" \in Builtin /\ "admin" \in Roles /\ Live("admin")
    BY <1>2, BuiltinNotNone, AccountsAssumption DEF Live, Roles
  <2>4. \A r \in Custom : caps[r] = NoRole
    BY <1>2, AccountsAssumption DEF Roles
  <2>5. \A r \in Builtin : caps[r] = BuiltinCaps(r)
    BY <1>2 DEF Roles
  <2> QED BY <1>1, <2>2, <2>3, <2>4, <2>5 DEF Tables
<1>4. req = [s \in Slots |-> Free] /\ lost = FALSE
  BY DEF Init
<1>5. req \in [Slots -> Requests] /\ \A s \in Slots : GoodRequest(req[s])
  BY <1>4, FreeGood DEF GoodRequest
<1>6. Administered
  <2>1. "*" \in CapsOf("admin")
    BY <1>2, AccountsAssumption, BuiltinNotNone DEF CapsOf, Live, Roles, BuiltinCaps
  <2> QED BY <1>1, <2>1 DEF Administered, Entities
<1> QED BY <1>3, <1>4, <1>5, <1>6, ZenonT(60) DEF AccountsInv, LockoutExplained

LEMMA AccountsStep == ASSUME AccountsInv, [Next]_vars PROVE AccountsInv'
<1>1. CASE UNCHANGED vars
  BY <1>1, SameTables DEF vars, AccountsInv, LockoutExplained, GoodRequest
<1>2. ASSUME NEW h \in Humans, Login(h) PROVE AccountsInv'
  BY <1>2, LoginInv
<1>3. ASSUME NEW s \in Slots, NEW u \in Entities, Arrive(s, u) PROVE AccountsInv'
  BY <1>3, ArriveInv
<1>4. ASSUME NEW s \in Slots, Step(s) PROVE AccountsInv'
  BY <1>4, PermitInv, CreateEntityInv, FindToDeactivateInv, DeactivateInv, FindToActivateInv,
     ActivateInv, InsertRoleInv, FillRoleInv, FindRoleInv, ReadOldCapsInv, WriteRoleInv,
     GuardUpdateInv, RestoreRoleInv, ReadForDeleteInv, RemoveWholeRoleInv, CheckReplacementInv,
     CheckAdditionInv, CheckRobotRolesInv, AddRoleInv, ReplaceRolesInv, RemoveRoleInv,
     CreateOrReviveInv, FindRobotInv, TombstoneInv, GuardsInv DEF Step
<1> QED BY <1>1, <1>2, <1>3, <1>4 DEF Next

\* AccountsInv holds in every reachable state of the accounts.
THEOREM AccountsInvariance == Spec => []AccountsInv
<1>1. Init => AccountsInv
  BY AccountsInit
<1>2. AccountsInv /\ [Next]_vars => AccountsInv'
  BY AccountsStep
<1> QED BY <1>1, <1>2, PTL DEF Spec

\* The tables keep their foreign keys and the builtin roles what the seed gave them
\* (user_roles, role_caps; update_role and delete_role refuse builtin roles).
THEOREM AccountsTypeCorrect == Spec => []TypeOK
<1>1. AccountsInv => TypeOK
  BY DEF AccountsInv, Tables, TypeOK
<1> QED BY <1>1, AccountsInvariance, PTL

\* No handler that administers runs for a robot, whatever roles it was given and
\* whatever became of them since (the strip in load_authed_user).
THEOREM RobotNeverManagesTheorem == Spec => []RobotNeverManages
<1>1. AccountsInv => RobotNeverManages
  BY DEF AccountsInv, GoodRequest, RobotNeverManages
<1> QED BY <1>1, AccountsInvariance, PTL

\* The last administrator goes only through one of the known gaps of
\* last_admin_guard, or its rollback is still to come; deactivate_entity, login,
\* provisioning and the robot handlers never take it.
THEOREM LockoutExplainedTheorem == Spec => []LockoutExplained
<1>1. AccountsInv => LockoutExplained
  BY DEF AccountsInv
<1> QED BY <1>1, AccountsInvariance, PTL

-----------------------------------------------------------------------------
(* The periodic scheduler *)

USE ClockAssumption, BoundsAssumption, NoneAssumption

LoopPcs == {"load", "planned", "idle", "sleep", "fetch", "owner", "caps", "resolve",
        "submit", "record"}

Errors == {"none", "owner", "fatal", "transient"}

SchedType == [pc : LoopPcs, t : Tasks \union {0}, left : Delays, row : Rows, err : Errors]

ReqType == [pc : {"free", "write", "notify"},
            op : {"none", "update", "enable", "disable", "delete"},
            t : Tasks \union {0}, cron : Crons \union {None}]

\* Past its wait the loop has a task, and a request has one to write.
GoodLoop == sched.pc \notin {"load", "planned", "idle"} => sched.t \in Tasks

GoodWrites == \A s \in Handlers : handler[s].pc = "write" => handler[s].t \in Tasks

PeriodicInv == PeriodicTypeOK /\ GoodLoop /\ GoodWrites /\ NeverOversleeps

-----------------------------------------------------------------------------
(* Rows.                                                                    *)

\* calculate_backoff stays within its cap.
LEMMA BackoffType == \A n : Backoff(n) \in 0 .. 20
<1> TAKE n
<1> DEFINE fits == {i \in 1 .. 20 : i * 2 ^ n <= 3 ^ n}
<1>1. IsFiniteSet(1 .. 20) /\ Cardinality(1 .. 20) = 20
  <2>1. 1 \in Int /\ 20 \in Int
    OBVIOUS
  <2>2. IsFiniteSet(1 .. 20) /\ Cardinality(1 .. 20) = IF 1 > 20 THEN 0 ELSE 20 - 1 + 1
    BY <2>1, FS_Interval, Zenon
  <2> QED BY <2>2
<1>2. fits \subseteq 1 .. 20
  OBVIOUS
<1> HIDE DEF fits
<1>3. IsFiniteSet(fits) /\ Cardinality(fits) <= Cardinality(1 .. 20)
  BY <1>1, <1>2, FS_Subset, ZenonT(60)
<1>4. Cardinality(fits) \in Nat
  BY <1>3, FS_CardinalityType
<1> QED BY <1>1, <1>3, <1>4 DEF Backoff, fits
\* Every statement on a row leaves a row.
LEMMA RowTypes ==
    /\ NoRow \in Rows /\ DeletedRow \in Rows
    /\ \A c \in Crons : FreshRow(c) \in Rows
    /\ \A row \in Rows : /\ UpdateTriggerSuccess(row) \in Rows
                         /\ DisableWithError(row) \in Rows
                         /\ EnableRow(row) \in Rows
                         /\ DisableRow(row) \in Rows
                         /\ \A c \in Crons \union {None} : UpdateRow(row, c) \in Rows
                         /\ \A n \in 0 .. MaxRetry - 1, d \in 0 .. 20 :
                              UpdateRetry(row, n, d) \in Rows
<1>0. 0 \in 0 .. MaxRetry - 1
  OBVIOUS
<1>1. NoRow \in Rows
  BY <1>0 DEF NoRow, Rows
<1>2. DeletedRow \in Rows
  BY <1>1, ZenonT(60) DEF DeletedRow, Rows
<1>3. \A c \in Crons : FreshRow(c) \in Rows
  BY <1>1, ZenonT(60) DEF FreshRow, Rows
<1>4. ASSUME NEW row \in Rows
      PROVE  /\ UpdateTriggerSuccess(row) \in Rows
             /\ DisableWithError(row) \in Rows
             /\ EnableRow(row) \in Rows
             /\ DisableRow(row) \in Rows
             /\ \A c \in Crons \union {None} : UpdateRow(row, c) \in Rows
             /\ \A n \in 0 .. MaxRetry - 1, d \in 0 .. 20 : UpdateRetry(row, n, d) \in Rows
  <2>1. UpdateTriggerSuccess(row) \in Rows
    BY <1>0, ZenonT(60) DEF UpdateTriggerSuccess, Rows
  <2>2. DisableWithError(row) \in Rows /\ DisableRow(row) \in Rows
    BY ZenonT(60) DEF DisableWithError, DisableRow, Rows
  <2>3. EnableRow(row) \in Rows
    BY <1>0, ZenonT(60) DEF EnableRow, Rows
  <2>4. ASSUME NEW c \in Crons \union {None} PROVE UpdateRow(row, c) \in Rows
    BY <1>0, ZenonT(60) DEF UpdateRow, Rows
  <2>5. ASSUME NEW n \in 0 .. MaxRetry - 1, NEW d \in 0 .. 20
        PROVE  UpdateRetry(row, n, d) \in Rows
    BY ZenonT(60) DEF UpdateRetry, Rows
  <2> QED BY <2>1, <2>2, <2>3, <2>4, <2>5
<1> QED BY <1>1, <1>2, <1>3, <1>4

\* The retry count is below its limit when a retry is written.
LEMMA RecordedType ==
    ASSUME PeriodicTypeOK, NEW row \in Rows
    PROVE  Recorded(row) \in Rows
<1>1. sched.err \in Errors /\ sched.row.count \in 0 .. MaxRetry - 1
  BY DEF PeriodicTypeOK, Rows, Errors
<1>2. Backoff(sched.row.count) \in 0 .. 20
  BY BackoffType
<1>3. Retried(row) \in Rows
  BY <1>1, <1>2, RowTypes DEF Retried
<1> QED BY <1>1, <1>3, RowTypes DEF Recorded, Errors

\* A fresh loop, and a loop that goes on.
LEMMA LoopType ==
    ASSUME NEW pc \in LoopPcs
    PROVE  Loop(pc) \in SchedType /\ Loop(pc).pc = pc /\ Loop(pc).t = 0
<1>1. 0 \in Delays /\ "none" \in Errors /\ NoRow \in Rows
  BY RowTypes DEF Delays, Errors
<1> QED BY <1>1 DEF Loop, SchedType

\* The loop starts over.
LEMMA LoadLoop == Loop("load") \in SchedType /\ Loop("load").pc = "load"
BY LoopType DEF LoopPcs

\* The loop with the first entry of its schedule.
LEMMA PlannedType ==
    ASSUME NEW t \in Tasks, NEW d \in Delays,
           sched' = [Loop("planned") EXCEPT !.t = t, !.left = d]
    PROVE  sched' \in SchedType /\ sched'.pc = "planned" /\ sched'.t = t /\ sched'.left = d
<1>1. Loop("planned") \in SchedType
  BY LoopType DEF LoopPcs
<1>2. [Loop("planned") EXCEPT !.t = t, !.left = d] \in SchedType
  BY <1>1, ZenonT(60) DEF SchedType
<1> QED BY <1>2 DEF Loop

\* TypeOK, by the names used here.
LEMMA TypeForm ==
    PeriodicTypeOK <=> /\ now \in 0 .. Day - 1
               /\ task \in [Tasks -> Rows]
               /\ owner \in Owners /\ target \in Targets
               /\ permit \in BOOLEAN
               /\ sched \in SchedType
               /\ handler \in [Handlers -> ReqType]
               /\ edits \in 0 .. MaxEdits /\ faults \in 0 .. MaxFaults
BY DEF PeriodicTypeOK, SchedType, ReqType, LoopPcs, Errors
\* The loop moves on with the task it has.
LEMMA GoesOnType ==
    ASSUME sched \in SchedType, NEW pc \in LoopPcs, NEW l, l = [sched EXCEPT !.pc = pc]
    PROVE  l \in SchedType /\ l.pc = pc /\ l.t = sched.t /\ l.left = sched.left
<1>1. [sched EXCEPT !.pc = pc] \in SchedType
  BY ZenonT(60) DEF SchedType
<1> QED BY <1>1 DEF SchedType

\* The loop goes on to record an error.
LEMMA FailType ==
    ASSUME sched \in SchedType, NEW err \in Errors
    PROVE  Fail(err) \in SchedType /\ Fail(err).pc = "record" /\ Fail(err).t = sched.t
<1>1. Fail(err) \in SchedType
  BY ZenonT(60) DEF Fail, SchedType, LoopPcs
<1> QED BY <1>1 DEF Fail, SchedType

\* The loop takes the row it has read again.
LEMMA FetchedType ==
    ASSUME sched \in SchedType, NEW row \in Rows, NEW l,
           l = [sched EXCEPT !.pc = "owner", !.row = row]
    PROVE  l \in SchedType /\ l.pc = "owner" /\ l.t = sched.t
<1>1. [sched EXCEPT !.pc = "owner", !.row = row] \in SchedType
  BY ZenonT(60) DEF SchedType, LoopPcs
<1> QED BY <1>1 DEF SchedType

\* Failures are counted up to their bound.
LEMMA FaultType ==
    ASSUME PeriodicTypeOK, NEW ok \in Outcomes, Fault(ok)
    PROVE  faults' \in 0 .. MaxFaults
<1>1. CASE faults < MaxFaults
  BY <1>1 DEF PeriodicTypeOK, Fault
<1>2. CASE ~(faults < MaxFaults)
  <2>1. ok = TRUE
    BY <1>2 DEF Outcomes
  <2> QED BY <2>1 DEF PeriodicTypeOK, Fault
<1> QED BY <1>1, <1>2

-----------------------------------------------------------------------------
(* The loop.                                                                *)

\* A step after which the loop is neither waiting nor about to.
LEMMA Busy ==
    ASSUME PeriodicInv, sched' \in SchedType,
           sched'.pc \notin {"planned", "idle", "sleep"},
           sched'.pc = "load" \/ sched'.t \in Tasks,
           task' \in [Tasks -> Rows], permit' \in BOOLEAN, faults' \in 0 .. MaxFaults,
           UNCHANGED << now, owner, target, handler, edits >>
    PROVE  PeriodicInv'
<1>1. PeriodicTypeOK'
  BY TypeForm DEF PeriodicInv, PeriodicTypeOK, SchedType, LoopPcs, Errors
<1>2. GoodLoop' /\ GoodWrites' /\ NeverOversleeps'
  BY DEF PeriodicInv, GoodLoop, GoodWrites, NeverOversleeps, Waiting
<1> QED BY <1>1, <1>2 DEF PeriodicInv

\* Load plans for the first task that is due, or knows that there is none.
LEMMA LoadInv == ASSUME PeriodicInv, Load PROVE PeriodicInv'
<1>1. PICK ok \in Outcomes :
        /\ Fault(ok)
        /\ \/ sched' = sched
           \/ /\ \A t \in Tasks, d \in Delays : ~DueIn(t, d)
              /\ sched' = Loop("planned")
           \/ \E t \in Tasks, d \in Delays :
                /\ First(t, d)
                /\ sched' = [Loop("planned") EXCEPT !.t = t, !.left = d]
  BY ZenonT(60) DEF Load
<1>2. /\ UNCHANGED << now, task, owner, target, permit, handler, edits >>
      /\ sched.pc = "load" /\ faults' \in 0 .. MaxFaults /\ sched \in SchedType
  BY <1>1, FaultType, TypeForm, ZenonT(60) DEF Load, PeriodicInv
<1>3. CASE sched' = sched
  BY <1>2, <1>3, Busy, TypeForm DEF PeriodicInv
<1>4. ASSUME sched' \in SchedType, sched'.pc = "planned",
             \A u \in Tasks, e \in Delays : DueIn(u, e) => sched'.t # 0 /\ sched'.left <= e
      PROVE  PeriodicInv'
  <2>1. PeriodicTypeOK'
    BY <1>2, <1>4, TypeForm DEF PeriodicInv, PeriodicTypeOK, SchedType, LoopPcs, Errors
  <2>2. GoodLoop' /\ GoodWrites'
    BY <1>2, <1>4 DEF PeriodicInv, GoodLoop, GoodWrites
  <2>3. \A u \in Tasks, e \in Delays : DueIn(u, e)' => DueIn(u, e)
    BY <1>2 DEF DueIn, ListEnabledTasks, NextOccurrence, Ahead
  <2>4. NeverOversleeps'
    BY <1>4, <2>3 DEF NeverOversleeps
  <2> QED BY <2>1, <2>2, <2>4 DEF PeriodicInv
<1>5. CASE /\ \A t \in Tasks, d \in Delays : ~DueIn(t, d)
           /\ sched' = Loop("planned")
  BY <1>4, <1>5, LoopType DEF LoopPcs
<1>6. ASSUME NEW t \in Tasks, NEW d \in Delays, First(t, d),
             sched' = [Loop("planned") EXCEPT !.t = t, !.left = d]
      PROVE  PeriodicInv'
  <2>1. sched' \in SchedType /\ sched'.pc = "planned" /\ sched'.t = t /\ sched'.left = d
    BY <1>6, PlannedType, ZenonT(60)
  <2>2. t # 0 /\ \A u \in Tasks, e \in Delays : DueIn(u, e) => d <= e
    BY <1>6 DEF First, Tasks, Delays
  <2> QED BY <1>4, <2>1, <2>2
<1> QED BY <1>1, <1>3, <1>5, <1>6, ZenonT(60)

\* Going to sleep forgets nothing of the schedule.
LEMMA AwaitInv == ASSUME PeriodicInv, Await PROVE PeriodicInv'
<1> DEFINE pc == IF sched.t = 0 THEN "idle" ELSE "sleep"
<1>1. /\ UNCHANGED << now, task, owner, target, permit, handler, edits, faults >>
      /\ sched.pc = "planned" /\ sched \in SchedType /\ sched.t \in Tasks \union {0}
  BY TypeForm DEF Await, PeriodicInv, SchedType
<1>2. pc \in LoopPcs /\ pc \in {"idle", "sleep"} /\ (pc = "sleep" => sched.t # 0)
  BY DEF LoopPcs
<1>3. sched' = [sched EXCEPT !.pc = pc]
  BY DEF Await
<1> HIDE DEF pc
<1>4. /\ sched' \in SchedType /\ sched'.pc = pc
      /\ sched'.t = sched.t /\ sched'.left = sched.left
  BY <1>1, <1>2, <1>3, GoesOnType
<1>5. PeriodicTypeOK'
  BY <1>1, <1>4, TypeForm DEF PeriodicInv, PeriodicTypeOK, SchedType, LoopPcs, Errors
<1>6. GoodLoop' /\ GoodWrites'
  BY <1>1, <1>2, <1>4 DEF PeriodicInv, GoodLoop, GoodWrites
<1>7. \A u \in Tasks, e \in Delays : DueIn(u, e)' => DueIn(u, e)
  BY <1>1 DEF DueIn, ListEnabledTasks, NextOccurrence, Ahead
<1>8. NeverOversleeps'
  BY <1>1, <1>4, <1>7 DEF PeriodicInv, NeverOversleeps, Waiting
<1> QED BY <1>5, <1>6, <1>8 DEF PeriodicInv

\* Waking up, by a permit or by time, and reading the task again.
LEMMA WakeInv == ASSUME PeriodicInv, Notified \/ FireTime \/ Fetch PROVE PeriodicInv'
<1>0. /\ PeriodicTypeOK /\ sched \in SchedType /\ task \in [Tasks -> Rows] /\ permit \in BOOLEAN
      /\ faults \in 0 .. MaxFaults /\ {"load", "fetch"} \subseteq LoopPcs
  BY TypeForm DEF PeriodicInv, LoopPcs
<1>1. CASE Notified
  BY <1>0, <1>1, LoopType, Busy, ZenonT(60) DEF Notified
<1>2. CASE FireTime
  <2>1. sched.t \in Tasks
    BY <1>2 DEF FireTime, PeriodicInv, GoodLoop
  <2>2. sched' \in SchedType /\ sched'.pc = "fetch" /\ sched'.t = sched.t
    BY <1>0, <1>2, GoesOnType DEF FireTime
  <2> QED BY <1>0, <1>2, <2>1, <2>2, Busy DEF FireTime
<1>3. CASE Fetch
  <2>1. sched.t \in Tasks /\ task[sched.t] \in Rows
    BY <1>0, <1>3 DEF Fetch, PeriodicInv, GoodLoop
  <2>2. /\ faults' \in 0 .. MaxFaults
        /\ \/ sched' = [sched EXCEPT !.pc = "owner", !.row = task[sched.t]]
           \/ sched' = Loop("load")
    BY <1>0, <1>3, FaultType DEF Fetch
  <2>3. /\ sched' \in SchedType
        /\ sched'.pc = "load" \/ (sched'.pc = "owner" /\ sched'.t = sched.t)
    <3>1. CASE sched' = [sched EXCEPT !.pc = "owner", !.row = task[sched.t]]
      BY <1>0, <2>1, <3>1, FetchedType, ZenonT(30)
    <3>2. CASE sched' = Loop("load")
      BY <3>2, LoadLoop
    <3> QED BY <2>2, <3>1, <3>2
  <2> QED BY <1>0, <1>3, <2>1, <2>2, <2>3, Busy DEF Fetch
<1> QED BY <1>1, <1>2, <1>3

\* The checks of trigger_periodic_build, each of which goes on or fails.
LEMMA TriggerInv ==
    ASSUME PeriodicInv, CheckOwner \/ CheckCaps \/ Resolve \/ Submit
    PROVE  PeriodicInv'
<1>0. /\ PeriodicTypeOK /\ sched \in SchedType /\ task \in [Tasks -> Rows] /\ permit \in BOOLEAN
      /\ {"caps", "resolve", "submit", "record"} \subseteq LoopPcs
      /\ {"owner", "fatal", "transient"} \subseteq Errors
  BY TypeForm DEF PeriodicInv, LoopPcs, Errors
<1>1. sched.t \in Tasks /\ UNCHANGED << now, task, owner, target, permit, handler, edits >>
  BY ZenonT(60) DEF PeriodicInv, GoodLoop, CheckOwner, CheckCaps, Resolve, Submit
<1>2. /\ faults' \in 0 .. MaxFaults
      /\ \/ \E pc \in {"caps", "resolve", "submit", "record"} : sched' = [sched EXCEPT !.pc = pc]
         \/ \E err \in {"owner", "fatal", "transient"} : sched' = Fail(err)
  <2>1. CASE CheckOwner
    BY <1>0, <2>1, FaultType DEF CheckOwner
  <2>2. CASE CheckCaps
    BY <1>0, <2>2, FaultType DEF CheckCaps
  <2>3. CASE Resolve
    BY <1>0, <2>3, FaultType, ZenonT(60) DEF Resolve, Classify
  <2>4. CASE Submit
    BY <1>0, <2>4, FaultType DEF Submit
  <2> QED BY <2>1, <2>2, <2>3, <2>4
<1>3. sched' \in SchedType /\ sched'.t = sched.t
      /\ sched'.pc \in {"caps", "resolve", "submit", "record"}
  <2>1. ASSUME NEW pc \in {"caps", "resolve", "submit", "record"},
               sched' = [sched EXCEPT !.pc = pc]
        PROVE  sched' \in SchedType /\ sched'.t = sched.t /\ sched'.pc = pc
    BY <1>0, <2>1, GoesOnType
  <2>2. ASSUME NEW err \in {"owner", "fatal", "transient"}, sched' = Fail(err)
        PROVE  sched' \in SchedType /\ sched'.t = sched.t /\ sched'.pc = "record"
    BY <1>0, <2>2, FailType
  <2> QED BY <1>2, <2>1, <2>2
<1> QED BY <1>0, <1>1, <1>2, <1>3, Busy

\* The outcome is written back and the loop starts over.
LEMMA RecordInv == ASSUME PeriodicInv, Record PROVE PeriodicInv'
<1>0. /\ PeriodicTypeOK /\ task \in [Tasks -> Rows] /\ permit \in BOOLEAN /\ "load" \in LoopPcs
      /\ sched.t \in Tasks
  BY TypeForm DEF PeriodicInv, LoopPcs, Record, GoodLoop
<1>1. /\ faults' \in 0 .. MaxFaults
      /\ task' = task \/ task' = [task EXCEPT ![sched.t] = Recorded(task[sched.t])]
  BY <1>0, FaultType DEF Record
<1>2. Recorded(task[sched.t]) \in Rows
  BY <1>0, RecordedType
<1>3. task' \in [Tasks -> Rows]
  BY <1>0, <1>1, <1>2
<1> QED BY <1>0, <1>1, <1>3, LoopType, Busy DEF Record
-----------------------------------------------------------------------------
(* The requests.                                                            *)

\* A free slot and a request that has read a row.
LEMMA RequestTypes ==
    /\ NoEdit \in ReqType /\ NoEdit.pc = "free"
    /\ \A t \in Tasks : /\ [NoEdit EXCEPT !.pc = "notify", !.t = t] \in ReqType
                        /\ [NoEdit EXCEPT !.pc = "notify", !.t = t].pc = "notify"
    /\ \A r \in ReqType : /\ [r EXCEPT !.pc = "notify"] \in ReqType
                          /\ [r EXCEPT !.pc = "notify"].pc = "notify"
<1>1. NoEdit \in ReqType /\ NoEdit.pc = "free"
  BY DEF NoEdit, ReqType
<1>2. ASSUME NEW t \in Tasks PROVE [NoEdit EXCEPT !.pc = "notify", !.t = t] \in ReqType
  BY <1>1, ZenonT(60) DEF ReqType
<1>3. ASSUME NEW t \in Tasks PROVE [NoEdit EXCEPT !.pc = "notify", !.t = t].pc = "notify"
  BY DEF NoEdit
<1>4. ASSUME NEW r \in ReqType PROVE [r EXCEPT !.pc = "notify"] \in ReqType
  BY ZenonT(60) DEF ReqType
<1>5. ASSUME NEW r \in ReqType PROVE [r EXCEPT !.pc = "notify"].pc = "notify"
  BY DEF ReqType
<1> QED BY <1>1, <1>2, <1>3, <1>4, <1>5, ZenonT(60)

\* A request that writes the table is about to notify the loop.
LEMMA Writes ==
    ASSUME PeriodicInv, NEW s \in Handlers, NEW r \in ReqType, r.pc = "notify",
           handler' = [handler EXCEPT ![s] = r], task' \in [Tasks -> Rows],
           edits' \in 0 .. MaxEdits,
           UNCHANGED << now, owner, target, permit, sched, faults >>
    PROVE  PeriodicInv'
<1>1. /\ handler' \in [Handlers -> ReqType] /\ handler'[s] = r
      /\ \A t \in Handlers \ {s} : handler'[t] = handler[t]
  BY TypeForm DEF PeriodicInv
<1>2. PeriodicTypeOK'
  BY <1>1 DEF PeriodicInv, PeriodicTypeOK, ReqType
<1>3. GoodLoop' /\ GoodWrites'
  BY <1>1 DEF PeriodicInv, GoodLoop, GoodWrites
<1>4. NeverOversleeps'
  BY <1>1 DEF NeverOversleeps
<1> QED BY <1>2, <1>3, <1>4 DEF PeriodicInv

\* A request that only reads, or finds no row, was not about to notify.
LEMMA Reads ==
    ASSUME PeriodicInv, NEW s \in Handlers, NEW r \in ReqType, handler[s].pc # "notify",
           r.pc = "write" => r.t \in Tasks,
           handler' = [handler EXCEPT ![s] = r], edits' \in 0 .. MaxEdits,
           UNCHANGED << now, task, owner, target, permit, sched, faults >>
    PROVE  PeriodicInv'
<1>1. /\ handler' \in [Handlers -> ReqType] /\ handler'[s] = r
      /\ \A t \in Handlers \ {s} : handler'[t] = handler[t]
  BY TypeForm DEF PeriodicInv
<1>2. PeriodicTypeOK'
  BY <1>1 DEF PeriodicInv, PeriodicTypeOK, ReqType
<1>3. GoodLoop' /\ GoodWrites'
  BY <1>1 DEF PeriodicInv, GoodLoop, GoodWrites
<1>4. \A u \in Tasks, e \in Delays : DueIn(u, e)' => DueIn(u, e)
  BY DEF DueIn, ListEnabledTasks, NextOccurrence, Ahead
<1>5. (\E t \in Handlers : handler[t].pc = "notify")
        => \E t \in Handlers : handler'[t].pc = "notify"
  BY <1>1
<1>6. NeverOversleeps'
  BY <1>4, <1>5 DEF PeriodicInv, NeverOversleeps, Waiting
<1> QED BY <1>2, <1>3, <1>6 DEF PeriodicInv

\* The edits are counted up to their bound.
LEMMA EditType == ASSUME PeriodicTypeOK, Edit PROVE edits' \in 0 .. MaxEdits
BY DEF PeriodicTypeOK, Edit

\* A new task.
LEMMA CreateTaskInv ==
    ASSUME PeriodicInv, NEW s \in Handlers, NEW t \in Tasks, NEW c \in Crons, CreateTask(s, t, c)
    PROVE  PeriodicInv'
<1> DEFINE r == [NoEdit EXCEPT !.pc = "notify", !.t = t]
<1>1. r \in ReqType /\ r.pc = "notify" /\ handler' = [handler EXCEPT ![s] = r]
  BY RequestTypes, ZenonT(60) DEF CreateTask
<1>2. edits' \in 0 .. MaxEdits /\ task' \in [Tasks -> Rows]
  BY EditType, RowTypes, TypeForm DEF CreateTask, PeriodicInv
<1> HIDE DEF r
<1> QED BY <1>1, <1>2, Writes, ZenonT(60) DEF CreateTask

\* A request reads the row it is about to change.
LEMMA ReadTaskInv ==
    ASSUME PeriodicInv, NEW s \in Handlers, NEW t \in Tasks, NEW c \in Crons \union {None},
           NEW op \in {"update", "enable", "disable", "delete"}, ReadTask(s, t, op, c)
    PROVE  PeriodicInv'
<1> DEFINE r == [pc |-> "write", op |-> op, t |-> t, cron |-> c]
<1>1. r \in ReqType /\ r.t = t /\ handler' = [handler EXCEPT ![s] = r] /\ handler[s].pc # "notify"
  BY RequestTypes, ZenonT(60) DEF ReqType, ReadTask
<1>2. edits' \in 0 .. MaxEdits
  BY EditType DEF ReadTask, PeriodicInv
<1> HIDE DEF r
<1> QED BY <1>1, <1>2, Reads, ZenonT(60) DEF ReadTask

\* The statement of a request.
LEMMA StatementInv ==
    ASSUME PeriodicInv, NEW s \in Handlers, Statement(s)
    PROVE  PeriodicInv'
<1> DEFINE r == [handler[s] EXCEPT !.pc = "notify"]
           t == handler[s].t
<1>0. /\ handler[s].pc = "write" /\ t \in Tasks /\ task \in [Tasks -> Rows] /\ task[t] \in Rows
      /\ handler[s] \in ReqType /\ handler[s].cron \in Crons \union {None}
      /\ edits' \in 0 .. MaxEdits
      /\ UNCHANGED << now, owner, target, permit, sched, faults >>
  BY TypeForm DEF Statement, Enabled, Disabled, Deleted, Updated, Overwrite, PeriodicInv,
                  GoodWrites, ReqType
<1>1. r \in ReqType /\ r.pc = "notify"
  BY <1>0, RequestTypes, ZenonT(60)
<1>2. \/ task' = task /\ handler' = [handler EXCEPT ![s] = NoEdit]
      \/ task' \in [Tasks -> Rows] /\ handler' = [handler EXCEPT ![s] = r]
  <2>0. /\ EnableRow(task[t]) \in Rows /\ DisableRow(task[t]) \in Rows /\ DeletedRow \in Rows
        /\ \A u \in Tasks : UpdateRow(task[u], handler[s].cron) \in Rows
    BY <1>0, RowTypes, ZenonT(60)
  <2>1. ASSUME NEW row \in Rows, Overwrite(s, row)
        PROVE  \/ task' = task /\ handler' = [handler EXCEPT ![s] = NoEdit]
               \/ task' \in [Tasks -> Rows] /\ handler' = [handler EXCEPT ![s] = r]
    BY <1>0, <2>1, TypeForm DEF Overwrite, PeriodicInv
  <2>2. CASE Updated(s)
    BY <1>0, <2>0, <2>2, TypeForm DEF Updated, PeriodicInv
  <2> QED BY <2>0, <2>1, <2>2 DEF Statement, Enabled, Disabled, Deleted
<1> HIDE DEF r
<1>3. CASE task' = task /\ handler' = [handler EXCEPT ![s] = NoEdit]
  BY <1>0, <1>3, RequestTypes, Reads, ZenonT(60)
<1>4. CASE task' \in [Tasks -> Rows] /\ handler' = [handler EXCEPT ![s] = r]
  BY <1>0, <1>1, <1>4, Writes, ZenonT(60)
<1> QED BY <1>2, <1>3, <1>4

\* notify_one leaves a permit.
LEMMA NotifyOneInv ==
    ASSUME PeriodicInv, NEW s \in Handlers, NotifyOne(s)
    PROVE  PeriodicInv'
<1>1. /\ handler' \in [Handlers -> ReqType] /\ handler'[s] = NoEdit
      /\ \A t \in Handlers \ {s} : handler'[t] = handler[t]
  BY TypeForm, RequestTypes, ZenonT(60) DEF PeriodicInv, NotifyOne
<1>2. PeriodicTypeOK'
  BY <1>1 DEF PeriodicInv, PeriodicTypeOK, ReqType, NotifyOne
<1>3. GoodLoop' /\ GoodWrites'
  BY <1>1, RequestTypes, ZenonT(60) DEF PeriodicInv, GoodLoop, GoodWrites, NotifyOne
<1>4. NeverOversleeps'
  BY DEF NotifyOne, NeverOversleeps
<1> QED BY <1>2, <1>3, <1>4 DEF PeriodicInv
-----------------------------------------------------------------------------
(* Time.                                                                    *)

\* A retry, or what is left of the sleep, after a tick.
LEMMA ElapseType ==
    /\ \A n \in 0 .. 20 : Elapse(n) \in 0 .. 20
    /\ Elapse(None) = None
    /\ \A n \in Delays : Elapse(n) \in Delays /\ Elapse(n) = IF n = 0 THEN 0 ELSE n - 1
<1>1. \A n \in Nat : n # None
  OBVIOUS
<1> QED BY <1>1 DEF Elapse, Delays

\* The rows and the loop after a tick: only the retries and the sleep change.
LEMMA TickRows ==
    ASSUME PeriodicTypeOK, Tick
    PROVE  /\ task' \in [Tasks -> Rows] /\ sched' \in SchedType
           /\ \A t \in Tasks : /\ task'[t].on = task[t].on /\ task'[t].cron = task[t].cron
                               /\ task'[t].retry = Elapse(task[t].retry)
           /\ sched'.pc = sched.pc /\ sched'.t = sched.t /\ sched'.left = Elapse(sched.left)
<1>0. task \in [Tasks -> Rows] /\ sched \in SchedType
  BY TypeForm
<1>1. ASSUME NEW row \in Rows
      PROVE  [row EXCEPT !.retry = Elapse(@)] \in Rows
  <2>1. Elapse(row.retry) \in (0 .. 20) \union {None}
    BY ElapseType DEF Rows
  <2> DEFINE n == Elapse(row.retry)
  <2>2. n \in (0 .. 20) \union {None}
    BY <2>1
  <2> HIDE DEF n
  <2>3. [row EXCEPT !.retry = n] \in Rows
    BY <2>2, ZenonT(60) DEF Rows
  <2> QED BY <2>3 DEF n
<1>2. ASSUME NEW row \in Rows
      PROVE  LET new == [row EXCEPT !.retry = Elapse(@)]
             IN  new.on = row.on /\ new.cron = row.cron /\ new.retry = Elapse(row.retry)
  BY DEF Rows
<1>3. [sched EXCEPT !.left = Elapse(@)] \in SchedType
  <2> DEFINE n == Elapse(sched.left)
  <2>1. sched.left \in Delays
    BY <1>0 DEF SchedType
  <2>2. n \in Delays
    BY <2>1, ElapseType
  <2> HIDE DEF n
  <2>3. [sched EXCEPT !.left = n] \in SchedType
    BY <1>0, <2>2, ZenonT(60) DEF SchedType
  <2> QED BY <2>3 DEF n
<1>4. LET new == [sched EXCEPT !.left = Elapse(@)]
      IN  new.pc = sched.pc /\ new.t = sched.t /\ new.left = Elapse(sched.left)
  BY <1>0 DEF SchedType
<1> QED BY <1>0, <1>1, <1>2, <1>3, <1>4, ZenonT(60) DEF Tick

\* What is due after a tick was due one tick later before it, or at once.
LEMMA TickDue ==
    ASSUME PeriodicTypeOK, Tick, NEW t \in Tasks, NEW d \in Delays, DueIn(t, d)'
    PROVE  \E e \in Delays : DueIn(t, e) /\ (e <= 1 \/ e = d + 1)
<1>0. /\ task[t].on /\ task'[t].cron = task[t].cron /\ task'[t].retry = Elapse(task[t].retry)
      /\ task[t].retry \in (0 .. 20) \union {None}
      /\ now \in 0 .. Day - 1 /\ now' = Ahead(1)
  BY TickRows DEF DueIn, ListEnabledTasks, PeriodicTypeOK, Rows, Tick
<1>1. CASE task[t].retry # None
  <2> DEFINE e == task[t].retry
  <2>1. e \in 0 .. 20 /\ e \in Delays /\ Elapse(e) # None
    BY <1>0, <1>1, ElapseType DEF Delays
  <2>2. DueIn(t, e)
    BY <1>0, <1>1 DEF DueIn, ListEnabledTasks
  <2>3. d = Elapse(e)
    BY <1>0, <2>1 DEF DueIn
  <2>4. e <= 1 \/ e = d + 1
    BY <2>1, <2>3, ElapseType
  <2> QED BY <2>1, <2>2, <2>4
<1>2. CASE task[t].retry = None
  <2> DEFINE c == task[t].cron
  <2>1. NextOccurrence(c, d)'
    BY <1>0, <1>2, ElapseType DEF DueIn
  <2>2. \A e : NextOccurrence(c, e) => DueIn(t, e)
    BY <1>0, <1>2 DEF DueIn, ListEnabledTasks
  <2>3. CASE Ahead(1) \in Occurs[c]
    <3>1. NextOccurrence(c, 1)
      BY <2>3 DEF NextOccurrence
    <3> QED BY <2>2, <3>1 DEF Delays
  <2>4. CASE Ahead(1) \notin Occurs[c]
    <3>0. /\ d \in 1 .. Day /\ Ahead(d)' \in Occurs[c]
          /\ \A e \in 1 .. d - 1 : Ahead(e)' \notin Occurs[c]
      BY <1>0, <2>1 DEF NextOccurrence
    <3>1. \A e \in 1 .. Day - 1 : Ahead(e)' = Ahead(e + 1)
      BY <1>0 DEF Ahead
    <3>2. Ahead(Day)' = Ahead(1)
      BY <1>0 DEF Ahead
    <3>3. d \in 1 .. Day - 1 /\ Ahead(d + 1) \in Occurs[c]
      BY <2>4, <3>0, <3>1, <3>2
    <3>4. ASSUME NEW e \in 1 .. d PROVE Ahead(e) \notin Occurs[c]
      <4>1. CASE e = 1
        BY <2>4, <4>1
      <4>2. CASE e # 1
        <5>1. e - 1 \in 1 .. d - 1 /\ e - 1 \in 1 .. Day - 1 /\ (e - 1) + 1 = e
          BY <3>3, <4>2
        <5>2. Ahead(e - 1)' = Ahead(e)
          BY <3>1, <5>1
        <5> QED BY <3>0, <5>1, <5>2
      <4> QED BY <4>1, <4>2
    <3>5. NextOccurrence(c, d + 1)
      BY <3>3, <3>4 DEF NextOccurrence
    <3> QED BY <2>2, <3>3, <3>5 DEF Delays
  <2> QED BY <2>3, <2>4
<1> QED BY <1>1, <1>2

\* A tick brings the sleep and what is due closer alike.
LEMMA TickInv == ASSUME PeriodicInv, Tick PROVE PeriodicInv'
<1>0. PeriodicTypeOK /\ UNCHANGED << owner, target, permit, handler, edits, faults >>
  BY DEF PeriodicInv, Tick
<1>1. now' \in 0 .. Day - 1
  BY <1>0 DEF Tick, Ahead, PeriodicTypeOK
<1>2. PeriodicTypeOK'
  BY <1>0, <1>1, TickRows, TypeForm DEF PeriodicTypeOK, SchedType, LoopPcs, Errors
<1>3. GoodLoop' /\ GoodWrites'
  BY <1>0, TickRows DEF PeriodicInv, GoodLoop, GoodWrites
<1>4. NeverOversleeps'
  <2> SUFFICES ASSUME (Waiting \/ sched.pc = "planned")', ~permit',
                      ~\E s \in Handlers : handler'[s].pc = "notify",
                      NEW t \in Tasks, NEW d \in Delays, DueIn(t, d)'
               PROVE  sched'.t # 0 /\ sched'.left <= d
    BY DEF NeverOversleeps
  <2>1. PICK e \in Delays : DueIn(t, e) /\ (e <= 1 \/ e = d + 1)
    BY <1>0, TickDue
  <2>2. sched.t # 0 /\ sched.left <= e
    BY <1>0, <2>1, TickRows DEF PeriodicInv, NeverOversleeps, Waiting
  <2>3. sched.left \in Delays /\ sched'.left = Elapse(sched.left) /\ sched'.t = sched.t
    BY <1>0, TickRows, TypeForm DEF SchedType
  <2> QED BY <2>1, <2>2, <2>3, ElapseType DEF Delays
<1> QED BY <1>2, <1>3, <1>4 DEF PeriodicInv

-----------------------------------------------------------------------------
(* The theorems.                                                            *)

\* The loop starts by loading an empty table.
LEMMA PeriodicStart == PeriodicInit => PeriodicInv
<1> SUFFICES ASSUME PeriodicInit PROVE PeriodicInv
  OBVIOUS
<1>1. PeriodicTypeOK
  <2>1. task \in [Tasks -> Rows]
    BY RowTypes DEF PeriodicInit
  <2>2. sched \in SchedType /\ handler \in [Handlers -> ReqType]
    BY LoadLoop, RequestTypes, ZenonT(60) DEF PeriodicInit
  <2>3. /\ now \in 0 .. Day - 1 /\ owner \in Owners /\ target \in Targets
        /\ edits \in 0 .. MaxEdits /\ faults \in 0 .. MaxFaults
    BY DEF PeriodicInit, Owners, Targets
  <2>4. permit \in BOOLEAN
    BY Zenon DEF PeriodicInit
  <2> QED BY <2>1, <2>2, <2>3, <2>4, TypeForm
<1>2. GoodLoop /\ GoodWrites /\ NeverOversleeps
  BY LoadLoop, RequestTypes, ZenonT(60) DEF PeriodicInit, GoodLoop, GoodWrites,
     NeverOversleeps, Waiting
<1> QED BY <1>1, <1>2 DEF PeriodicInv

\* What the world does to the owner and the channels leaves the schedule alone.
LEMMA WorldChangesInv == ASSUME PeriodicInv, WorldChanges PROVE PeriodicInv'
<1>1. PeriodicTypeOK'
  BY EditType DEF PeriodicInv, PeriodicTypeOK, WorldChanges
<1>2. GoodLoop' /\ GoodWrites'
  BY DEF PeriodicInv, GoodLoop, GoodWrites, WorldChanges
<1>3. \A u \in Tasks, e \in Delays : DueIn(u, e)' => DueIn(u, e)
  BY DEF DueIn, ListEnabledTasks, NextOccurrence, Ahead, WorldChanges
<1>4. NeverOversleeps'
  BY <1>3 DEF PeriodicInv, NeverOversleeps, Waiting, WorldChanges
<1> QED BY <1>1, <1>2, <1>4 DEF PeriodicInv

\* A restart begins with a load.
LEMMA RestartInv == ASSUME PeriodicInv, Restart PROVE PeriodicInv'
<1>1. PeriodicTypeOK'
  BY EditType, LoadLoop, RequestTypes, TypeForm, ZenonT(60)
     DEF PeriodicInv, PeriodicTypeOK, Restart, SchedType, LoopPcs, Errors, ReqType
<1>2. GoodLoop' /\ GoodWrites' /\ NeverOversleeps'
  BY LoadLoop, RequestTypes, ZenonT(60) DEF Restart, GoodLoop, GoodWrites, NeverOversleeps, Waiting
<1> QED BY <1>1, <1>2 DEF PeriodicInv

\* Every step keeps the invariant.
LEMMA PeriodicStep == PeriodicInv /\ [PeriodicNext]_periodic => PeriodicInv'
<1> SUFFICES ASSUME PeriodicInv, [PeriodicNext]_periodic PROVE PeriodicInv'
  OBVIOUS
<1>1. CASE UNCHANGED periodic
  <2>1. \A u \in Tasks, e \in Delays : DueIn(u, e)' => DueIn(u, e)
    BY <1>1 DEF DueIn, ListEnabledTasks, NextOccurrence, Ahead, periodic
  <2>2. NeverOversleeps'
    BY <1>1, <2>1 DEF PeriodicInv, NeverOversleeps, Waiting, periodic
  <2> QED BY <1>1, <2>2 DEF PeriodicInv, PeriodicTypeOK, GoodLoop, GoodWrites, periodic
<1>2. CASE LoopStep
  BY <1>2, LoadInv, AwaitInv, WakeInv, TriggerInv, RecordInv DEF LoopStep
<1>3. ASSUME NEW s \in Handlers, Request(s) PROVE PeriodicInv'
  <2>1. ASSUME NEW t \in Tasks,
               UpdateTask(s, t) \/ EnableTask(s, t) \/ DisableTask(s, t) \/ DeleteTask(s, t)
        PROVE  PeriodicInv'
    BY <2>1, ReadTaskInv DEF UpdateTask, EnableTask, DisableTask, DeleteTask
  <2> QED BY <1>3, <2>1, CreateTaskInv, StatementInv, NotifyOneInv DEF Request
<1> QED BY <1>1, <1>2, <1>3, WorldChangesInv, TickInv, RestartInv DEF PeriodicNext

\* The invariant is inductive.
THEOREM PeriodicInvariance == PeriodicSpec => []PeriodicInv
BY PeriodicStart, PeriodicStep, PTL DEF PeriodicSpec

\* Every variable keeps its type: a retry is at most 600 s away and a task is
\* disabled before its count reaches MAX_RETRY_COUNT.
THEOREM PeriodicTypeCorrect == PeriodicSpec => []PeriodicTypeOK
<1>1. PeriodicInv => PeriodicTypeOK
  BY DEF PeriodicInv
<1> QED BY <1>1, PeriodicInvariance, PTL

\* run_scheduler never sleeps past an enabled task's time without a permit or a
\* request that will leave one.
THEOREM NeverOversleepsTheorem == PeriodicSpec => []NeverOversleeps
<1>1. PeriodicInv => NeverOversleeps
  BY DEF PeriodicInv
<1> QED BY <1>1, PeriodicInvariance, PTL
=============================================================================
