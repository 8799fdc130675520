---------------------------- MODULE IdentityAdmin ----------------------------
(***************************************************************************)
(* Roles and status of the platform's identities: the lifecycle routes of  *)
(* the governance router and the identity routes of the main router, which *)
(* write the same tables under different rules.  Every await is a step of  *)
(* its own, handlers interleave, and any of them may end where it is; the  *)
(* chain call that follows a status write comes back to nothing here.  A   *)
(* manager's scope can only refuse, as a failure does.                     *)
(***************************************************************************)
EXTENDS FiniteSets, Naturals

CONSTANTS
    Requests,           \* handlers that can run at the same time
    Identities,         \* identities with a linked platform user
    PlatformAdmins,     \* those whose platform user has the admin role
    RoleLists,          \* role lists that are asked for
    NoOne               \* no identity

ASSUME AdminAssumption ==
    /\ PlatformAdmins \subseteq Identities /\ NoOne \notin Identities
    /\ RoleLists \subseteq SUBSET {"ADMIN", "MANAGER", "AUDITOR", "USER"}

IdentityStatus == {"ACTIVE", "SUSPENDED", "REVOKED"}

VARIABLES
    roles,              \* identity_roles, by identity
    status,             \* identities.status
    lifecycleState,     \* identities.lifecycleState
    req,                \* request -> where its handler is and what it has read
    overtaken           \* the handlers during which the active administrators changed

adminVars == <<roles, status, lifecycleState, req, overtaken>>

Idle == [pc |-> "idle", actor |-> NoOne, roles |-> {}, target |-> NoOne, to |-> "NONE", list |-> {}]

Init ==
    /\ \E p \in Identities :
          roles = [i \in Identities |-> IF i = p THEN {"ADMIN"} ELSE {"USER"}]
    /\ status = [i \in Identities |-> "ACTIVE"]
    /\ lifecycleState = [i \in Identities |-> "VERIFIED"]
    /\ req = [r \in Requests |-> Idle]
    /\ overtaken = {}

at(r, pc) == req[r].pc = pc
become(r, h) == req' = [req EXCEPT ![r] = h]
goto(r, pc) == become(r, [req[r] EXCEPT !.pc = pc])
done(r) == become(r, Idle)

fails(r) ==
    /\ ~at(r, "idle")
    /\ done(r)
    /\ UNCHANGED <<roles, status, lifecycleState>>

(* countActiveAdminIdentities *)
activeAdmins == {i \in Identities : status[i] = "ACTIVE" /\ "ADMIN" \in roles[i]}

---------------------------------------------------------------------------
(* Who is asking: requireActor, and the session gate of adminProcedure.    *)
requireActor(r, p) ==
    /\ at(r, "idle")
    /\ lifecycleState[p] = "VERIFIED" /\ status[p] = "ACTIVE"
    /\ become(r, [Idle EXCEPT !.pc = "acting", !.actor = p, !.roles = roles[p]])
    /\ UNCHANGED <<roles, status, lifecycleState>>

adminProcedure(r, p) ==
    /\ at(r, "idle")
    /\ p \in PlatformAdmins /\ status[p] = "ACTIVE"
    /\ become(r, [Idle EXCEPT !.pc = "administering", !.actor = p])
    /\ UNCHANGED <<roles, status, lifecycleState>>

(* assertScopedManager: administrators are global, managers touch users.   *)
scopedManager(r, t) ==
    \/ "ADMIN" \in req[r].roles
    \/ "MANAGER" \in req[r].roles /\ roles[t] \subseteq {"USER"} /\ t # req[r].actor

---------------------------------------------------------------------------
(* lifecycle.suspend: never oneself, and never the last administrator that *)
(* is counted.                                                             *)
suspendCheck(r, t) ==
    /\ at(r, "acting")
    /\ scopedManager(r, t) /\ t # req[r].actor
    /\ lifecycleState[t] = "VERIFIED"
    /\ become(r, [Idle EXCEPT !.pc = "suspendRoles", !.target = t])
    /\ UNCHANGED <<roles, status, lifecycleState>>

suspendRoles(r) ==
    /\ at(r, "suspendRoles")
    /\ goto(r, IF "ADMIN" \in roles[req[r].target] THEN "suspendCount" ELSE "suspendWrite")
    /\ UNCHANGED <<roles, status, lifecycleState>>

suspendCount(r) ==
    /\ at(r, "suspendCount")
    /\ Cardinality(activeAdmins) > 1
    /\ goto(r, "suspendWrite")
    /\ UNCHANGED <<roles, status, lifecycleState>>

suspendWrite(r) ==
    /\ at(r, "suspendWrite")
    /\ lifecycleState' = [lifecycleState EXCEPT ![req[r].target] = "SUSPENDED"]
    /\ status' = [status EXCEPT ![req[r].target] = "SUSPENDED"]
    /\ done(r)
    /\ UNCHANGED roles

(* lifecycle.reactivate *)
reactivateCheck(r, t) ==
    /\ at(r, "acting")
    /\ scopedManager(r, t)
    /\ lifecycleState[t] = "SUSPENDED"
    /\ become(r, [Idle EXCEPT !.pc = "reactivateWrite", !.target = t])
    /\ UNCHANGED <<roles, status, lifecycleState>>

reactivateWrite(r) ==
    /\ at(r, "reactivateWrite")
    /\ lifecycleState' = [lifecycleState EXCEPT ![req[r].target] = "VERIFIED"]
    /\ status' = [status EXCEPT ![req[r].target] = "ACTIVE"]
    /\ done(r)
    /\ UNCHANGED roles

---------------------------------------------------------------------------
(* lifecycle.assignUserRole: the role list of the target becomes USER,     *)
(* whatever it was; that an administrator does not take the last           *)
(* administrator's role, his own included, is not asked.                   *)
assignUserRole(r, t) ==
    /\ at(r, "acting")
    /\ scopedManager(r, t)
    /\ become(r, [Idle EXCEPT !.pc = "assignUserWrite", !.roles = req[r].roles, !.target = t,
                             !.list = {"USER"}])
    /\ UNCHANGED <<roles, status, lifecycleState>>

(* assertNotAuditorCombination *)
auditorExclusive(list) == "AUDITOR" \in list => list \cap {"ADMIN", "MANAGER"} = {}

(* lifecycle.assignRolesAdmin: the last administrator that is counted      *)
(* keeps the role.                                                         *)
rolesAdminCheck(r, t, list) ==
    /\ at(r, "acting")
    /\ "ADMIN" \in req[r].roles
    /\ auditorExclusive(list)
    /\ become(r, [Idle EXCEPT !.pc = "rolesAdminRoles", !.target = t, !.list = list])
    /\ UNCHANGED <<roles, status, lifecycleState>>

rolesAdminRoles(r) ==
    /\ at(r, "rolesAdminRoles")
    /\ goto(r, IF "ADMIN" \in roles[req[r].target] /\ "ADMIN" \notin req[r].list
                 THEN "rolesAdminCount" ELSE "rolesAdminWrite")
    /\ UNCHANGED <<roles, status, lifecycleState>>

(* Mutant: one administrator is enough. *)
rolesAdminCountOne(r) ==
    /\ at(r, "rolesAdminCount")
    /\ Cardinality(activeAdmins) >= 1
    /\ goto(r, "rolesAdminWrite")
    /\ UNCHANGED <<roles, status, lifecycleState>>

rolesAdminCount(r) ==
    /\ at(r, "rolesAdminCount")
    /\ Cardinality(activeAdmins) > 1
    /\ goto(r, "rolesAdminWrite")
    /\ UNCHANGED <<roles, status, lifecycleState>>

(* identities.assignRoles: neither of the two rules is asked. *)
assignRoles(r, t, list) ==
    /\ at(r, "administering")
    /\ become(r, [Idle EXCEPT !.pc = "applyIdentityRoles", !.target = t, !.list = list])
    /\ UNCHANGED <<roles, status, lifecycleState>>

(* applyIdentityRoles, one transaction: the list replaces the old one.     *)
applyIdentityRoles(r) ==
    /\ req[r].pc \in {"applyIdentityRoles", "rolesAdminWrite", "assignUserWrite"}
    /\ roles' = [roles EXCEPT ![req[r].target] = req[r].list]
    /\ done(r)
    /\ UNCHANGED <<status, lifecycleState>>

(* identities.setStatus: not one's own status, unless to ACTIVE or one's   *)
(* own identity could not be looked up; it leaves lifecycleState alone.    *)
setStatus(r, t, to, actorFound) ==
    /\ at(r, "administering")
    /\ status[t] # to
    /\ actorFound /\ t = req[r].actor => to = "ACTIVE"
    /\ become(r, [Idle EXCEPT !.pc = "applyIdentityStatusChange", !.target = t, !.to = to])
    /\ UNCHANGED <<roles, status, lifecycleState>>

applyIdentityStatusChange(r) ==
    /\ at(r, "applyIdentityStatusChange")
    /\ status' = [status EXCEPT ![req[r].target] = req[r].to]
    /\ done(r)
    /\ UNCHANGED <<roles, lifecycleState>>

---------------------------------------------------------------------------
LifecycleStep(r) ==
    \/ \E p \in Identities : requireActor(r, p)
    \/ \E t \in Identities :
          suspendCheck(r, t) \/ reactivateCheck(r, t) \/ assignUserRole(r, t)
    \/ \E t \in Identities, list \in RoleLists : rolesAdminCheck(r, t, list)
    \/ suspendRoles(r) \/ suspendCount(r) \/ suspendWrite(r) \/ reactivateWrite(r)
    \/ rolesAdminRoles(r) \/ rolesAdminCount(r)

AdministrationStep(r) ==
    \/ \E p \in Identities : adminProcedure(r, p)
    \/ \E t \in Identities, list \in RoleLists : assignRoles(r, t, list)
    \/ \E t \in Identities, to \in IdentityStatus, found \in BOOLEAN : setStatus(r, t, to, found)
    \/ applyIdentityRoles(r) \/ applyIdentityStatusChange(r)

(* History: another handler changed who the active administrators are. *)
observe ==
    overtaken' = {r \in Requests :
                    /\ req'[r].pc # "idle"
                    /\ r \in overtaken \/ activeAdmins' # activeAdmins}

Next ==
    /\ \E r \in Requests : LifecycleStep(r) \/ AdministrationStep(r) \/ fails(r)
    /\ observe

Spec == Init /\ [][Next]_adminVars

---------------------------------------------------------------------------
(* Last-admin protection: a suspension, an administrator's change of role  *)
(* lists, or a manager's assignment of the USER role takes the last active *)
(* administrator away only if another handler changed who they are while   *)
(* it ran.  The fourth way through the governance router is left out: an   *)
(* administrator's assignUserRole asks nothing and does so without a race, *)
(* as the identity routes of the main router do.                           *)
LastAdminLostOnlyToRace ==
    [][\A r \in Requests :
          /\ \/ at(r, "suspendWrite") \/ at(r, "rolesAdminWrite")
             \/ at(r, "assignUserWrite") /\ "ADMIN" \notin req[r].roles
          /\ req'[r].pc = "idle"
          /\ activeAdmins # {} /\ activeAdmins' = {}
          => r \in overtaken]_adminVars

=============================================================================
