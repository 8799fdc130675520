---------------------- MODULE SampraanAccessControl ----------------------
(***************************************************************************)
(* On-chain role registry, contracts/SampraanAccessControl.sol, on top of  *)
(* OpenZeppelin's AccessControl.  Every role is administered by            *)
(* DEFAULT_ADMIN_ROLE.  A call that reverts changes nothing, so it is the  *)
(* absence of a step; each action below is a call that succeeds.           *)
(***************************************************************************)
EXTENDS Naturals, FiniteSets

CONSTANTS
    Accounts,       \* externally owned accounts: the wallets that send calls
    Deployer,       \* the operator wallet that deployed the contracts
    Auditor,        \* the wallet that deployment grants AUDITOR_ROLE
    Governance,     \* the governance contract: holds roles, never sends a role call
    MaxRoleEvents   \* bound: RoleGranted/RoleRevoked events after deployment

ASSUME AccountAssumption ==
    /\ IsFiniteSet(Accounts)
    /\ Deployer \in Accounts
    /\ Auditor \in Accounts
    /\ Deployer # Auditor
    /\ Governance \notin Accounts
    /\ MaxRoleEvents \in Nat

DEFAULT_ADMIN == "DEFAULT_ADMIN_ROLE"
IDENTITY_ADMIN == "IDENTITY_ADMIN_ROLE"
ASSET_MANAGER == "ASSET_MANAGER_ROLE"
AUDITOR == "AUDITOR_ROLE"

AdminRoles == {DEFAULT_ADMIN, IDENTITY_ADMIN, ASSET_MANAGER}
Roles == AdminRoles \cup {AUDITOR}
Principals == Accounts \cup {Governance}

VARIABLES
    members,            \* role -> the principals that hold it
    adminHolderCount,   \* the contract's count of DEFAULT_ADMIN_ROLE holders
    roleEvents          \* number of role events emitted after deployment

acVars == <<members, adminHolderCount, roleEvents>>

hasRole(role, account) == account \in members[role]

(***************************************************************************)
(* The state deployment leaves behind: the constructor's three grants to   *)
(* the deployer, then the script's grants to the auditor and to the        *)
(* governance contract.                                                    *)
(***************************************************************************)
ACInit ==
    /\ members = [r \in Roles |->
                    IF r = AUDITOR THEN {Auditor} ELSE {Deployer, Governance}]
    /\ adminHolderCount = 2
    /\ roleEvents = 0

(* The internal mutators: an event and a count only when the set changes. *)
(* Mutant: a repeated grant is counted again.                              *)
grantRoleHookRecounting(role, account) ==
    /\ members' = [members EXCEPT ![role] = @ \cup {account}]
    /\ adminHolderCount' = IF role = DEFAULT_ADMIN THEN adminHolderCount + 1 ELSE adminHolderCount
    /\ roleEvents' = IF account \notin members[role] THEN roleEvents + 1 ELSE roleEvents

grantRoleHook(role, account) ==
    /\ members' = [members EXCEPT ![role] = @ \cup {account}]
    /\ adminHolderCount' = IF role = DEFAULT_ADMIN /\ account \notin members[role]
                             THEN adminHolderCount + 1 ELSE adminHolderCount
    /\ roleEvents' = IF account \notin members[role] THEN roleEvents + 1 ELSE roleEvents

(* Mutant: a revocation is counted even when there was nothing to revoke.  *)
revokeRoleHookRecounting(role, account) ==
    /\ members' = [members EXCEPT ![role] = @ \ {account}]
    /\ adminHolderCount' = IF role = DEFAULT_ADMIN THEN adminHolderCount - 1 ELSE adminHolderCount
    /\ roleEvents' = IF account \in members[role] THEN roleEvents + 1 ELSE roleEvents

revokeRoleHook(role, account) ==
    /\ members' = [members EXCEPT ![role] = @ \ {account}]
    /\ adminHolderCount' = IF role = DEFAULT_ADMIN /\ account \in members[role]
                             THEN adminHolderCount - 1 ELSE adminHolderCount
    /\ roleEvents' = IF account \in members[role] THEN roleEvents + 1 ELSE roleEvents

(* Only the AUDITOR_ROLE grant looks at the other roles of the account. *)
grantRole(caller, role, account) ==
    /\ roleEvents < MaxRoleEvents
    /\ role = AUDITOR => \A r \in AdminRoles : ~hasRole(r, account)
    /\ hasRole(DEFAULT_ADMIN, caller)
    /\ grantRoleHook(role, account)

(* Mutant: the last-admin check is off by one. *)
revokeRoleOffByOne(caller, role, account) ==
    /\ roleEvents < MaxRoleEvents
    /\ (role = DEFAULT_ADMIN /\ hasRole(DEFAULT_ADMIN, account)) => adminHolderCount >= 1
    /\ hasRole(DEFAULT_ADMIN, caller)
    /\ revokeRoleHook(role, account)

revokeRole(caller, role, account) ==
    /\ roleEvents < MaxRoleEvents
    /\ (role = DEFAULT_ADMIN /\ hasRole(DEFAULT_ADMIN, account)) => adminHolderCount > 1
    /\ hasRole(DEFAULT_ADMIN, caller)
    /\ revokeRoleHook(role, account)

(* Inherited from OpenZeppelin and not overridden: the caller gives up a   *)
(* role of its own, straight through the hook.                             *)
renounceRole(caller, role) ==
    /\ roleEvents < MaxRoleEvents
    /\ revokeRoleHook(role, caller)

ACNext ==
    \/ \E c \in Accounts, r \in Roles, a \in Principals : grantRole(c, r, a)
    \/ \E c \in Accounts, r \in Roles, a \in Principals : revokeRole(c, r, a)
    \/ \E c \in Accounts, r \in Roles : renounceRole(c, r)

ACTypeOK ==
    /\ members \in [Roles -> SUBSET Principals]
    /\ adminHolderCount \in Nat
    /\ roleEvents \in Nat

---------------------------------------------------------------------------
(* The holder count that the last-admin check of revokeRole trusts is the  *)
(* number of accounts that really hold DEFAULT_ADMIN_ROLE, whatever the    *)
(* order of grants, repeated grants, revocations and renunciations.        *)
AdminCountExact == adminHolderCount = Cardinality(members[DEFAULT_ADMIN])

(* Last-admin protection of revokeRole, as far as the code has it: no      *)
(* revocation empties DEFAULT_ADMIN_ROLE, and none by another account      *)
(* leaves it without an account, that is with nobody who sends role calls. *)
(* The comment's "the role set can never be orphaned" is more than that:   *)
(* the last holder may renounce, and the last account may revoke itself    *)
(* and leave the governance contract, whose role dispatches revert.        *)
RevokeKeepsAnAdmin ==
    [][members' # members =>
          \A c \in Accounts, a \in Principals : revokeRole(c, DEFAULT_ADMIN, a) =>
              /\ members'[DEFAULT_ADMIN] # {}
              /\ a # c => members'[DEFAULT_ADMIN] \cap Accounts # {}]_acVars

==========================================================================
