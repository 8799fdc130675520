--------------------- MODULE SampraanIdentityRegistry ---------------------
(***************************************************************************)
(* On-chain identity references, contracts/SampraanIdentityRegistry.sol:   *)
(* one record per wallet, the DID digest it owns, its lifecycle log and    *)
(* the hashes of its DID document.  Reasons and timestamps are evidence    *)
(* text and are left out; an empty reason is one more way to revert.       *)
(***************************************************************************)
EXTENDS SampraanAccessControl, Sequences

CONSTANTS
    Dids,           \* DID digests
    DidOf,          \* the DID digest that deployment registers for a wallet
    DocHashes,      \* hashes of DID documents
    ZeroAddress,    \* address(0)
    NoDid,          \* bytes32(0)
    MaxLifecycle    \* bound: lifecycle events of one wallet

ASSUME IdentityAssumption ==
    /\ DidOf \in [{Deployer, Auditor} -> Dids]
    /\ DidOf[Deployer] # DidOf[Auditor]
    /\ ZeroAddress \notin Principals
    /\ NoDid \notin Dids
    /\ NoDid \notin DocHashes
    /\ MaxLifecycle \in Nat

IdentityStatus == {"NONE", "PENDING", "VERIFIED", "SUSPENDED", "DEACTIVATED"}

VARIABLES
    idStatus,               \* wallet -> status of its record
    didDigest,              \* wallet -> DID digest of its record
    didOwners,              \* DID digest -> wallet
    lifecycle,              \* wallet -> log of <<from, to>> status pairs
    lifecycleCount,         \* wallet -> the contract's own length of that log
    didDocumentVersion,     \* wallet -> number of the newest document
    didDocumentHash,        \* wallet -> hashes, by version
    currentDidDocumentHash  \* wallet -> hash of the newest document

idVars == <<idStatus, didDigest, didOwners, lifecycle, lifecycleCount,
            didDocumentVersion, didDocumentHash, currentDidDocumentHash>>
docVars == <<didDocumentVersion, didDocumentHash, currentDidDocumentHash>>

isActive(wallet) == idStatus[wallet] = "VERIFIED"

(* Deployment registers and verifies the deployer and the auditor. *)
IRInit ==
    LET boot == {Deployer, Auditor}
    IN /\ idStatus = [w \in Accounts |-> IF w \in boot THEN "VERIFIED" ELSE "NONE"]
       /\ didDigest = [w \in Accounts |-> IF w \in boot THEN DidOf[w] ELSE NoDid]
       /\ didOwners = [d \in Dids |->
                         IF d = DidOf[Deployer] THEN Deployer
                         ELSE IF d = DidOf[Auditor] THEN Auditor ELSE ZeroAddress]
       /\ lifecycle = [w \in Accounts |->
                         IF w \in boot
                           THEN << <<"NONE", "PENDING">>, <<"PENDING", "VERIFIED">> >>
                           ELSE << >>]
       /\ lifecycleCount = [w \in Accounts |-> IF w \in boot THEN 2 ELSE 0]
       /\ didDocumentVersion = [w \in Accounts |-> 0]
       /\ didDocumentHash = [w \in Accounts |-> << >>]
       /\ currentDidDocumentHash = [w \in Accounts |-> NoDid]

(* Mutant: a DID that already has an owner is registered again. *)
registerIdentityAgain(caller, wallet, did) ==
    /\ hasRole(IDENTITY_ADMIN, caller)
    /\ idStatus[wallet] = "NONE"
    /\ idStatus' = [idStatus EXCEPT ![wallet] = "PENDING"]
    /\ didDigest' = [didDigest EXCEPT ![wallet] = did]
    /\ didOwners' = [didOwners EXCEPT ![did] = wallet]
    /\ lifecycle' = [lifecycle EXCEPT ![wallet] = Append(@, <<"NONE", "PENDING">>)]
    /\ lifecycleCount' = [lifecycleCount EXCEPT ![wallet] = 1]
    /\ UNCHANGED docVars

registerIdentity(caller, wallet, did) ==
    /\ hasRole(IDENTITY_ADMIN, caller)
    /\ idStatus[wallet] = "NONE"
    /\ didOwners[did] = ZeroAddress
    /\ idStatus' = [idStatus EXCEPT ![wallet] = "PENDING"]
    /\ didDigest' = [didDigest EXCEPT ![wallet] = did]
    /\ didOwners' = [didOwners EXCEPT ![did] = wallet]
    /\ lifecycle' = [lifecycle EXCEPT ![wallet] = Append(@, <<"NONE", "PENDING">>)]
    /\ lifecycleCount' = [lifecycleCount EXCEPT ![wallet] = 1]
    /\ UNCHANGED docVars

logEvent(wallet, from, to) ==
    /\ lifecycleCount[wallet] < MaxLifecycle
    /\ lifecycle' = [lifecycle EXCEPT ![wallet] = Append(@, <<from, to>>)]
    /\ lifecycleCount' = [lifecycleCount EXCEPT ![wallet] = @ + 1]

(* Mutant: the status is overwritten before the log entry reads it. *)
transitionOverwritten(wallet, to) ==
    /\ logEvent(wallet, to, to)
    /\ idStatus' = [idStatus EXCEPT ![wallet] = to]
    /\ UNCHANGED <<didDigest, didOwners, docVars>>

transition(wallet, to) ==
    /\ logEvent(wallet, idStatus[wallet], to)
    /\ idStatus' = [idStatus EXCEPT ![wallet] = to]
    /\ UNCHANGED <<didDigest, didOwners, docVars>>

verifyIdentity(caller, wallet) ==
    /\ hasRole(IDENTITY_ADMIN, caller)
    /\ idStatus[wallet] = "PENDING"
    /\ transition(wallet, "VERIFIED")

suspendIdentity(caller, wallet) ==
    /\ hasRole(IDENTITY_ADMIN, caller)
    /\ idStatus[wallet] = "VERIFIED"
    /\ transition(wallet, "SUSPENDED")

(* Mutant: reactivation only looks for an identity that is not active. *)
reactivateIdentityInactive(caller, wallet) ==
    /\ hasRole(IDENTITY_ADMIN, caller)
    /\ idStatus[wallet] \in {"SUSPENDED", "DEACTIVATED"}
    /\ transition(wallet, "VERIFIED")

reactivateIdentity(caller, wallet) ==
    /\ hasRole(IDENTITY_ADMIN, caller)
    /\ idStatus[wallet] = "SUSPENDED"
    /\ transition(wallet, "VERIFIED")

(* Sent by the governance contract only. *)
governanceDeactivateIdentity(wallet) ==
    /\ idStatus[wallet] \notin {"NONE", "DEACTIVATED"}
    /\ transition(wallet, "DEACTIVATED")

(* Mutant: the history gets the new hash and the current hash stays. *)
recordDidDocumentUpdateHistoryOnly(wallet, hash) ==
    /\ idStatus[wallet] \in {"PENDING", "VERIFIED"}
    /\ didDocumentVersion' = [didDocumentVersion EXCEPT ![wallet] = @ + 1]
    /\ didDocumentHash' = [didDocumentHash EXCEPT ![wallet] = Append(@, hash)]
    /\ logEvent(wallet, idStatus[wallet], idStatus[wallet])
    /\ UNCHANGED <<idStatus, didDigest, didOwners, currentDidDocumentHash>>

recordDidDocumentUpdate(wallet, hash) ==
    /\ idStatus[wallet] \in {"PENDING", "VERIFIED"}
    /\ didDocumentVersion' = [didDocumentVersion EXCEPT ![wallet] = @ + 1]
    /\ didDocumentHash' = [didDocumentHash EXCEPT ![wallet] = Append(@, hash)]
    /\ currentDidDocumentHash' = [currentDidDocumentHash EXCEPT ![wallet] = hash]
    /\ logEvent(wallet, idStatus[wallet], idStatus[wallet])
    /\ UNCHANGED <<idStatus, didDigest, didOwners>>

updateDidDocumentHash(caller, hash) == recordDidDocumentUpdate(caller, hash)

updateDidDocumentHashFor(caller, wallet, hash) ==
    /\ hasRole(IDENTITY_ADMIN, caller)
    /\ recordDidDocumentUpdate(wallet, hash)

(* The calls that accounts send; governance sends its own call. *)
IRAccountNext ==
    \/ \E c, w \in Accounts, d \in Dids : registerIdentity(c, w, d)
    \/ \E c, w \in Accounts : verifyIdentity(c, w)
    \/ \E c, w \in Accounts : suspendIdentity(c, w)
    \/ \E c, w \in Accounts : reactivateIdentity(c, w)
    \/ \E c \in Accounts, h \in DocHashes : updateDidDocumentHash(c, h)
    \/ \E c, w \in Accounts, h \in DocHashes : updateDidDocumentHashFor(c, w, h)

IRGovernanceNext == \E w \in Accounts : governanceDeactivateIdentity(w)

(* The two contracts with governance free to deactivate at any time. *)
IdentityInit == ACInit /\ IRInit
IdentityNext ==
    \/ ACNext /\ UNCHANGED idVars
    \/ (IRAccountNext \/ IRGovernanceNext) /\ UNCHANGED acVars
IdentitySpec == IdentityInit /\ [][IdentityNext]_<<acVars, idVars>>

IRTypeOK ==
    /\ idStatus \in [Accounts -> IdentityStatus]
    /\ didDigest \in [Accounts -> Dids \cup {NoDid}]
    /\ didOwners \in [Dids -> Accounts \cup {ZeroAddress}]
    /\ lifecycle \in [Accounts -> Seq(IdentityStatus \X IdentityStatus)]
    /\ lifecycleCount \in [Accounts -> Nat]
    /\ didDocumentVersion \in [Accounts -> Nat]
    /\ didDocumentHash \in [Accounts -> Seq(DocHashes)]
    /\ currentDidDocumentHash \in [Accounts -> DocHashes \cup {NoDid}]

IdentityTypeOK == ACTypeOK /\ IRTypeOK

---------------------------------------------------------------------------
(* The two maps of the registry agree: a wallet owns the DID of its record *)
(* and no other, so no DID ever has two wallets or a wallet two DIDs.      *)
DidBinding ==
    /\ \A w \in Accounts : idStatus[w] # "NONE" =>
          didDigest[w] \in Dids /\ didOwners[didDigest[w]] = w
    /\ \A d \in Dids : didOwners[d] # ZeroAddress =>
          didDigest[didOwners[d]] = d /\ idStatus[didOwners[d]] # "NONE"

(* The lifecycle log that auditors read explains the current status: it    *)
(* starts at NONE, each entry starts where the previous one ended, the     *)
(* last one ends at the current status, and the separately kept counter is *)
(* its length.                                                             *)
LogExplains(log, count, status) ==
    /\ count = Len(log)
    /\ (status = "NONE") <=> (Len(log) = 0)
    /\ Len(log) > 0 => log[1][1] = "NONE" /\ log[Len(log)][2] = status
    /\ \A i \in 2 .. Len(log) : log[i][1] = log[i - 1][2]

LifecycleExplainsStatus ==
    \A w \in Accounts : LogExplains(lifecycle[w], lifecycleCount[w], idStatus[w])

(* The newest document hash is the one stored under the current version.   *)
DocumentHistoryMatches ==
    \A w \in Accounts :
        /\ didDocumentVersion[w] = Len(didDocumentHash[w])
        /\ currentDidDocumentHash[w] =
             IF didDocumentVersion[w] = 0 THEN NoDid
             ELSE didDocumentHash[w][didDocumentVersion[w]]

(* A deactivated identity is never active again and its record, its log    *)
(* and its DID document are never touched again.                           *)
DeactivationTerminal ==
    [][\A w \in Accounts : idStatus[w] = "DEACTIVATED" =>
          /\ idStatus'[w] = "DEACTIVATED"
          /\ lifecycle'[w] = lifecycle[w]
          /\ didDocumentHash'[w] = didDocumentHash[w]
          /\ didOwners'[didDigest[w]] = w]_idVars

==========================================================================
