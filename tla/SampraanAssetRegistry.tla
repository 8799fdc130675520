----------------------- MODULE SampraanAssetRegistry -----------------------
(***************************************************************************)
(* Controlled asset tokens, contracts/SampraanAssetRegistry.sol, over the  *)
(* ERC-721 ownership map it inherits.  The registry reads the other two    *)
(* contracts (hasRole, isActive) and is called by the governance contract. *)
(* Digests other than the asset id, timestamps, reasons and report         *)
(* contents are evidence and are left out.                                 *)
(*                                                                         *)
(* RegistrySpec lets the governance contract make any governance call at   *)
(* any time; SampraanGovernance restricts it to executed proposals.        *)
(***************************************************************************)
EXTENDS SampraanIdentityRegistry

CONSTANTS
    AssetIds,       \* asset id digests
    NoAsset,        \* bytes32(0)
    MaxTokens,      \* bound: tokens minted
    MaxCustody,     \* bound: custody records of one token
    MaxDisputes,    \* bound: disputes raised
    MaxEvidence     \* bound: anomalies flagged and report hashes stored

ASSUME AssetAssumption ==
    /\ IsFiniteSet(AssetIds)
    /\ NoAsset \notin AssetIds
    /\ {MaxTokens, MaxCustody, MaxDisputes, MaxEvidence} \subseteq Nat

AssetStatus == {"NONE", "PENDING", "ACTIVE", "SUSPENDED", "REVOKED"}
Tokens == 1 .. MaxTokens
Wallets == Accounts \cup {ZeroAddress}

VARIABLES
    paused,                 \* emergency pause
    disputedAssets,         \* asset ids whose transfer is on hold
    openDisputeCount,       \* the contract's count of those
    assetIdDigest,          \* token -> asset id of its record
    assetStatus,            \* token -> status of its record
    custodian,              \* token -> custodian of its record
    assetIdToToken,         \* asset id -> token, 0 when unregistered
    nextTokenId,            \* the next token to mint
    owners,                 \* ERC-721 ownership; ZeroAddress: not minted or burned
    custodyHistory,         \* token -> log of <<from, to>> wallets
    custodyHistoryLength,   \* token -> the contract's own length of that log
    disputes,               \* the disputes raised, by id
    anomalyCount,           \* anomalies flagged
    auditReportCount        \* audit report hashes stored

recordVars == <<assetIdDigest, assetStatus, custodian, assetIdToToken, nextTokenId>>
custodyVars == <<owners, custodyHistory, custodyHistoryLength>>
disputeVars == <<disputedAssets, openDisputeCount, disputes>>
evidenceVars == <<anomalyCount, auditReportCount>>
assetVars == <<paused, recordVars, custodyVars, disputeVars, evidenceVars>>
registryVars == <<acVars, idVars, assetVars>>

ARInit ==
    /\ paused = FALSE
    /\ disputedAssets = {}
    /\ openDisputeCount = 0
    /\ assetIdDigest = [t \in Tokens |-> NoAsset]
    /\ assetStatus = [t \in Tokens |-> "NONE"]
    /\ custodian = [t \in Tokens |-> ZeroAddress]
    /\ assetIdToToken = [a \in AssetIds |-> 0]
    /\ nextTokenId = 1
    /\ owners = [t \in Tokens |-> ZeroAddress]
    /\ custodyHistory = [t \in Tokens |-> << >>]
    /\ custodyHistoryLength = [t \in Tokens |-> 0]
    /\ disputes = << >>
    /\ anomalyCount = 0
    /\ auditReportCount = 0

(* Mutant: the manager modifiers forget the pause. *)
managerCallUnpaused(caller) == hasRole(ASSET_MANAGER, caller)

(* The guard of both manager modifiers. *)
managerCall(caller) == ~paused /\ hasRole(ASSET_MANAGER, caller)

(* OpenZeppelin's _mint and _burn, and the ownership check of _transfer.   *)
mintTo(token, to) ==
    /\ owners[token] = ZeroAddress
    /\ owners' = [owners EXCEPT ![token] = to]

burn(token) ==
    /\ owners[token] # ZeroAddress
    /\ owners' = [owners EXCEPT ![token] = ZeroAddress]

transferOwner(from, to, token) ==
    /\ owners[token] = from
    /\ owners' = [owners EXCEPT ![token] = to]

(* Mutant: the custodian is overwritten before the log entry reads it. *)
moveCustodyOverwritten(token, to) ==
    /\ custodyHistoryLength[token] < MaxCustody
    /\ custodian' = [custodian EXCEPT ![token] = to]
    /\ custodyHistory' = [custodyHistory EXCEPT ![token] = Append(@, <<to, to>>)]
    /\ custodyHistoryLength' = [custodyHistoryLength EXCEPT ![token] = @ + 1]
    /\ UNCHANGED <<paused, assetIdDigest, assetStatus, assetIdToToken, nextTokenId,
                   disputeVars, evidenceVars>>

(* Custodian and custody log move together in the three transfer paths.    *)
moveCustody(token, to) ==
    /\ custodyHistoryLength[token] < MaxCustody
    /\ custodian' = [custodian EXCEPT ![token] = to]
    /\ custodyHistory' = [custodyHistory EXCEPT ![token] =
                            Append(@, <<custodian[token], to>>)]
    /\ custodyHistoryLength' = [custodyHistoryLength EXCEPT ![token] = @ + 1]
    /\ UNCHANGED <<paused, assetIdDigest, assetStatus, assetIdToToken, nextTokenId,
                   disputeVars, evidenceVars>>

(* Mutant: an asset id is registered again. *)
registerAssetAgain(caller, asset, to) ==
    /\ managerCall(caller)
    /\ isActive(to)
    /\ nextTokenId \in Tokens
    /\ nextTokenId' = nextTokenId + 1
    /\ assetIdDigest' = [assetIdDigest EXCEPT ![nextTokenId] = asset]
    /\ assetStatus' = [assetStatus EXCEPT ![nextTokenId] = "PENDING"]
    /\ custodian' = [custodian EXCEPT ![nextTokenId] = to]
    /\ assetIdToToken' = [assetIdToToken EXCEPT ![asset] = nextTokenId]
    /\ mintTo(nextTokenId, to)
    /\ custodyHistory' = [custodyHistory EXCEPT ![nextTokenId] =
                            Append(@, <<ZeroAddress, to>>)]
    /\ custodyHistoryLength' = [custodyHistoryLength EXCEPT ![nextTokenId] = 1]
    /\ UNCHANGED <<paused, disputeVars, evidenceVars>>

registerAsset(caller, asset, to) ==
    /\ managerCall(caller)
    /\ assetIdToToken[asset] = 0
    /\ isActive(to)
    /\ nextTokenId \in Tokens
    /\ nextTokenId' = nextTokenId + 1
    /\ assetIdDigest' = [assetIdDigest EXCEPT ![nextTokenId] = asset]
    /\ assetStatus' = [assetStatus EXCEPT ![nextTokenId] = "PENDING"]
    /\ custodian' = [custodian EXCEPT ![nextTokenId] = to]
    /\ assetIdToToken' = [assetIdToToken EXCEPT ![asset] = nextTokenId]
    /\ mintTo(nextTokenId, to)
    /\ custodyHistory' = [custodyHistory EXCEPT ![nextTokenId] =
                            Append(@, <<ZeroAddress, to>>)]
    /\ custodyHistoryLength' = [custodyHistoryLength EXCEPT ![nextTokenId] = 1]
    /\ UNCHANGED <<paused, disputeVars, evidenceVars>>

(* Mutant: assignment moves the record and not the token. *)
assignAssetRecordOnly(caller, token, to) ==
    /\ managerCall(caller)
    /\ assetStatus[token] \in {"PENDING", "ACTIVE"}
    /\ to # custodian[token]
    /\ isActive(to)
    /\ moveCustody(token, to)
    /\ UNCHANGED owners

(* Mutant: assignment does not ask for the recipient's identity. *)
assignAssetUnchecked(caller, token, to) ==
    /\ managerCall(caller)
    /\ assetStatus[token] \in {"PENDING", "ACTIVE"}
    /\ to # custodian[token]
    /\ moveCustody(token, to)
    /\ transferOwner(custodian[token], to, token)

(* The previous custodian and the dispute hold are not looked at. *)
assignAsset(caller, token, to) ==
    /\ managerCall(caller)
    /\ assetStatus[token] \in {"PENDING", "ACTIVE"}
    /\ to # custodian[token]
    /\ isActive(to)
    /\ moveCustody(token, to)
    /\ owners[token] # ZeroAddress
    /\ IF owners[token] # to
         THEN transferOwner(custodian[token], to, token)
         ELSE UNCHANGED owners

transferCustody(caller, token, to) ==
    /\ managerCall(caller)
    /\ assetStatus[token] = "ACTIVE"
    /\ assetIdDigest[token] \notin disputedAssets
    /\ to # custodian[token]
    /\ isActive(custodian[token])
    /\ isActive(to)
    /\ moveCustody(token, to)
    /\ transferOwner(custodian[token], to, token)

(* Mutant: revocation is not terminal. *)
StatusTransitionsRestoring ==
    {<<"PENDING", "ACTIVE">>, <<"ACTIVE", "SUSPENDED">>, <<"ACTIVE", "REVOKED">>,
     <<"SUSPENDED", "ACTIVE">>, <<"SUSPENDED", "REVOKED">>, <<"REVOKED", "ACTIVE">>}

(* The transitions _changeStatus accepts. *)
StatusTransitions ==
    {<<"PENDING", "ACTIVE">>, <<"ACTIVE", "SUSPENDED">>, <<"ACTIVE", "REVOKED">>,
     <<"SUSPENDED", "ACTIVE">>, <<"SUSPENDED", "REVOKED">>}

changeStatus(token, to) ==
    /\ <<assetStatus[token], to>> \in StatusTransitions
    /\ assetStatus' = [assetStatus EXCEPT ![token] = to]
    /\ UNCHANGED <<paused, assetIdDigest, custodian, assetIdToToken, nextTokenId,
                   custodyVars, disputeVars, evidenceVars>>

activateAsset(caller, token) == managerCall(caller) /\ changeStatus(token, "ACTIVE")
suspendAsset(caller, token) == managerCall(caller) /\ changeStatus(token, "SUSPENDED")
restoreAsset(caller, token) == managerCall(caller) /\ changeStatus(token, "ACTIVE")
revokeAsset(caller, token) == managerCall(caller) /\ changeStatus(token, "REVOKED")

flagAnomaly(caller) ==
    /\ ~paused
    /\ hasRole(AUDITOR, caller)
    /\ anomalyCount + auditReportCount < MaxEvidence
    /\ anomalyCount' = anomalyCount + 1
    /\ UNCHANGED <<paused, recordVars, custodyVars, disputeVars, auditReportCount>>

(* Mutant: a second dispute is raised on an asset that is on hold. *)
raiseDisputeAgain(caller, token) ==
    /\ ~paused
    /\ hasRole(AUDITOR, caller)
    /\ assetStatus[token] # "NONE"
    /\ Len(disputes) < MaxDisputes
    /\ disputes' = Append(disputes, [token |-> token, raisedBy |-> caller,
                                     open |-> TRUE, upheld |-> FALSE])
    /\ disputedAssets' = disputedAssets \cup {assetIdDigest[token]}
    /\ openDisputeCount' = openDisputeCount + 1
    /\ UNCHANGED <<paused, recordVars, custodyVars, evidenceVars>>

raiseDispute(caller, token) ==
    /\ ~paused
    /\ hasRole(AUDITOR, caller)
    /\ assetStatus[token] # "NONE"
    /\ assetIdDigest[token] \notin disputedAssets
    /\ Len(disputes) < MaxDisputes
    /\ disputes' = Append(disputes, [token |-> token, raisedBy |-> caller,
                                     open |-> TRUE, upheld |-> FALSE])
    /\ disputedAssets' = disputedAssets \cup {assetIdDigest[token]}
    /\ openDisputeCount' = openDisputeCount + 1
    /\ UNCHANGED <<paused, recordVars, custodyVars, evidenceVars>>

(* Mutant: a dispute is resolved again. *)
resolveDisputeAgain(caller, id, upheld) ==
    /\ ~paused
    /\ hasRole(DEFAULT_ADMIN, caller)
    /\ id \in 1 .. Len(disputes)
    /\ disputes' = [disputes EXCEPT ![id].open = FALSE, ![id].upheld = upheld]
    /\ IF upheld
         THEN UNCHANGED <<disputedAssets, openDisputeCount>>
         ELSE /\ disputedAssets' = disputedAssets \ {assetIdDigest[disputes[id].token]}
              /\ openDisputeCount' = openDisputeCount - 1
    /\ UNCHANGED <<paused, recordVars, custodyVars, evidenceVars>>

(* Mutant: an upheld dispute leaves the count and keeps the hold. *)
resolveDisputeUncounted(caller, id, upheld) ==
    /\ ~paused
    /\ hasRole(DEFAULT_ADMIN, caller)
    /\ id \in 1 .. Len(disputes) /\ disputes[id].open
    /\ disputes' = [disputes EXCEPT ![id].open = FALSE, ![id].upheld = upheld]
    /\ disputedAssets' = IF upheld THEN disputedAssets
                         ELSE disputedAssets \ {assetIdDigest[disputes[id].token]}
    /\ openDisputeCount' = openDisputeCount - 1
    /\ UNCHANGED <<paused, recordVars, custodyVars, evidenceVars>>

(* Only a rejected dispute releases the hold and leaves the count. *)
resolveDispute(caller, id, upheld) ==
    /\ ~paused
    /\ hasRole(DEFAULT_ADMIN, caller)
    /\ id \in 1 .. Len(disputes) /\ disputes[id].open
    /\ disputes' = [disputes EXCEPT ![id].open = FALSE, ![id].upheld = upheld]
    /\ IF upheld
         THEN UNCHANGED <<disputedAssets, openDisputeCount>>
         ELSE /\ disputedAssets' = disputedAssets \ {assetIdDigest[disputes[id].token]}
              /\ openDisputeCount' = openDisputeCount - 1
    /\ UNCHANGED <<paused, recordVars, custodyVars, evidenceVars>>

(* No pause check. *)
storeAuditReportHash(caller) ==
    /\ hasRole(AUDITOR, caller)
    /\ anomalyCount + auditReportCount < MaxEvidence
    /\ auditReportCount' = auditReportCount + 1
    /\ UNCHANGED <<paused, recordVars, custodyVars, disputeVars, anomalyCount>>

governancePause ==
    /\ ~paused
    /\ paused' = TRUE
    /\ UNCHANGED <<recordVars, custodyVars, disputeVars, evidenceVars>>

governanceUnpause ==
    /\ paused
    /\ paused' = FALSE
    /\ UNCHANGED <<recordVars, custodyVars, disputeVars, evidenceVars>>

(* Mutant: a burn leaves the status of the record alone. *)
governanceBurnNFTOnly(token) ==
    /\ assetStatus[token] \notin {"NONE", "REVOKED"}
    /\ burn(token)
    /\ UNCHANGED <<paused, assetIdDigest, assetStatus, custodian, assetIdToToken, nextTokenId,
                   custodyHistory, custodyHistoryLength, disputeVars, evidenceVars>>

governanceBurnNFT(token) ==
    /\ assetStatus[token] \notin {"NONE", "REVOKED"}
    /\ assetStatus' = [assetStatus EXCEPT ![token] = "REVOKED"]
    /\ burn(token)
    /\ UNCHANGED <<paused, assetIdDigest, custodian, assetIdToToken, nextTokenId,
                   custodyHistory, custodyHistoryLength, disputeVars, evidenceVars>>

governanceForceTransfer(token, to) ==
    /\ assetStatus[token] # "NONE"
    /\ to # custodian[token]
    /\ moveCustody(token, to)
    /\ transferOwner(custodian[token], to, token)

ARAccountNext ==
    \/ \E c, w \in Accounts, a \in AssetIds : registerAsset(c, a, w)
    \/ \E c, w \in Accounts, t \in Tokens : assignAsset(c, t, w)
    \/ \E c, w \in Accounts, t \in Tokens : transferCustody(c, t, w)
    \/ \E c \in Accounts, t \in Tokens : activateAsset(c, t)
    \/ \E c \in Accounts, t \in Tokens : suspendAsset(c, t)
    \/ \E c \in Accounts, t \in Tokens : restoreAsset(c, t)
    \/ \E c \in Accounts, t \in Tokens : revokeAsset(c, t)
    \/ \E c \in Accounts : flagAnomaly(c)
    \/ \E c \in Accounts, t \in Tokens : raiseDispute(c, t)
    \/ \E c \in Accounts, i \in 1 .. MaxDisputes, u \in BOOLEAN : resolveDispute(c, i, u)
    \/ \E c \in Accounts : storeAuditReportHash(c)

ARGovernanceNext ==
    \/ governancePause
    \/ governanceUnpause
    \/ \E t \in Tokens : governanceBurnNFT(t)
    \/ \E t \in Tokens, w \in Accounts : governanceForceTransfer(t, w)

(* One call to one of the three contracts. *)
AccountNext ==
    \/ ACNext /\ UNCHANGED <<idVars, assetVars>>
    \/ IRAccountNext /\ UNCHANGED <<acVars, assetVars>>
    \/ ARAccountNext /\ UNCHANGED <<acVars, idVars>>

GovernanceNext ==
    \/ IRGovernanceNext /\ UNCHANGED <<acVars, assetVars>>
    \/ ARGovernanceNext /\ UNCHANGED <<acVars, idVars>>

RegistryInit == ACInit /\ IRInit /\ ARInit
RegistryNext == AccountNext \/ GovernanceNext
RegistrySpec == RegistryInit /\ [][RegistryNext]_registryVars

DisputeRecord == [token : Tokens, raisedBy : Accounts, open : BOOLEAN, upheld : BOOLEAN]

RecordTypeOK ==
    /\ assetIdDigest \in [Tokens -> AssetIds \cup {NoAsset}]
    /\ assetStatus \in [Tokens -> AssetStatus]
    /\ custodian \in [Tokens -> Wallets]
    /\ assetIdToToken \in [AssetIds -> 0 .. MaxTokens]
    /\ nextTokenId \in 1 .. MaxTokens + 1
    /\ owners \in [Tokens -> Wallets]
    /\ custodyHistory \in [Tokens -> Seq(Wallets \X Accounts)]
    /\ custodyHistoryLength \in [Tokens -> Nat]

DisputeTypeOK ==
    /\ disputedAssets \subseteq AssetIds
    /\ openDisputeCount \in Nat
    /\ disputes \in Seq(DisputeRecord)

ARTypeOK ==
    /\ paused \in BOOLEAN
    /\ RecordTypeOK
    /\ DisputeTypeOK
    /\ anomalyCount \in Nat
    /\ auditReportCount \in Nat

RegistryTypeOK == ACTypeOK /\ IRTypeOK /\ ARTypeOK

---------------------------------------------------------------------------
Minted(t) == assetStatus[t] # "NONE"
Burned(t) == Minted(t) /\ owners[t] = ZeroAddress

(* Token numbers and asset ids determine each other: exactly the tokens    *)
(* below the mint counter have a record, and resolveAssetId is its inverse. *)
TokenBinding ==
    /\ \A t \in Tokens : Minted(t) <=> t < nextTokenId
    /\ \A t \in Tokens : Minted(t) =>
          assetIdDigest[t] \in AssetIds /\ assetIdToToken[assetIdDigest[t]] = t
    /\ \A a \in AssetIds : assetIdToToken[a] # 0 =>
          Minted(assetIdToToken[a]) /\ assetIdDigest[assetIdToToken[a]] = a

(* The ERC-721 owner is the custodian of the record, except for a burned   *)
(* token, and a burned token is REVOKED.                                   *)
OwnerIsCustodian ==
    \A t \in Tokens : Minted(t) =>
        /\ custodian[t] \in Accounts
        /\ owners[t] = custodian[t] \/ (owners[t] = ZeroAddress /\ assetStatus[t] = "REVOKED")

(* The custody log is an unbroken chain from the mint to the current       *)
(* custodian, and its separately kept length is right.                     *)
CustodyExplains(log, count, minted, holder) ==
    /\ count = Len(log)
    /\ minted <=> Len(log) > 0
    /\ minted => log[1][1] = ZeroAddress /\ log[Len(log)][2] = holder
    /\ \A i \in 2 .. Len(log) : log[i][1] = log[i - 1][2]

CustodyChain ==
    \A t \in Tokens :
        CustodyExplains(custodyHistory[t], custodyHistoryLength[t], Minted(t), custodian[t])

(* A dispute holds its asset while it is open and, when upheld, for good. *)
Holding(i) == disputes[i].open \/ disputes[i].upheld

(* The holds are explained by the disputes: an asset is on hold exactly    *)
(* when one dispute holds it, never two.                                   *)
HoldsMatchDisputes ==
    /\ \A i \in DOMAIN disputes :
          /\ Minted(disputes[i].token)
          /\ Holding(i) => assetIdDigest[disputes[i].token] \in disputedAssets
    /\ \A a \in disputedAssets :
          \E i \in DOMAIN disputes : Holding(i) /\ assetIdDigest[disputes[i].token] = a
    /\ \A i, j \in DOMAIN disputes :
          Holding(i) /\ Holding(j) /\ disputes[i].token = disputes[j].token => i = j

(* openDisputeCount is the number of assets on hold. *)
OpenCountExact == openDisputeCount = Cardinality(disputedAssets)

(* Once an auditor's dispute is upheld, no later call, and no later        *)
(* dispute on the same asset, releases the hold.                           *)
UpheldHoldIsPermanent ==
    [][\A i \in DOMAIN disputes : disputes[i].upheld =>
          /\ disputes'[i] = disputes[i]
          /\ assetIdDigest'[disputes[i].token] \in disputedAssets']_registryVars

(* A revoked asset stays revoked, and a burned one keeps its record, its   *)
(* custody log and its missing owner whatever is called afterwards.        *)
RevocationTerminal ==
    [][\A t \in Tokens :
          /\ assetStatus[t] = "REVOKED" => assetStatus'[t] = "REVOKED"
          /\ Burned(t) => /\ Burned(t)'
                          /\ custodian'[t] = custodian[t]
                          /\ custodyHistory'[t] = custodyHistory[t]]_registryVars

(* Outside governance, custody moves only to a wallet whose identity is    *)
(* VERIFIED at that moment, and never out of a suspended or revoked asset. *)
CustodyMovesToActive ==
    [][\A t \in Tokens :
          custodian'[t] # custodian[t] =>
              \/ isActive(custodian'[t]) /\ assetStatus[t] \in {"NONE", "PENDING", "ACTIVE"}
              \/ ~AccountNext]_registryVars

==========================================================================
