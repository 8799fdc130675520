------------------------ MODULE SampraanGovernance ------------------------
(***************************************************************************)
(* The multisig with a timelock, contracts/SampraanGovernance.sol,         *)
(* composed with the registries it dispatches to.  The signer set is fixed *)
(* at deployment.  A proposal's role field is left out: no dispatch that   *)
(* uses it succeeds.                                                       *)
(***************************************************************************)
EXTENDS SampraanAssetRegistry

CONSTANTS
    Signers,            \* the multisig
    Operations,         \* the operations that signers propose
    QuorumPercents,     \* values governanceAdmin asks for as quorumPercent
    TimelockDelays,     \* values governanceAdmin sets timelockDelaySeconds to
    InitialQuorum,
    InitialDelay,
    MaxProposals,       \* bound: proposal ids
    MaxTime             \* bound: block timestamp

OpKinds == {"GRANT_ROLE", "REVOKE_ROLE", "BURN_NFT", "FORCE_TRANSFER",
            "PAUSE_REGISTRY", "UNPAUSE_REGISTRY", "DEACTIVATE_IDENTITY"}

Contracts == {"accessControl", "identityRegistry", "assetRegistry"}

(* The contracts that answer sampraanGovernanceTargetVersion with 1. *)
GovernanceTargets == {"identityRegistry", "assetRegistry"}

OperationRecord == [kind : OpKinds, target : Contracts, account : Accounts,
                    token : Tokens, reason : BOOLEAN]

ASSUME GovernanceAssumption ==
    /\ IsFiniteSet(Signers) /\ Signers # {}
    /\ Operations \subseteq OperationRecord
    /\ QuorumPercents \subseteq Nat
    /\ InitialQuorum \in 1 .. 100
    /\ TimelockDelays \subseteq Nat
    /\ InitialDelay \in Nat
    /\ MaxProposals \in Nat
    /\ MaxTime \in Nat

NoOperation == [kind |-> "NONE"]
ProposalIds == 1 .. MaxProposals

VARIABLES
    now,                    \* block.timestamp
    quorumPercent,
    timelockDelaySeconds,
    proposalCount,
    proposalOp,             \* id -> the operation bound at propose time
    proposalCreatedAt,
    proposalApprovals,      \* id -> the contract's count of approvals
    proposalApprovedBy,     \* id -> the signers that approved
    proposalExecuted,       \* the executed ids
    proposalCancelled       \* the cancelled ids

configVars == <<quorumPercent, timelockDelaySeconds>>
createVars == <<proposalCount, proposalOp, proposalCreatedAt>>
approvalVars == <<proposalApprovals, proposalApprovedBy>>
outcomeVars == <<proposalExecuted, proposalCancelled>>
govVars == <<now, configVars, createVars, approvalVars, outcomeVars>>
chainVars == <<registryVars, govVars>>

GovInit ==
    /\ now = 0
    /\ quorumPercent = InitialQuorum
    /\ timelockDelaySeconds = InitialDelay
    /\ proposalCount = 0
    /\ proposalOp = [p \in ProposalIds |-> NoOperation]
    /\ proposalCreatedAt = [p \in ProposalIds |-> 0]
    /\ proposalApprovals = [p \in ProposalIds |-> 0]
    /\ proposalApprovedBy = [p \in ProposalIds |-> {}]
    /\ proposalExecuted = {}
    /\ proposalCancelled = {}

(* Mutant: the quorum rounds down. *)
quorumRequiredRoundedDown == (Cardinality(Signers) * quorumPercent) \div 100

quorumRequired == (Cardinality(Signers) * quorumPercent + 99) \div 100

(* Mutant: the range of the percentage is not checked. *)
setQuorumUnchecked(percent) ==
    /\ quorumPercent' = percent
    /\ UNCHANGED <<now, timelockDelaySeconds, createVars, approvalVars, outcomeVars>>

setQuorum(percent) ==
    /\ percent \in 1 .. 100
    /\ quorumPercent' = percent
    /\ UNCHANGED <<now, timelockDelaySeconds, createVars, approvalVars, outcomeVars>>

setTimelockDelay(delay) ==
    /\ timelockDelaySeconds' = delay
    /\ UNCHANGED <<now, quorumPercent, createVars, approvalVars, outcomeVars>>

propose(op) ==
    /\ op.target \in GovernanceTargets
    /\ proposalCount < MaxProposals
    /\ proposalCount' = proposalCount + 1
    /\ proposalOp' = [proposalOp EXCEPT ![proposalCount + 1] = op]
    /\ proposalCreatedAt' = [proposalCreatedAt EXCEPT ![proposalCount + 1] = now]
    /\ UNCHANGED <<now, configVars, approvalVars, outcomeVars>>

(* Mutant: a signer approves twice. *)
approveAgain(signer, p) ==
    /\ p \notin proposalExecuted \cup proposalCancelled
    /\ proposalApprovals[p] <= Cardinality(Signers)
    /\ proposalApprovedBy' = [proposalApprovedBy EXCEPT ![p] = @ \cup {signer}]
    /\ proposalApprovals' = [proposalApprovals EXCEPT ![p] = @ + 1]
    /\ UNCHANGED <<now, configVars, createVars, outcomeVars>>

(* Neither approve nor cancel asks whether the id was ever proposed. *)
approve(signer, p) ==
    /\ p \notin proposalExecuted \cup proposalCancelled
    /\ signer \notin proposalApprovedBy[p]
    /\ proposalApprovedBy' = [proposalApprovedBy EXCEPT ![p] = @ \cup {signer}]
    /\ proposalApprovals' = [proposalApprovals EXCEPT ![p] = @ + 1]
    /\ UNCHANGED <<now, configVars, createVars, outcomeVars>>

(* Mutant: an executed proposal is cancelled. *)
cancelAnytime(p) ==
    /\ p \notin proposalCancelled
    /\ proposalCancelled' = proposalCancelled \cup {p}
    /\ UNCHANGED <<now, configVars, createVars, approvalVars, proposalExecuted>>

cancel(p) ==
    /\ p \notin proposalExecuted \cup proposalCancelled
    /\ proposalCancelled' = proposalCancelled \cup {p}
    /\ UNCHANGED <<now, configVars, createVars, approvalVars, proposalExecuted>>

(* The governance surface of the two eligible targets.  What is missing    *)
(* reverts there: roles on both, and each registry's share on the other.   *)
dispatch(op) ==
    \/ /\ op.target = "assetRegistry"
       /\ \/ op.kind = "BURN_NFT" /\ op.reason /\ governanceBurnNFT(op.token)
          \/ op.kind = "FORCE_TRANSFER" /\ op.reason
                /\ governanceForceTransfer(op.token, op.account)
          \/ op.kind = "PAUSE_REGISTRY" /\ governancePause
          \/ op.kind = "UNPAUSE_REGISTRY" /\ governanceUnpause
       /\ UNCHANGED <<acVars, idVars>>
    \/ /\ op.target = "identityRegistry"
       /\ op.kind = "DEACTIVATE_IDENTITY" /\ op.reason
       /\ governanceDeactivateIdentity(op.account)
       /\ UNCHANGED <<acVars, assetVars>>

(* Reverts as a whole when the dispatch reverts. *)
execute(p) ==
    /\ p \notin proposalExecuted \cup proposalCancelled
    /\ proposalApprovals[p] >= quorumRequired
    /\ now >= proposalCreatedAt[p] + timelockDelaySeconds
    /\ proposalOp[p].kind # "NONE"
    /\ dispatch(proposalOp[p])
    /\ proposalExecuted' = proposalExecuted \cup {p}
    /\ UNCHANGED <<now, configVars, createVars, approvalVars, proposalCancelled>>

(* A later block. *)
tick ==
    /\ now < MaxTime
    /\ now' = now + 1
    /\ UNCHANGED <<configVars, createVars, approvalVars, outcomeVars>>

(* Calls that touch the multisig only. *)
GovNext ==
    \/ \E q \in QuorumPercents : setQuorum(q)
    \/ \E d \in TimelockDelays : setTimelockDelay(d)
    \/ \E op \in Operations : propose(op)
    \/ \E s \in Signers, p \in ProposalIds : approve(s, p)
    \/ \E p \in ProposalIds : cancel(p)
    \/ tick

ChainInit == RegistryInit /\ GovInit
ChainNext ==
    \/ AccountNext /\ UNCHANGED govVars
    \/ GovNext /\ UNCHANGED registryVars
    \/ \E p \in ProposalIds : execute(p)
ChainSpec == ChainInit /\ [][ChainNext]_chainVars

GovTypeOK ==
    /\ now \in Nat
    /\ quorumPercent \in 1 .. 100
    /\ timelockDelaySeconds \in Nat
    /\ proposalCount \in 0 .. MaxProposals
    /\ proposalOp \in [ProposalIds -> Operations \cup {NoOperation}]
    /\ proposalCreatedAt \in [ProposalIds -> Nat]
    /\ proposalApprovals \in [ProposalIds -> Nat]
    /\ proposalApprovedBy \in [ProposalIds -> SUBSET Signers]
    /\ proposalExecuted \subseteq ProposalIds
    /\ proposalCancelled \subseteq ProposalIds

ChainTypeOK == RegistryTypeOK /\ GovTypeOK

---------------------------------------------------------------------------
(* The count that execute compares with the quorum is the number of        *)
(* distinct signers that approved that id.                                 *)
ApprovalsAreDistinctSigners ==
    \A p \in ProposalIds : proposalApprovals[p] = Cardinality(proposalApprovedBy[p])

(* An execution is backed by at least quorumPercent of the signer set, its *)
(* timelock has elapsed since the proposal was made, it was proposed, and  *)
(* it was neither executed nor cancelled before.                           *)
ExecutionAuthorized ==
    [][\A p \in ProposalIds : p \in proposalExecuted' \ proposalExecuted =>
          /\ p <= proposalCount
          /\ 100 * Cardinality(proposalApprovedBy[p]) >= quorumPercent * Cardinality(Signers)
          /\ now - proposalCreatedAt[p] >= timelockDelaySeconds
          /\ p \notin proposalCancelled]_chainVars

ExecutedBy(op) ==
    \E p \in ProposalIds : p \in proposalExecuted' \ proposalExecuted /\ proposalOp[p] = op

(* Pausing, burning, deactivating and moving custody in a frozen state     *)
(* happen only by executing a proposal of that very operation: no account  *)
(* call has such an effect and no proposal has another operation's effect. *)
HighRiskOnlyByProposal ==
    [][/\ paused' # paused =>
            \E op \in Operations : ExecutedBy(op)
                /\ op.kind = IF paused' THEN "PAUSE_REGISTRY" ELSE "UNPAUSE_REGISTRY"
       /\ \A t \in Tokens : ~Burned(t) /\ Burned(t)' =>
            \E op \in Operations : ExecutedBy(op) /\ op.kind = "BURN_NFT" /\ op.token = t
       /\ \A t \in Tokens :
            (custodian'[t] # custodian[t] /\ (paused \/ assetStatus[t] \in {"SUSPENDED", "REVOKED"})) =>
            \E op \in Operations : ExecutedBy(op) /\ op.kind = "FORCE_TRANSFER"
                /\ op.token = t /\ op.account = custodian'[t]
       /\ \A w \in Accounts : idStatus[w] # "DEACTIVATED" /\ idStatus'[w] = "DEACTIVATED" =>
            \E op \in Operations : ExecutedBy(op) /\ op.kind = "DEACTIVATE_IDENTITY"
                /\ op.account = w]_chainVars

(* What the multisig does to the registries it may do under RegistrySpec:  *)
(* the composition implements the registries' own specification.           *)
RegistryRefinement == RegistrySpec

(* The operation of an id never changes once proposed, and neither an      *)
(* executed nor a cancelled id is approved, executed or cancelled again.   *)
SettledProposals ==
    [][\A p \in ProposalIds :
          /\ p <= proposalCount => proposalOp'[p] = proposalOp[p]
          /\ p \in proposalExecuted \cup proposalCancelled =>
               /\ proposalApprovedBy'[p] = proposalApprovedBy[p]
               /\ p \in proposalExecuted' <=> p \in proposalExecuted
               /\ p \in proposalCancelled' <=> p \in proposalCancelled]_chainVars

==========================================================================
