--------------------------- MODULE AssetLifecycle ---------------------------
(***************************************************************************)
(* How one business asset comes to be, on the chain and in the read model: *)
(* the governed mint workflow, the administrator's direct creation, and    *)
(* the asset's status.  Every await is a step of its own and handlers      *)
(* interleave; any of them may end where it is (a failed query, a restart).*)
(* A chain call is serialized by the Besu service, so it is one step; it   *)
(* is applied with a receipt, applied with the receipt lost, or refused.   *)
(* The checks of the participants' scope and lifecycle can only refuse, as *)
(* a failure does.                                                         *)
(***************************************************************************)
EXTENDS Naturals

CONSTANTS
    Requests,       \* handlers that can run at the same time
    Identities,     \* identities of the platform
    Managers,       \* those with the MANAGER role
    Admins,         \* those with the ADMIN role
    NoOne,          \* no identity
    Operator        \* the operator's own wallet, custodian of an anchored asset

ASSUME LifecycleAssumption ==
    /\ Managers \subseteq Identities /\ Admins \subseteq Identities
    /\ NoOne \notin Identities /\ Operator \notin Identities

VARIABLES
    mintRequest,    \* the row of mint_requests for the asset id
    token,          \* the asset record of the contract, and who had it minted
    assetRow,       \* the row of assets, and who created it
    req             \* request -> where its handler is and what it has read

lifecycleVars == <<mintRequest, token, assetRow, req>>

MintStatus == {"NONE", "PENDING", "APPROVED", "REJECTED", "EXECUTED"}
AssetRowStatus == {"NONE", "PENDING", "ACTIVE", "REVOKED"}
TokenStatus == {"NONE", "PENDING", "ACTIVE", "SUSPENDED", "REVOKED"}
Origins == {"NONE", "REQUEST", "DIRECT"}

Idle == [pc |-> "idle", actor |-> NoOne, to |-> "NONE", custodian |-> NoOne]

Init ==
    /\ mintRequest = [status |-> "NONE", by |-> NoOne, custodian |-> NoOne, decidedBy |-> NoOne]
    /\ token = [status |-> "NONE", custodian |-> NoOne, origin |-> "NONE"]
    /\ assetRow = [status |-> "NONE", custodian |-> NoOne, origin |-> "NONE"]
    /\ req = [r \in Requests |-> Idle]

at(r, pc) == req[r].pc = pc
goto(r, pc) == req' = [req EXCEPT ![r].pc = pc]
start(r, h) == at(r, "idle") /\ req' = [req EXCEPT ![r] = h]
done(r) == req' = [req EXCEPT ![r] = Idle]

(* A query that throws, or a restart of the server. *)
fails(r) ==
    /\ ~at(r, "idle")
    /\ done(r)
    /\ UNCHANGED <<mintRequest, token, assetRow>>

---------------------------------------------------------------------------
(* The contract: registerAsset and _changeStatus. *)
registerAsset(to, origin) ==
    /\ token.status = "NONE"
    /\ token' = [status |-> "PENDING", custodian |-> to, origin |-> origin]

changeStatus(to) ==
    /\ \/ token.status = "PENDING" /\ to = "ACTIVE"
       \/ token.status = "ACTIVE" /\ to \in {"SUSPENDED", "REVOKED"}
       \/ token.status = "SUSPENDED" /\ to \in {"ACTIVE", "REVOKED"}
    /\ token' = [token EXCEPT !.status = to]

(* createAsset: the row's asset id is unique. *)
createAsset(status, custodian, origin) ==
    /\ assetRow.status = "NONE"
    /\ assetRow' = [status |-> status, custodian |-> custodian, origin |-> origin]

---------------------------------------------------------------------------
(* mint.request: an open request of the same asset id is looked for, then  *)
(* the row is inserted; its asset id is unique.                            *)
requestCheck(r, p, to) ==
    /\ p \in Managers
    /\ mintRequest.status \notin {"PENDING", "APPROVED"}
    /\ start(r, [pc |-> "requestInsert", actor |-> p, to |-> "NONE", custodian |-> to])
    /\ UNCHANGED <<mintRequest, token, assetRow>>

requestInsert(r) ==
    /\ at(r, "requestInsert")
    /\ mintRequest.status = "NONE"
    /\ mintRequest' = [status |-> "PENDING", by |-> req[r].actor,
                       custodian |-> req[r].custodian, decidedBy |-> NoOne]
    /\ done(r)
    /\ UNCHANGED <<token, assetRow>>

(* mint.decide: the row is read, then updated where it is still PENDING. *)
decideCheck(r, p, decision) ==
    /\ p \in Admins /\ p # mintRequest.by
    /\ mintRequest.status = "PENDING"
    /\ start(r, [Idle EXCEPT !.pc = "decideMintRequest", !.actor = p, !.to = decision])
    /\ UNCHANGED <<mintRequest, token, assetRow>>

(* Mutant: the UPDATE trusts the status that was read. *)
decideMintRequestUnguarded(r) ==
    /\ at(r, "decideMintRequest")
    /\ mintRequest' = [mintRequest EXCEPT !.status = req[r].to, !.decidedBy = req[r].actor]
    /\ done(r)
    /\ UNCHANGED <<token, assetRow>>

decideMintRequest(r) ==
    /\ at(r, "decideMintRequest")
    /\ mintRequest.status = "PENDING"
    /\ mintRequest' = [mintRequest EXCEPT !.status = req[r].to, !.decidedBy = req[r].actor]
    /\ done(r)
    /\ UNCHANGED <<token, assetRow>>

---------------------------------------------------------------------------
(* mint.execute, by any administrator but the requester. *)
executeCheck(r, p) ==
    /\ p \in Admins /\ p # mintRequest.by
    /\ mintRequest.status = "APPROVED"
    /\ start(r, [Idle EXCEPT !.pc = "executeRegister", !.actor = p])
    /\ UNCHANGED <<mintRequest, token, assetRow>>

executeRegister(r, receipt) ==
    /\ at(r, "executeRegister")
    /\ registerAsset(mintRequest.custodian, "REQUEST")
    /\ goto(r, IF receipt THEN "executeActivate" ELSE "executeError")
    /\ UNCHANGED <<mintRequest, assetRow>>

(* Mutant: a refused mint is only noted, as assets.create does. *)
executeRefusedNoted(r) ==
    /\ at(r, "executeRegister")
    /\ goto(r, "executeActivate")
    /\ UNCHANGED <<mintRequest, token, assetRow>>

executeRefused(r) ==
    /\ at(r, "executeRegister")
    /\ goto(r, "executeError")
    /\ UNCHANGED <<mintRequest, token, assetRow>>

(* The error's text says that the asset exists: if it does, the request is *)
(* marked executed, and the asset is neither activated nor given a row.    *)
(* Any other error ends the execution, as fails does.                      *)
executeError(r) ==
    /\ at(r, "executeError")
    /\ IF token.status # "NONE" THEN goto(r, "executeMark") ELSE done(r)
    /\ UNCHANGED <<mintRequest, token, assetRow>>

executeActivate(r) ==
    /\ at(r, "executeActivate")
    /\ changeStatus("ACTIVE") \/ UNCHANGED token
    /\ goto(r, "executeRow")
    /\ UNCHANGED <<mintRequest, assetRow>>

(* A failed insert is swallowed. *)
executeRow(r) ==
    /\ at(r, "executeRow")
    /\ createAsset("ACTIVE", mintRequest.custodian, "REQUEST") \/ UNCHANGED assetRow
    /\ goto(r, "executeMark")
    /\ UNCHANGED <<mintRequest, token>>

markMintRequestExecuted(r) ==
    /\ at(r, "executeMark")
    /\ mintRequest' = [mintRequest EXCEPT !.status = "EXECUTED"]
    /\ done(r)
    /\ UNCHANGED <<token, assetRow>>

---------------------------------------------------------------------------
(* assets.create: the row first, then the mint to the operator's wallet,   *)
(* then the activation of an asset that was asked for as ACTIVE.           *)
createRow(r, status, custodian) ==
    /\ createAsset(status, custodian, "DIRECT")
    /\ start(r, [Idle EXCEPT !.pc = "anchorAsset", !.to = status])
    /\ UNCHANGED <<mintRequest, token>>

anchorAsset(r, receipt) ==
    /\ at(r, "anchorAsset")
    /\ registerAsset(Operator, "DIRECT")
    /\ IF receipt /\ req[r].to = "ACTIVE" THEN goto(r, "createActivate") ELSE done(r)
    /\ UNCHANGED <<mintRequest, assetRow>>

createActivate(r) ==
    /\ at(r, "createActivate")
    /\ changeStatus("ACTIVE")
    /\ done(r)
    /\ UNCHANGED <<mintRequest, assetRow>>

(* assets.setStatus: the read model first, then the chain, whose refusal   *)
(* is only noted.                                                          *)
setStatusRead(r, to) ==
    /\ assetRow.status \notin {"NONE", to}
    /\ start(r, [Idle EXCEPT !.pc = "applyAssetStatusChange", !.to = to])
    /\ UNCHANGED <<mintRequest, token, assetRow>>

applyAssetStatusChange(r) ==
    /\ at(r, "applyAssetStatusChange")
    /\ assetRow' = [assetRow EXCEPT !.status = req[r].to]
    /\ goto(r, "setStatusMirror")
    /\ UNCHANGED <<mintRequest, token>>

setStatusMirror(r) ==
    /\ at(r, "setStatusMirror")
    /\ changeStatus(IF req[r].to = "PENDING" THEN "SUSPENDED" ELSE req[r].to)
    /\ done(r)
    /\ UNCHANGED <<mintRequest, assetRow>>

---------------------------------------------------------------------------
MintStep(r) ==
    \/ \E p, to \in Identities : requestCheck(r, p, to)
    \/ requestInsert(r)
    \/ \E p \in Identities, d \in {"APPROVED", "REJECTED"} : decideCheck(r, p, d)
    \/ decideMintRequest(r)
    \/ \E p \in Identities : executeCheck(r, p)
    \/ \E receipt \in BOOLEAN : executeRegister(r, receipt)
    \/ executeRefused(r) \/ executeError(r) \/ executeActivate(r) \/ executeRow(r)
    \/ markMintRequestExecuted(r)

AdministrationStep(r) ==
    \/ \E status \in AssetRowStatus \ {"NONE"}, to \in Identities : createRow(r, status, to)
    \/ \E receipt \in BOOLEAN : anchorAsset(r, receipt)
    \/ createActivate(r)
    \/ \E to \in AssetRowStatus \ {"NONE"} : setStatusRead(r, to)
    \/ applyAssetStatusChange(r) \/ setStatusMirror(r)

Next == \E r \in Requests : MintStep(r) \/ AdministrationStep(r) \/ fails(r)

Spec == Init /\ [][Next]_lifecycleVars

---------------------------------------------------------------------------
Workflow == INSTANCE MakerChecker WITH
    People <- Identities, Nobody <- NoOne,
    stage <- mintRequest.status, maker <- mintRequest.by,
    checker <- mintRequest.decidedBy, effect <- token.origin

(* The governed mint is a maker-checker workflow, whatever is retried,     *)
(* lost or run at the same time: one decision, by somebody else; a mint    *)
(* only after the approval and at most once; EXECUTED only when a token    *)
(* exists.                                                                 *)
MintImplementsMakerChecker == Workflow!Spec

(* The read model takes an asset from the mint workflow only when it was   *)
(* this workflow that minted it, and with the same custodian: neither an   *)
(* execution that failed nor one that finds somebody else's token adds it. *)
RowFollowsMint ==
    assetRow.origin = "REQUEST" =>
        token.origin = "REQUEST" /\ token.custodian = assetRow.custodian

=============================================================================
