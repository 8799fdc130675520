---------------------------- MODULE AssetCustody ----------------------------
(***************************************************************************)
(* Custody of one active sensitive asset, kept by the contract and copied  *)
(* into the read model: the governed transfer workflow, the auditors'      *)
(* disputes, the administrators' assignment, and the transfer a custodian  *)
(* asks for himself under an approval.  Every await is a step of its own,  *)
(* handlers interleave, and any of them may end where it is.  A chain call *)
(* is one step: applied with a receipt, applied with the receipt lost, or  *)
(* refused.  A check of state kept elsewhere (a step-up session, the       *)
(* status of the identities and of the asset, a manager's scope) can only  *)
(* refuse, as a failure does.                                              *)
(***************************************************************************)
EXTENDS Naturals, Sequences, FiniteSets, AuthorizationPolicy

CONSTANTS
    Requests,       \* handlers that can run at the same time
    Identities,     \* identities of the platform
    Managers,       \* those with the MANAGER role
    Admins,         \* those with the ADMIN role
    NoOne,          \* no identity
    OperatorWallet, \* the wallet the server signs with, custodian of what it mints itself
    Classification, \* of the asset
    MaxMoves,       \* bound: custody moves on the chain
    MaxAsked        \* bound: transfer requests and approvals asked for

ASSUME CustodyAssumption ==
    /\ Managers \subseteq Identities /\ Admins \subseteq Identities
    /\ NoOne \notin Identities /\ OperatorWallet \notin Identities
    /\ Classification \in {"HIGHLY_SENSITIVE", "CRITICAL"}
    /\ {MaxMoves, MaxAsked} \subseteq Nat

VARIABLES
    custody,            \* the contract's custody log of the asset, the last its custodian
    dispute,            \* the contract's dispute on the asset
    rowCustodian,       \* assets.custodianIdentityId
    disputeRow,         \* whether asset_disputes has an OPEN or UPHELD row of it
    transferRequests,   \* rows of asset_transfer_requests
    approvals,          \* rows of asset_approvals
    req                 \* request -> where its handler is and what it has read

chainVars == <<custody, dispute>>
rowVars == <<rowCustodian, disputeRow>>
custodyVars == <<chainVars, rowVars, transferRequests, approvals, req>>

TransferStatus == {"PENDING", "ACCEPTED", "APPROVED", "REJECTED", "EXECUTED"}
ApprovalStatus == {"PENDING", "APPROVED", "REJECTED", "EXECUTED"}

Idle == [pc |-> "idle", actor |-> NoOne, id |-> 0, to |-> NoOne, decision |-> "NONE",
         custodian |-> NoOne]

(* A governed mint is to the custodian of the row; assets.create mints to  *)
(* the operator, whatever custodian it writes into the row.                *)
Init ==
    /\ rowCustodian \in Identities
    /\ custody \in {<<rowCustodian>>, <<OperatorWallet>>}
    /\ dispute = "NONE" /\ disputeRow = FALSE
    /\ transferRequests = << >> /\ approvals = << >>
    /\ req = [r \in Requests |-> Idle]

at(r, pc) == req[r].pc = pc
goto(r, pc) == req' = [req EXCEPT ![r].pc = pc]
start(r, h) == at(r, "idle") /\ req' = [req EXCEPT ![r] = h]
done(r) == req' = [req EXCEPT ![r] = Idle]
asked == Len(transferRequests) + Len(approvals)
         + Cardinality({r \in Requests : at(r, "transferInsert") \/ at(r, "approvalInsert")})

(* A query that throws, or a restart of the server. *)
fails(r) ==
    /\ ~at(r, "idle")
    /\ done(r)
    /\ UNCHANGED <<chainVars, rowVars, transferRequests, approvals>>

---------------------------------------------------------------------------
(* The contract.  transferCustody is refused while a dispute holds the     *)
(* asset; assignAsset is not.  Neither names the custodian it moves from.  *)
custodian == custody[Len(custody)]
onHold == dispute \in {"OPEN", "UPHELD"}

assignAsset(to) ==
    /\ to # custodian
    /\ Len(custody) <= MaxMoves
    /\ custody' = Append(custody, to)

transferCustody(to) == ~onHold /\ assignAsset(to)

---------------------------------------------------------------------------
(* transfer.request, by the custodian of the read model. *)
requestCheck(r, p, to) ==
    /\ p = rowCustodian /\ p # to
    /\ ~disputeRow
    /\ asked < MaxAsked
    /\ start(r, [Idle EXCEPT !.pc = "transferInsert", !.actor = p, !.to = to])
    /\ UNCHANGED <<chainVars, rowVars, transferRequests, approvals>>

createAssetTransferRequest(r) ==
    /\ at(r, "transferInsert")
    /\ transferRequests' = Append(transferRequests,
           [status |-> "PENDING", from |-> req[r].actor, to |-> req[r].to,
            accepted |-> FALSE, approver |-> NoOne])
    /\ done(r)
    /\ UNCHANGED <<chainVars, rowVars, approvals>>

(* transfer.accept, by the recipient: the status is read, and the update   *)
(* is not guarded by it.                                                   *)
acceptCheck(r, i) ==
    /\ i \in DOMAIN transferRequests /\ transferRequests[i].status = "PENDING"
    /\ start(r, [Idle EXCEPT !.pc = "acceptWrite", !.actor = transferRequests[i].to, !.id = i])
    /\ UNCHANGED <<chainVars, rowVars, transferRequests, approvals>>

acceptWrite(r) ==
    /\ at(r, "acceptWrite")
    /\ transferRequests' = [transferRequests EXCEPT ![req[r].id].status = "ACCEPTED",
                                                    ![req[r].id].accepted = TRUE]
    /\ done(r)
    /\ UNCHANGED <<chainVars, rowVars, approvals>>

(* Mutant: a request is approved before its recipient accepted it. *)
approveCheckEarly(r, p, i, decision) ==
    /\ p \in Admins \cup Managers
    /\ i \in DOMAIN transferRequests
    /\ transferRequests[i].status \in {"PENDING", "ACCEPTED"}
    /\ p \notin {transferRequests[i].from, transferRequests[i].to}
    /\ start(r, [Idle EXCEPT !.pc = "approveHold", !.actor = p, !.id = i, !.decision = decision])
    /\ UNCHANGED <<chainVars, rowVars, transferRequests, approvals>>

(* transfer.approve: as accept, by a third person, unless on hold.         *)
approveCheck(r, p, i, decision) ==
    /\ p \in Admins \cup Managers
    /\ i \in DOMAIN transferRequests /\ transferRequests[i].status = "ACCEPTED"
    /\ p \notin {transferRequests[i].from, transferRequests[i].to}
    /\ start(r, [Idle EXCEPT !.pc = "approveHold", !.actor = p, !.id = i, !.decision = decision])
    /\ UNCHANGED <<chainVars, rowVars, transferRequests, approvals>>

approveHold(r) ==
    /\ at(r, "approveHold")
    /\ ~disputeRow
    /\ goto(r, "approveWrite")
    /\ UNCHANGED <<chainVars, rowVars, transferRequests, approvals>>

approveWrite(r) ==
    /\ at(r, "approveWrite")
    /\ transferRequests' = [transferRequests EXCEPT ![req[r].id].status = req[r].decision,
                                                    ![req[r].id].approver = req[r].actor]
    /\ done(r)
    /\ UNCHANGED <<chainVars, rowVars, approvals>>

---------------------------------------------------------------------------
(* transfer.execute, by anybody: the request, the custodian and the hold   *)
(* are read, then the chain is called; nothing is looked at again.         *)
executeCheck(r, i) ==
    /\ i \in DOMAIN transferRequests /\ transferRequests[i].status = "APPROVED"
    /\ start(r, [Idle EXCEPT !.pc = "executeCustodian", !.id = i, !.to = transferRequests[i].to])
    /\ UNCHANGED <<chainVars, rowVars, transferRequests, approvals>>

executeCustodian(r) ==
    /\ at(r, "executeCustodian")
    /\ rowCustodian = transferRequests[req[r].id].from
    /\ goto(r, "executeHold")
    /\ UNCHANGED <<chainVars, rowVars, transferRequests, approvals>>

executeHold(r) ==
    /\ at(r, "executeHold")
    /\ ~disputeRow
    /\ goto(r, "executeTransfer")
    /\ UNCHANGED <<chainVars, rowVars, transferRequests, approvals>>

executeTransfer(r, receipt) ==
    /\ at(r, "executeTransfer")
    /\ transferCustody(req[r].to)
    /\ IF receipt THEN goto(r, "executeApply") ELSE done(r)
    /\ UNCHANGED <<dispute, rowVars, transferRequests, approvals>>

(* applyCustodyTransfer, one transaction.  A failure of it is swallowed. *)
applyCustodyTransfer(r) == rowCustodian' = req[r].to \/ UNCHANGED rowCustodian

executeApply(r) ==
    /\ at(r, "executeApply")
    /\ applyCustodyTransfer(r)
    /\ goto(r, "executeMark")
    /\ UNCHANGED <<chainVars, disputeRow, transferRequests, approvals>>

executeMark(r) ==
    /\ at(r, "executeMark")
    /\ transferRequests' = [transferRequests EXCEPT ![req[r].id].status = "EXECUTED"]
    /\ done(r)
    /\ UNCHANGED <<chainVars, rowVars, approvals>>

---------------------------------------------------------------------------
(* auditor.raiseDispute: the chain, then the row of the read model.        *)
raiseDispute(r, receipt) ==
    /\ at(r, "idle")
    /\ ~onHold
    /\ dispute' = "OPEN"
    /\ IF receipt THEN goto(r, "disputeInsert") ELSE UNCHANGED req
    /\ UNCHANGED <<custody, rowVars, transferRequests, approvals>>

createAssetDispute(r) ==
    /\ at(r, "disputeInsert")
    /\ disputeRow' = TRUE
    /\ done(r)
    /\ UNCHANGED <<chainVars, rowCustodian, transferRequests, approvals>>

(* auditor.resolveDispute: the id that names the chain's dispute names no  *)
(* row, so the row is left as it is.                                       *)
resolveDispute(uphold) ==
    /\ dispute = "OPEN"
    /\ dispute' = IF uphold THEN "UPHELD" ELSE "REJECTED"
    /\ UNCHANGED <<custody, rowVars, transferRequests, approvals, req>>

---------------------------------------------------------------------------
(* Mutant: the read model is written before the chain is called. *)
assignChainLate(r, to, receipt) ==
    /\ at(r, "idle") /\ rowCustodian' = to
    /\ assignAsset(to) \/ UNCHANGED custody
    /\ UNCHANGED <<dispute, req, disputeRow, transferRequests, approvals>>

(* assets.assign, by an administrator: the chain, then the read model.     *)
assignChain(r, to, receipt) ==
    /\ at(r, "idle")
    /\ assignAsset(to)
    /\ IF receipt THEN start(r, [Idle EXCEPT !.pc = "assignApply", !.to = to]) ELSE UNCHANGED req
    /\ UNCHANGED <<dispute, rowVars, transferRequests, approvals>>

assignApply(r) ==
    /\ at(r, "assignApply")
    /\ applyCustodyTransfer(r)
    /\ done(r)
    /\ UNCHANGED <<chainVars, disputeRow, transferRequests, approvals>>

---------------------------------------------------------------------------
(* approvals.request: an open approval of the requester is given back,     *)
(* otherwise a row is inserted; NoOne as target leaves the recipient open. *)
activeApprovals(p) ==
    {i \in DOMAIN approvals : approvals[i].requester = p
                              /\ approvals[i].status \in {"PENDING", "APPROVED"}}

approvalCheck(r, p, target) ==
    /\ activeApprovals(p) = {}
    /\ asked < MaxAsked
    /\ start(r, [Idle EXCEPT !.pc = "approvalInsert", !.actor = p, !.to = target])
    /\ UNCHANGED <<chainVars, rowVars, transferRequests, approvals>>

createAssetApproval(r) ==
    /\ at(r, "approvalInsert")
    /\ approvals' = Append(approvals, [status |-> "PENDING", requester |-> req[r].actor,
                                       target |-> req[r].to, approver |-> NoOne])
    /\ done(r)
    /\ UNCHANGED <<chainVars, rowVars, transferRequests>>

(* approvals.decide: by an administrator who is not the requester, and the *)
(* update asks again whether the approval is PENDING.                      *)
approvalDecide(r, p, i, decision) ==
    /\ p \in Admins
    /\ i \in DOMAIN approvals /\ approvals[i].requester # p
    /\ start(r, [Idle EXCEPT !.pc = "approvalWrite", !.actor = p, !.id = i, !.decision = decision])
    /\ UNCHANGED <<chainVars, rowVars, transferRequests, approvals>>

updateAssetApprovalStatus(r) ==
    /\ at(r, "approvalWrite")
    /\ approvals[req[r].id].status = "PENDING"
    /\ approvals' = [approvals EXCEPT ![req[r].id].status = req[r].decision,
                                      ![req[r].id].approver = req[r].actor]
    /\ done(r)
    /\ UNCHANGED <<chainVars, rowVars, transferRequests>>

---------------------------------------------------------------------------
(* assets.authorizeTransfer: the asset's row is read first, the            *)
(* requester's newest open approval after it, then the policy decides.     *)
(* Whom it will refuse whatever the approval is left out here.             *)
authorizeCheck(r, p, to) ==
    /\ p \in Admins \cup {rowCustodian}
    /\ start(r, [Idle EXCEPT !.pc = "authorizeApproval", !.actor = p, !.to = to,
                             !.custodian = rowCustodian])
    /\ UNCHANGED <<chainVars, rowVars, transferRequests, approvals>>

newest(ids) == CHOOSE i \in ids : \A j \in ids : j <= i

transferDecision(r, approval, stepUp, risk) ==
    evaluate([status |-> "ACTIVE",
              role |-> IF req[r].actor \in Admins THEN "ADMIN"
                       ELSE IF req[r].actor \in Managers THEN "MANAGER" ELSE "USER",
              permissions |-> {"asset:transfer"}, classification |-> Classification,
              actor |-> req[r].actor, custodian |-> req[r].custodian,
              approval |-> approval, approvalRequired |-> TRUE,
              risk |-> risk, stepUp |-> stepUp])

(* Mutant: an approval serves for any recipient. *)
authorizeApprovalAnyTarget(r, stepUp, risk) ==
    LET open == activeApprovals(req[r].actor) IN
    /\ at(r, "authorizeApproval")
    /\ open # {}
    /\ transferDecision(r, approvals[newest(open)].status, stepUp, risk) = "ALLOW"
    /\ req' = [req EXCEPT ![r].pc = "authorizeTransfer", ![r].id = newest(open), ![r].custodian = NoOne]
    /\ UNCHANGED <<chainVars, rowVars, transferRequests, approvals>>

(* An approval for another recipient does not serve. *)
authorizeApproval(r, stepUp, risk) ==
    LET open == activeApprovals(req[r].actor)
        approval == IF open = {} \/ approvals[newest(open)].target \notin {NoOne, req[r].to}
                      THEN "NONE" ELSE approvals[newest(open)].status
    IN  /\ at(r, "authorizeApproval")
        /\ transferDecision(r, approval, stepUp, risk) = "ALLOW"
        /\ req' = [req EXCEPT ![r].pc = "authorizeTransfer", ![r].id = newest(open), ![r].custodian = NoOne]
        /\ UNCHANGED <<chainVars, rowVars, transferRequests, approvals>>

(* Already in that custody, the chain is not called. *)
authorizeTransfer(r, receipt) ==
    /\ at(r, "authorizeTransfer")
    /\ transferCustody(req[r].to)
    /\ IF receipt THEN goto(r, "authorizeMark") ELSE done(r)
    /\ UNCHANGED <<dispute, rowVars, transferRequests, approvals>>

(* A failure to mark the approval is swallowed. *)
markAssetApprovalExecuted(r) ==
    /\ at(r, "authorizeMark")
    /\ \/ approvals' = [approvals EXCEPT ![req[r].id].status = "EXECUTED"]
       \/ UNCHANGED approvals
    /\ goto(r, "assignApply")
    /\ UNCHANGED <<chainVars, rowVars, transferRequests>>

---------------------------------------------------------------------------
TransferStep(r) ==
    \/ \E p, to \in Identities : requestCheck(r, p, to)
    \/ createAssetTransferRequest(r)
    \/ \E i \in 1 .. MaxAsked : acceptCheck(r, i) \/ executeCheck(r, i)
    \/ acceptWrite(r)
    \/ \E p \in Identities, i \in 1 .. MaxAsked, d \in {"APPROVED", "REJECTED"} :
          approveCheck(r, p, i, d)
    \/ approveHold(r) \/ approveWrite(r) \/ executeCustodian(r) \/ executeHold(r)
    \/ \E receipt \in BOOLEAN : executeTransfer(r, receipt)
    \/ executeApply(r) \/ executeMark(r)

AdministrationStep(r) ==
    \/ \E receipt \in BOOLEAN : raiseDispute(r, receipt)
    \/ createAssetDispute(r)
    \/ \E uphold \in BOOLEAN : resolveDispute(uphold)
    \/ \E to \in Identities, receipt \in BOOLEAN : assignChain(r, to, receipt)
    \/ assignApply(r)

AuthorizeStep(r) ==
    \/ \E p \in Identities, target \in Identities \cup {NoOne} : approvalCheck(r, p, target)
    \/ createAssetApproval(r)
    \/ \E p \in Identities, i \in 1 .. MaxAsked, d \in {"APPROVED", "REJECTED"} :
          approvalDecide(r, p, i, d)
    \/ updateAssetApprovalStatus(r)
    \/ \E p, to \in Identities : authorizeCheck(r, p, to)
    \/ \E stepUp \in BOOLEAN, risk \in {"LOW", "MEDIUM", "HIGH"} : authorizeApproval(r, stepUp, risk)
    \/ \E receipt \in BOOLEAN : authorizeTransfer(r, receipt)
    \/ markAssetApprovalExecuted(r)

Next ==
    \E r \in Requests :
        TransferStep(r) \/ AdministrationStep(r) \/ AuthorizeStep(r) \/ fails(r)

Spec == Init /\ [][Next]_custodyVars

---------------------------------------------------------------------------
(* A governed transfer moves custody only when its recipient accepted it   *)
(* and somebody who is neither sender nor recipient approved it.           *)
TransferNeedsThreeParties ==
    [][\A r \in Requests, receipt \in BOOLEAN : executeTransfer(r, receipt) =>
          LET q == transferRequests[req[r].id] IN
            q.accepted /\ q.approver \in (Admins \cup Managers) \ {q.from, q.to}]_custodyVars

(* A custodian moves a sensitive asset only under an approval that he      *)
(* asked for, another administrator gave, and that names this recipient or *)
(* none; whatever else was decided or moved since he asked.  The approval  *)
(* stays EXECUTED once it is marked, and no run takes it up from then on:  *)
(* what moves under it after that took it up before.  (That it never       *)
(* authorizes a second transfer, as authorizeTransfer says, does not hold: *)
(* two runs take it up, or the receipt or the mark of the first is lost.)  *)
AuthorizedByApproval ==
    [][/\ \A r \in Requests, receipt \in BOOLEAN : authorizeTransfer(r, receipt) =>
             LET q == approvals[req[r].id] IN
               /\ q.requester = req[r].actor /\ q.target \in {NoOne, req[r].to}
               /\ q.approver \in Admins \ {req[r].actor}
               /\ q.status \in {"APPROVED", "EXECUTED"}
       /\ \A r \in Requests : at(r, "authorizeApproval") /\ at(r, "authorizeTransfer")' =>
             approvals[req'[r].id].status = "APPROVED"
       /\ \A i \in DOMAIN approvals :
             approvals[i].status = "EXECUTED" => approvals'[i].status = "EXECUTED"]_custodyVars

(* The chain is authoritative (BUG-006): however calls fail or overtake    *)
(* each other, the read model's custodian becomes only somebody the chain  *)
(* moved custody to.  What the row said at its creation it may not have    *)
(* from the chain: assets.create mints to the operator.                    *)
RowCustodianFollowsChain ==
    [][rowCustodian' # rowCustodian =>
          \E i \in DOMAIN custody \ {1} : custody[i] = rowCustodian']_custodyVars

=============================================================================
