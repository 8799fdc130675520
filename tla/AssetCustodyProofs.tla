------------------------- MODULE AssetCustodyProofs -------------------------
(***************************************************************************)
(* Proofs about the custody of an asset, for any number of handlers,       *)
(* people, requests and moves: the read model's custodian becomes only     *)
(* somebody the chain moved custody to, a governed transfer moved with     *)
(* three parties, and a custodian moved under an approval of his that      *)
(* another administrator gave.                                             *)
(***************************************************************************)
EXTENDS AssetCustody, FiniteSetTheorems, TLAPS

Points ==
    {"idle", "transferInsert", "acceptWrite", "approveHold", "approveWrite",
     "executeCustodian", "executeHold", "executeTransfer", "executeApply", "executeMark",
     "disputeInsert", "assignApply", "approvalInsert", "approvalWrite",
     "authorizeApproval", "authorizeTransfer", "authorizeMark"}

Handlers ==
    [pc : Points, actor : Identities \cup {NoOne}, id : Nat, to : Identities \cup {NoOne},
     decision : {"NONE", "APPROVED", "REJECTED"}, custodian : Identities \cup {NoOne}]

TransferRow ==
    [status : TransferStatus, from : Identities, to : Identities, accepted : BOOLEAN,
     approver : Identities \cup {NoOne}]

ApprovalRow ==
    [status : ApprovalStatus, requester : Identities, target : Identities \cup {NoOne},
     approver : Identities \cup {NoOne}]

(* Custody moved to p after the mint. *)
OnChain(p, log) == \E i \in DOMAIN log \ {1} : log[i] = p

(* Who may approve a transfer, and who an approval. *)
Thirds(q) == (Admins \cup Managers) \ {q.from, q.to}
Others(q) == Admins \ {q.requester}

(* A request left PENDING when its recipient accepted; an approver is a    *)
(* third person who found it accepted, also when a late accept has put the *)
(* status back; and nothing is decided or executed without one.            *)
TransferSound(q) ==
    /\ q.status # "PENDING" => q.accepted
    /\ q.approver # NoOne => q.accepted /\ q.approver \in Thirds(q)
    /\ q.status \in {"APPROVED", "REJECTED", "EXECUTED"} => q.approver # NoOne

ApprovalSound(q) == q.status # "PENDING" => q.approver \in Others(q)

Tables ==
    /\ custody \in Seq(Identities \cup {OperatorWallet}) /\ custody # << >>
    /\ rowCustodian \in Identities
    /\ transferRequests \in Seq(TransferRow)
    /\ \A i \in DOMAIN transferRequests : TransferSound(transferRequests[i])
    /\ approvals \in Seq(ApprovalRow)
    /\ \A i \in DOMAIN approvals : ApprovalSound(approvals[i])

(* What a handler read still holds of the tables it is about to write. *)
Ready(h, log, transfers, asks) ==
    /\ h.pc = "transferInsert" => h.actor \in Identities /\ h.to \in Identities
    /\ h.pc = "acceptWrite" => h.id \in DOMAIN transfers
    /\ h.pc \in {"approveHold", "approveWrite"} =>
          /\ h.id \in DOMAIN transfers /\ transfers[h.id].accepted
          /\ h.actor \in Thirds(transfers[h.id]) /\ h.decision \in {"APPROVED", "REJECTED"}
    /\ h.pc \in {"executeCustodian", "executeHold", "executeTransfer", "executeApply", "executeMark"} =>
          /\ h.id \in DOMAIN transfers /\ transfers[h.id].approver # NoOne
          /\ h.to \in Identities
    /\ h.pc \in {"executeApply", "authorizeMark", "assignApply"} =>
          OnChain(h.to, log) /\ h.to \in Identities
    /\ h.pc = "approvalInsert" => h.actor \in Identities
    /\ h.pc = "approvalWrite" =>
          /\ h.id \in DOMAIN asks /\ h.actor \in Others(asks[h.id])
          /\ h.decision \in {"APPROVED", "REJECTED"}
    /\ h.pc \in {"authorizeApproval", "authorizeTransfer"} => h.to \in Identities
    /\ h.pc \in {"authorizeTransfer", "authorizeMark"} =>
          h.id \in DOMAIN asks /\ asks[h.id].approver \in Others(asks[h.id])
    /\ h.pc = "authorizeTransfer" =>
          /\ asks[h.id].requester = h.actor /\ asks[h.id].target \in {NoOne, h.to}
          /\ asks[h.id].status \in {"APPROVED", "EXECUTED"}

CustodyInv ==
    /\ Tables
    /\ req \in [Requests -> Handlers]
    /\ \A r \in Requests : Ready(req[r], custody, transferRequests, approvals)

---------------------------------------------------------------------------
(* Between two states the tables only gain: a custodian stays recorded, a  *)
(* request keeps its parties, its acceptance and having an approver, and   *)
(* an approval its requester, its recipient, having been given and being   *)
(* used up.                                                                *)
Gains(log, log2, transfers, transfers2, asks, asks2) ==
    /\ \A p : OnChain(p, log) => OnChain(p, log2)
    /\ \A i \in DOMAIN transfers :
          /\ i \in DOMAIN transfers2
          /\ transfers2[i].from = transfers[i].from /\ transfers2[i].to = transfers[i].to
          /\ transfers[i].accepted => transfers2[i].accepted
          /\ transfers[i].approver # NoOne => transfers2[i].approver # NoOne
    /\ \A i \in DOMAIN asks :
          /\ i \in DOMAIN asks2
          /\ asks2[i].requester = asks[i].requester /\ asks2[i].target = asks[i].target
          /\ asks[i].approver \in Others(asks[i]) => asks2[i].approver \in Others(asks2[i])
          /\ asks[i].status \in {"APPROVED", "EXECUTED"} =>
                asks2[i].status \in {"EXECUTED", asks[i].status}

Gain == Gains(custody, custody', transferRequests, transferRequests', approvals, approvals')

LEMMA ReadyStays ==
    ASSUME NEW h, NEW log, NEW log2, NEW ts, NEW ts2, NEW as, NEW as2,
           Ready(h, log, ts, as), Gains(log, log2, ts, ts2, as, as2)
    PROVE  Ready(h, log2, ts2, as2)
BY DEF Ready, Gains, Thirds, Others

LEMMA Unmoved ==
    ASSUME UNCHANGED <<custody, transferRequests, approvals>>
    PROVE  Gain
BY DEF Gain, Gains

LEMMA IdleReady ==
    /\ Idle \in Handlers
    /\ \A log, ts, as : Ready(Idle, log, ts, as)
BY DEF Idle, Handlers, Points, Ready

LEMMA InitInv == Init => CustodyInv
<1> SUFFICES ASSUME Init PROVE CustodyInv
  OBVIOUS
<1>1. Tables
  <2>1. rowCustodian \in Identities /\ transferRequests = << >> /\ approvals = << >>
    BY DEF Init
  <2>2. PICK w \in Identities \cup {OperatorWallet} : custody = <<w>>
    BY DEF Init
  <2>3. custody \in Seq(Identities \cup {OperatorWallet}) /\ custody # << >>
    BY <2>2
  <2> QED
    BY <2>1, <2>3 DEF Tables
<1>2. \A r \in Requests : req[r] = Idle
  BY DEF Init
<1>3. req \in [Requests -> Handlers]
  BY IdleReady DEF Init
<1> QED
  BY <1>1, <1>2, <1>3, IdleReady DEF CustodyInv

(* Every step moves one handler on. *)
LEMMA HandlerMoves ==
    ASSUME CustodyInv, NEW r \in Requests, NEW h \in Handlers,
           req' = [req EXCEPT ![r] = h], Tables', Gain,
           Ready(h, custody', transferRequests', approvals')
    PROVE  CustodyInv'
<1>1. req' \in [Requests -> Handlers] /\ req'[r] = h
      /\ \A s \in Requests \ {r} : req'[s] = req[s]
  BY DEF CustodyInv
<1>2. ASSUME NEW s \in Requests
      PROVE  Ready(req'[s], custody', transferRequests', approvals')
  <2>1. CASE s = r
    BY <1>1, <2>1
  <2>2. CASE s # r
    BY <1>1, <2>2, ReadyStays DEF CustodyInv, Gain
  <2> QED
    BY <2>1, <2>2
<1> QED
  BY <1>1, <1>2 DEF CustodyInv

(* A step that touches no table and moves a handler on, or none. *)
LEMMA ReadOnly ==
    ASSUME CustodyInv, NEW r \in Requests, NEW h \in Handlers,
           req' = [req EXCEPT ![r] = h],
           UNCHANGED <<custody, rowCustodian, transferRequests, approvals>>,
           Ready(h, custody, transferRequests, approvals)
    PROVE  CustodyInv'
<1>1. Tables'
  BY DEF CustodyInv, Tables
<1> QED
  BY <1>1, Unmoved, HandlerMoves

(* The handler's fields, when it moves on within its run. *)
LEMMA GoingOn ==
    ASSUME CustodyInv, NEW r \in Requests, NEW pc \in Points, goto(r, pc)
    PROVE  \E h \in Handlers :
              /\ req' = [req EXCEPT ![r] = h]
              /\ h.pc = pc /\ h.actor = req[r].actor /\ h.id = req[r].id /\ h.to = req[r].to
              /\ h.decision = req[r].decision /\ h.custodian = req[r].custodian
<1> DEFINE h == [req[r] EXCEPT !.pc = pc]
<1>1. req[r] \in Handlers
  BY DEF CustodyInv
<1>2. h \in Handlers /\ h.pc = pc /\ h.actor = req[r].actor /\ h.id = req[r].id /\ h.to = req[r].to
      /\ h.decision = req[r].decision /\ h.custodian = req[r].custodian
  BY <1>1 DEF Handlers
<1>3. req' = [req EXCEPT ![r] = h]
  BY DEF goto
<1> QED
  BY <1>2, <1>3

---------------------------------------------------------------------------
(* A request gets a new row in place of its old one. *)
LEMMA TransferWrite ==
    ASSUME CustodyInv, NEW i \in DOMAIN transferRequests, NEW q \in TransferRow,
           TransferSound(q), transferRequests' = [transferRequests EXCEPT ![i] = q],
           q.from = transferRequests[i].from, q.to = transferRequests[i].to,
           transferRequests[i].accepted => q.accepted,
           transferRequests[i].approver # NoOne => q.approver # NoOne,
           UNCHANGED <<custody, rowCustodian, approvals>>
    PROVE  Tables' /\ Gain
<1>1. transferRequests' \in Seq(TransferRow) /\ DOMAIN transferRequests' = DOMAIN transferRequests
  BY DEF CustodyInv, Tables
<1>2. transferRequests'[i] = q
      /\ \A j \in DOMAIN transferRequests \ {i} : transferRequests'[j] = transferRequests[j]
  BY DEF CustodyInv, Tables
<1>3. Tables'
  BY <1>1, <1>2 DEF CustodyInv, Tables
<1>4. Gain
  BY <1>1, <1>2 DEF Gain, Gains
<1> QED
  BY <1>3, <1>4

LEMMA TransferAdd ==
    ASSUME CustodyInv, NEW q \in TransferRow, TransferSound(q),
           transferRequests' = Append(transferRequests, q),
           UNCHANGED <<custody, rowCustodian, approvals>>
    PROVE  Tables' /\ Gain
<1>1. transferRequests \in Seq(TransferRow)
  BY DEF CustodyInv, Tables
<1>2. transferRequests' \in Seq(TransferRow)
      /\ DOMAIN transferRequests' = DOMAIN transferRequests \cup {Len(transferRequests) + 1}
      /\ transferRequests'[Len(transferRequests) + 1] = q
      /\ \A j \in DOMAIN transferRequests : transferRequests'[j] = transferRequests[j]
  BY <1>1
<1>3. Tables'
  BY <1>2 DEF CustodyInv, Tables
<1>4. Gain
  BY <1>2 DEF Gain, Gains
<1> QED
  BY <1>3, <1>4

LEMMA ApprovalWrite ==
    ASSUME CustodyInv, NEW i \in DOMAIN approvals, NEW q \in ApprovalRow,
           ApprovalSound(q), approvals' = [approvals EXCEPT ![i] = q],
           q.requester = approvals[i].requester, q.target = approvals[i].target,
           approvals[i].approver \in Others(approvals[i]) => q.approver \in Others(q),
           approvals[i].status \in {"APPROVED", "EXECUTED"} =>
              q.status \in {"EXECUTED", approvals[i].status},
           UNCHANGED <<custody, rowCustodian, transferRequests>>
    PROVE  Tables' /\ Gain
<1>1. approvals' \in Seq(ApprovalRow) /\ DOMAIN approvals' = DOMAIN approvals
  BY DEF CustodyInv, Tables
<1>2. approvals'[i] = q /\ \A j \in DOMAIN approvals \ {i} : approvals'[j] = approvals[j]
  BY DEF CustodyInv, Tables
<1>3. Tables'
  BY <1>1, <1>2 DEF CustodyInv, Tables
<1>4. Gain
  BY <1>1, <1>2 DEF Gain, Gains
<1> QED
  BY <1>3, <1>4

LEMMA ApprovalAdd ==
    ASSUME CustodyInv, NEW q \in ApprovalRow, ApprovalSound(q),
           approvals' = Append(approvals, q),
           UNCHANGED <<custody, rowCustodian, transferRequests>>
    PROVE  Tables' /\ Gain
<1>1. approvals \in Seq(ApprovalRow)
  BY DEF CustodyInv, Tables
<1>2. approvals' \in Seq(ApprovalRow)
      /\ DOMAIN approvals' = DOMAIN approvals \cup {Len(approvals) + 1}
      /\ approvals'[Len(approvals) + 1] = q
      /\ \A j \in DOMAIN approvals : approvals'[j] = approvals[j]
  BY <1>1
<1>3. Tables'
  BY <1>2 DEF CustodyInv, Tables
<1>4. Gain
  BY <1>2 DEF Gain, Gains
<1> QED
  BY <1>3, <1>4

(* The chain moves custody: the new custodian is recorded, the earlier     *)
(* ones stay.                                                              *)
LEMMA ChainMoves ==
    ASSUME CustodyInv, NEW to \in Identities, assignAsset(to),
           UNCHANGED <<rowCustodian, transferRequests, approvals>>
    PROVE  Tables' /\ Gain /\ OnChain(to, custody')
<1>1. /\ custody \in Seq(Identities \cup {OperatorWallet}) /\ custody # << >>
      /\ custody' = Append(custody, to)
  BY DEF CustodyInv, Tables, assignAsset
<1>2. custody' \in Seq(Identities \cup {OperatorWallet}) /\ custody' # << >>
      /\ Len(custody) + 1 # 1
      /\ DOMAIN custody' = DOMAIN custody \cup {Len(custody) + 1}
      /\ custody'[Len(custody) + 1] = to
      /\ \A j \in DOMAIN custody : custody'[j] = custody[j]
  BY <1>1
<1>3. Tables'
  BY <1>2 DEF CustodyInv, Tables
<1>4. Gain /\ OnChain(to, custody')
  BY <1>2 DEF Gain, Gains, OnChain
<1> QED
  BY <1>3, <1>4

(* The read model follows to a custodian the chain recorded. *)
LEMMA RowMoves ==
    ASSUME CustodyInv, NEW r \in Requests, req[r].to \in Identities, applyCustodyTransfer(r),
           UNCHANGED <<custody, transferRequests, approvals>>
    PROVE  Tables' /\ Gain
<1>1. Tables'
  BY DEF CustodyInv, Tables, applyCustodyTransfer
<1> QED
  BY <1>1, Unmoved

(* Columns of a row, as they are written one after the other. *)
LEMMA TransferFields ==
    ASSUME NEW q \in TransferRow
    PROVE  /\ \A s \in TransferStatus :
                LET g == [q EXCEPT !.status = s]
                IN  /\ g \in TransferRow /\ g.status = s /\ g.from = q.from /\ g.to = q.to
                    /\ g.accepted = q.accepted /\ g.approver = q.approver
           /\ LET g == [q EXCEPT !.accepted = TRUE]
              IN  /\ g \in TransferRow /\ g.status = q.status /\ g.from = q.from /\ g.to = q.to
                  /\ g.accepted /\ g.approver = q.approver
           /\ \A p \in Identities \cup {NoOne} :
                LET g == [q EXCEPT !.approver = p]
                IN  /\ g \in TransferRow /\ g.status = q.status /\ g.from = q.from /\ g.to = q.to
                    /\ g.accepted = q.accepted /\ g.approver = p
BY DEF TransferRow

LEMMA ApprovalFields ==
    ASSUME NEW q \in ApprovalRow
    PROVE  /\ \A s \in ApprovalStatus :
                LET g == [q EXCEPT !.status = s]
                IN  /\ g \in ApprovalRow /\ g.status = s /\ g.requester = q.requester
                    /\ g.target = q.target /\ g.approver = q.approver
           /\ \A p \in Identities \cup {NoOne} :
                LET g == [q EXCEPT !.approver = p]
                IN  /\ g \in ApprovalRow /\ g.status = q.status /\ g.requester = q.requester
                    /\ g.target = q.target /\ g.approver = p
BY DEF ApprovalRow

---------------------------------------------------------------------------
(* A run that begins by reading a transfer request, or none. *)
LEMMA TransferStarts ==
    ASSUME CustodyInv, NEW r \in Requests,
           \/ \E p, to \in Identities : requestCheck(r, p, to)
           \/ \E i \in 1 .. MaxAsked : acceptCheck(r, i) \/ executeCheck(r, i)
           \/ \E p \in Identities, i \in 1 .. MaxAsked, d \in {"APPROVED", "REJECTED"} :
                 approveCheck(r, p, i, d)
    PROVE  CustodyInv'
<1>0. \A i \in DOMAIN transferRequests :
         /\ i \in Nat /\ transferRequests[i] \in TransferRow /\ TransferSound(transferRequests[i])
         /\ transferRequests[i].to \in Identities
  <2>1. \A i \in DOMAIN transferRequests :
           /\ i \in Nat /\ transferRequests[i] \in TransferRow
           /\ TransferSound(transferRequests[i])
    BY DEF CustodyInv, Tables
  <2> QED
    BY <2>1 DEF TransferRow
<1>1. ASSUME NEW p \in Identities, NEW to \in Identities, requestCheck(r, p, to)
      PROVE  CustodyInv'
  <2> DEFINE h == [Idle EXCEPT !.pc = "transferInsert", !.actor = p, !.to = to]
  <2>1. h \in Handlers /\ Ready(h, custody, transferRequests, approvals)
    BY DEF Idle, Handlers, Points, Ready
  <2>2. /\ req' = [req EXCEPT ![r] = h]
        /\ UNCHANGED <<custody, rowCustodian, transferRequests, approvals>>
    BY <1>1 DEF requestCheck, start, chainVars, rowVars
  <2> HIDE DEF h
  <2> QED
    BY <2>1, <2>2, ReadOnly
<1>2. ASSUME NEW i \in 1 .. MaxAsked, acceptCheck(r, i)
      PROVE  CustodyInv'
  <2> DEFINE h == [Idle EXCEPT !.pc = "acceptWrite", !.actor = transferRequests[i].to, !.id = i]
  <2>1. h \in Handlers /\ Ready(h, custody, transferRequests, approvals)
    BY <1>0, <1>2 DEF acceptCheck, Idle, Handlers, Points, Ready
  <2>2. /\ req' = [req EXCEPT ![r] = h]
        /\ UNCHANGED <<custody, rowCustodian, transferRequests, approvals>>
    BY <1>2 DEF acceptCheck, start, chainVars, rowVars
  <2> HIDE DEF h
  <2> QED
    BY <2>1, <2>2, ReadOnly
<1>3. ASSUME NEW i \in 1 .. MaxAsked, executeCheck(r, i)
      PROVE  CustodyInv'
  <2> DEFINE h == [Idle EXCEPT !.pc = "executeCustodian", !.id = i, !.to = transferRequests[i].to]
  <2>0. i \in DOMAIN transferRequests /\ transferRequests[i].approver # NoOne
    BY <1>0, <1>3 DEF executeCheck, TransferSound
  <2>1. h \in Handlers /\ Ready(h, custody, transferRequests, approvals)
    BY <1>0, <2>0 DEF Idle, Handlers, Points, Ready
  <2>2. /\ req' = [req EXCEPT ![r] = h]
        /\ UNCHANGED <<custody, rowCustodian, transferRequests, approvals>>
    BY <1>3 DEF executeCheck, start, chainVars, rowVars
  <2> HIDE DEF h
  <2> QED
    BY <2>1, <2>2, ReadOnly
<1>4. ASSUME NEW p \in Identities, NEW i \in 1 .. MaxAsked, NEW d \in {"APPROVED", "REJECTED"},
             approveCheck(r, p, i, d)
      PROVE  CustodyInv'
  <2> DEFINE h == [Idle EXCEPT !.pc = "approveHold", !.actor = p, !.id = i, !.decision = d]
  <2>0. /\ i \in DOMAIN transferRequests /\ transferRequests[i].accepted
        /\ p \in Thirds(transferRequests[i])
    BY <1>0, <1>4 DEF approveCheck, TransferSound, Thirds
  <2>1. h \in Handlers /\ Ready(h, custody, transferRequests, approvals)
    BY <1>0, <2>0 DEF Idle, Handlers, Points, Ready
  <2>2. /\ req' = [req EXCEPT ![r] = h]
        /\ UNCHANGED <<custody, rowCustodian, transferRequests, approvals>>
    BY <1>4 DEF approveCheck, start, chainVars, rowVars
  <2> HIDE DEF h
  <2> QED
    BY <2>1, <2>2, ReadOnly
<1> QED
  BY <1>1, <1>2, <1>3, <1>4

(* A handler that reads on. *)
LEMMA TransferReadsOn ==
    ASSUME CustodyInv, NEW r \in Requests,
           approveHold(r) \/ executeCustodian(r) \/ executeHold(r)
    PROVE  CustodyInv'
<1>0. UNCHANGED <<custody, rowCustodian, transferRequests, approvals>>
  BY DEF approveHold, executeCustodian, executeHold, chainVars, rowVars
<1>1. Ready(req[r], custody, transferRequests, approvals)
  BY DEF CustodyInv
<1>2. CASE approveHold(r)
  <2>1. PICK h \in Handlers :
           /\ req' = [req EXCEPT ![r] = h] /\ h.pc = "approveWrite"
           /\ h.actor = req[r].actor /\ h.id = req[r].id /\ h.decision = req[r].decision
    BY <1>2, GoingOn DEF approveHold, Points
  <2>2. Ready(h, custody, transferRequests, approvals)
    BY <1>1, <1>2, <2>1 DEF approveHold, at, Ready
  <2> QED
    BY <1>0, <2>1, <2>2, ReadOnly
<1>3. CASE executeCustodian(r)
  <2>1. PICK h \in Handlers :
           /\ req' = [req EXCEPT ![r] = h] /\ h.pc = "executeHold"
           /\ h.id = req[r].id /\ h.to = req[r].to
    BY <1>3, GoingOn DEF executeCustodian, Points
  <2>2. Ready(h, custody, transferRequests, approvals)
    BY <1>1, <1>3, <2>1 DEF executeCustodian, at, Ready
  <2> QED
    BY <1>0, <2>1, <2>2, ReadOnly
<1>4. CASE executeHold(r)
  <2>1. PICK h \in Handlers :
           /\ req' = [req EXCEPT ![r] = h] /\ h.pc = "executeTransfer"
           /\ h.id = req[r].id /\ h.to = req[r].to
    BY <1>4, GoingOn DEF executeHold, Points
  <2>2. Ready(h, custody, transferRequests, approvals)
    BY <1>1, <1>4, <2>1 DEF executeHold, at, Ready
  <2> QED
    BY <1>0, <2>1, <2>2, ReadOnly
<1> QED
  BY <1>2, <1>3, <1>4

(* A handler that writes the request it read, and ends. *)
LEMMA TransferWrites ==
    ASSUME CustodyInv, NEW r \in Requests,
           \/ createAssetTransferRequest(r) \/ acceptWrite(r) \/ approveWrite(r) \/ executeMark(r)
    PROVE  CustodyInv'
<1>0. /\ req' = [req EXCEPT ![r] = Idle]
      /\ UNCHANGED <<custody, rowCustodian, approvals>>
  BY DEF createAssetTransferRequest, acceptWrite, approveWrite, executeMark, done, chainVars, rowVars
<1>1. Ready(req[r], custody, transferRequests, approvals) /\ req[r] \in Handlers
  BY DEF CustodyInv
<1> DEFINE i == req[r].id
<1>2. i \in DOMAIN transferRequests =>
         transferRequests[i] \in TransferRow /\ TransferSound(transferRequests[i])
  BY DEF CustodyInv, Tables
<1>3. Tables' /\ Gain => CustodyInv'
  BY <1>0, IdleReady, HandlerMoves
<1>4. CASE createAssetTransferRequest(r)
  <2> DEFINE q == [status |-> "PENDING", from |-> req[r].actor, to |-> req[r].to,
                   accepted |-> FALSE, approver |-> NoOne]
  <2>1. q \in TransferRow /\ TransferSound(q)
    BY <1>1, <1>4 DEF createAssetTransferRequest, at, Ready, TransferRow, TransferStatus, TransferSound
  <2>2. transferRequests' = Append(transferRequests, q)
    BY <1>4 DEF createAssetTransferRequest
  <2> HIDE DEF q
  <2> QED
    BY <1>0, <1>3, <2>1, <2>2, TransferAdd
<1>5. CASE acceptWrite(r)
  <2> DEFINE g == [transferRequests[i] EXCEPT !.status = "ACCEPTED"]
             q == [g EXCEPT !.accepted = TRUE]
  <2>1. i \in DOMAIN transferRequests
    BY <1>1, <1>5 DEF acceptWrite, at, Ready
  <2>2. g \in TransferRow /\ g.status = "ACCEPTED" /\ g.from = transferRequests[i].from
        /\ g.to = transferRequests[i].to /\ g.approver = transferRequests[i].approver
    BY <1>2, <2>1, TransferFields DEF TransferStatus
  <2>3. transferRequests' = [transferRequests EXCEPT ![i] = q]
    BY <1>5, <2>1 DEF acceptWrite, CustodyInv, Tables
  <2> HIDE DEF g
  <2>4. q \in TransferRow /\ q.status = "ACCEPTED" /\ q.from = transferRequests[i].from
        /\ q.to = transferRequests[i].to /\ q.accepted /\ q.approver = transferRequests[i].approver
    BY <2>2, TransferFields
  <2> HIDE DEF q
  <2>5. TransferSound(q)
    BY <1>2, <2>1, <2>4 DEF TransferSound, Thirds
  <2> QED
    BY <1>0, <1>3, <2>1, <2>3, <2>4, <2>5, TransferWrite
<1>6. CASE approveWrite(r)
  <2> DEFINE g == [transferRequests[i] EXCEPT !.status = req[r].decision]
             q == [g EXCEPT !.approver = req[r].actor]
  <2>1. /\ i \in DOMAIN transferRequests /\ transferRequests[i].accepted
        /\ req[r].actor \in Thirds(transferRequests[i])
        /\ req[r].decision \in {"APPROVED", "REJECTED"}
    BY <1>1, <1>6 DEF approveWrite, at, Ready
  <2>0. transferRequests[i] \in TransferRow /\ req[r].decision \in TransferStatus
    BY <1>2, <2>1 DEF TransferStatus
  <2>2. g \in TransferRow /\ g.status = req[r].decision /\ g.from = transferRequests[i].from
        /\ g.to = transferRequests[i].to /\ g.accepted
    BY <2>0, <2>1 DEF TransferRow
  <2>3. transferRequests' = [transferRequests EXCEPT ![i] = q]
    BY <1>6, <2>1 DEF approveWrite, CustodyInv, Tables
  <2>4. req[r].actor \in Identities /\ req[r].actor # NoOne
    BY <2>1, CustodyAssumption DEF Thirds
  <2> HIDE DEF g
  <2>5. q \in TransferRow /\ q.status = req[r].decision /\ q.from = transferRequests[i].from
        /\ q.to = transferRequests[i].to /\ q.accepted /\ q.approver = req[r].actor
    BY <2>2, <2>4, TransferFields
  <2> HIDE DEF q
  <2>6. TransferSound(q)
    BY <2>1, <2>4, <2>5 DEF TransferSound, Thirds
  <2> QED
    BY <1>0, <1>3, <2>1, <2>3, <2>4, <2>5, <2>6, TransferWrite
<1>7. CASE executeMark(r)
  <2> DEFINE q == [transferRequests[i] EXCEPT !.status = "EXECUTED"]
  <2>1. i \in DOMAIN transferRequests /\ transferRequests[i].approver # NoOne
    BY <1>1, <1>7 DEF executeMark, at, Ready
  <2>0. transferRequests[i] \in TransferRow /\ "EXECUTED" \in TransferStatus
    BY <1>2, <2>1 DEF TransferStatus
  <2>2. q \in TransferRow /\ q.status = "EXECUTED" /\ q.from = transferRequests[i].from
        /\ q.to = transferRequests[i].to /\ q.accepted = transferRequests[i].accepted
        /\ q.approver = transferRequests[i].approver
    BY <2>0 DEF TransferRow
  <2>3. transferRequests' = [transferRequests EXCEPT ![i] = q]
    BY <1>7 DEF executeMark
  <2> HIDE DEF q
  <2>4. TransferSound(q)
    BY <1>2, <2>1, <2>2 DEF TransferSound, Thirds
  <2> QED
    BY <1>0, <1>3, <2>1, <2>2, <2>3, <2>4, TransferWrite
<1> QED
  BY <1>4, <1>5, <1>6, <1>7

---------------------------------------------------------------------------
(* The chain moves custody for a handler: the receipt tells whether it     *)
(* goes on, to a point that only needs the recipient recorded.             *)
LEMMA ChainCalls ==
    ASSUME CustodyInv, NEW r \in Requests, NEW receipt \in BOOLEAN,
           executeTransfer(r, receipt) \/ authorizeTransfer(r, receipt)
    PROVE  CustodyInv'
<1>0. UNCHANGED <<rowCustodian, transferRequests, approvals>>
  BY DEF executeTransfer, authorizeTransfer, rowVars
<1>1. Ready(req[r], custody, transferRequests, approvals)
  BY DEF CustodyInv
<1>2. req[r].to \in Identities /\ assignAsset(req[r].to)
  BY <1>1 DEF executeTransfer, authorizeTransfer, at, Ready, transferCustody
<1>3. Tables' /\ Gain /\ OnChain(req[r].to, custody')
  BY <1>0, <1>2, ChainMoves
<1>4. Ready(req[r], custody', transferRequests', approvals')
  BY <1>1, <1>3, ReadyStays DEF Gain
<1>5. CASE done(r)
  BY <1>3, <1>5, IdleReady, HandlerMoves DEF done
<1>6. CASE executeTransfer(r, receipt) /\ goto(r, "executeApply")
  <2>1. PICK h \in Handlers :
           /\ req' = [req EXCEPT ![r] = h] /\ h.pc = "executeApply"
           /\ h.id = req[r].id /\ h.to = req[r].to
    BY <1>6, GoingOn DEF Points
  <2>2. Ready(h, custody', transferRequests', approvals')
    BY <1>3, <1>4, <1>6, <2>1 DEF executeTransfer, at, Ready
  <2> QED
    BY <1>3, <2>1, <2>2, HandlerMoves
<1>7. CASE authorizeTransfer(r, receipt) /\ goto(r, "authorizeMark")
  <2>1. PICK h \in Handlers :
           /\ req' = [req EXCEPT ![r] = h] /\ h.pc = "authorizeMark"
           /\ h.id = req[r].id /\ h.to = req[r].to
    BY <1>7, GoingOn DEF Points
  <2>2. Ready(h, custody', transferRequests', approvals')
    BY <1>3, <1>4, <1>7, <2>1 DEF authorizeTransfer, at, Ready
  <2> QED
    BY <1>3, <2>1, <2>2, HandlerMoves
<1> QED
  BY <1>5, <1>6, <1>7 DEF executeTransfer, authorizeTransfer

(* The read model follows the chain. *)
LEMMA RowFollows ==
    ASSUME CustodyInv, NEW r \in Requests, executeApply(r) \/ assignApply(r)
    PROVE  CustodyInv'
<1>0. UNCHANGED <<custody, transferRequests, approvals>> /\ applyCustodyTransfer(r)
  BY DEF executeApply, assignApply, chainVars
<1>1. Ready(req[r], custody, transferRequests, approvals)
  BY DEF CustodyInv
<1>2. req[r].to \in Identities
  BY <1>1 DEF executeApply, assignApply, at, Ready
<1>3. Tables' /\ Gain
  BY <1>0, <1>2, RowMoves
<1>4. CASE executeApply(r)
  <2>1. PICK h \in Handlers :
           /\ req' = [req EXCEPT ![r] = h] /\ h.pc = "executeMark"
           /\ h.id = req[r].id /\ h.to = req[r].to
    BY <1>4, GoingOn DEF executeApply, Points
  <2>2. Ready(h, custody, transferRequests, approvals)
    BY <1>1, <1>4, <2>1 DEF executeApply, at, Ready
  <2> QED
    BY <1>0, <1>3, <2>1, <2>2, HandlerMoves
<1>5. CASE assignApply(r)
  BY <1>3, <1>5, IdleReady, HandlerMoves DEF assignApply, done
<1> QED
  BY <1>4, <1>5

LEMMA Administers ==
    ASSUME CustodyInv, NEW r \in Requests,
           \/ \E receipt \in BOOLEAN : raiseDispute(r, receipt)
           \/ createAssetDispute(r)
           \/ \E uphold \in BOOLEAN : resolveDispute(uphold)
           \/ \E to \in Identities, receipt \in BOOLEAN : assignChain(r, to, receipt)
    PROVE  CustodyInv'
<1>0. req[r] \in Handlers /\ Ready(req[r], custody, transferRequests, approvals)
      /\ req = [req EXCEPT ![r] = req[r]]
  BY DEF CustodyInv
<1>1. ASSUME NEW receipt \in BOOLEAN, raiseDispute(r, receipt)
      PROVE  CustodyInv'
  <2>0. UNCHANGED <<custody, rowCustodian, transferRequests, approvals>>
    BY <1>1 DEF raiseDispute, rowVars
  <2>1. CASE goto(r, "disputeInsert")
    <3>1. PICK h \in Handlers : req' = [req EXCEPT ![r] = h] /\ h.pc = "disputeInsert"
      BY <2>1, GoingOn DEF Points
    <3>2. Ready(h, custody, transferRequests, approvals)
      BY <3>1 DEF Ready
    <3> QED
      BY <2>0, <3>1, <3>2, ReadOnly
  <2>2. CASE UNCHANGED req
    BY <1>0, <2>0, <2>2, ReadOnly
  <2> QED
    BY <1>1, <2>1, <2>2 DEF raiseDispute
<1>2. CASE createAssetDispute(r)
  BY <1>2, IdleReady, ReadOnly DEF createAssetDispute, done, chainVars
<1>3. ASSUME NEW uphold \in BOOLEAN, resolveDispute(uphold)
      PROVE  CustodyInv'
  BY <1>0, <1>3, ReadOnly DEF resolveDispute, rowVars
<1>4. ASSUME NEW to \in Identities, NEW receipt \in BOOLEAN, assignChain(r, to, receipt)
      PROVE  CustodyInv'
  <2>1. Tables' /\ Gain /\ OnChain(to, custody')
    BY <1>4, ChainMoves DEF assignChain, rowVars
  <2> DEFINE h == [Idle EXCEPT !.pc = "assignApply", !.to = to]
  <2>2. h \in Handlers /\ Ready(h, custody', transferRequests', approvals')
    BY <2>1 DEF Idle, Handlers, Points, Ready
  <2>3. Ready(req[r], custody', transferRequests', approvals')
    BY <1>0, <2>1, ReadyStays DEF Gain
  <2>4. req' = [req EXCEPT ![r] = h] \/ req' = [req EXCEPT ![r] = req[r]]
    BY <1>0, <1>4 DEF assignChain, start
  <2> HIDE DEF h
  <2> QED
    BY <1>0, <2>1, <2>2, <2>3, <2>4, HandlerMoves
<1> QED
  BY <1>1, <1>2, <1>3, <1>4

---------------------------------------------------------------------------
LEMMA ApprovalStarts ==
    ASSUME CustodyInv, NEW r \in Requests,
           \/ \E p \in Identities, target \in Identities \cup {NoOne} : approvalCheck(r, p, target)
           \/ \E p \in Identities, i \in 1 .. MaxAsked, d \in {"APPROVED", "REJECTED"} :
                 approvalDecide(r, p, i, d)
           \/ \E p, to \in Identities : authorizeCheck(r, p, to)
    PROVE  CustodyInv'
<1>1. ASSUME NEW p \in Identities, NEW target \in Identities \cup {NoOne},
             approvalCheck(r, p, target)
      PROVE  CustodyInv'
  <2> DEFINE h == [Idle EXCEPT !.pc = "approvalInsert", !.actor = p, !.to = target]
  <2>1. h \in Handlers /\ Ready(h, custody, transferRequests, approvals)
    BY DEF Idle, Handlers, Points, Ready
  <2>2. /\ req' = [req EXCEPT ![r] = h]
        /\ UNCHANGED <<custody, rowCustodian, transferRequests, approvals>>
    BY <1>1 DEF approvalCheck, start, chainVars, rowVars
  <2> HIDE DEF h
  <2> QED
    BY <2>1, <2>2, ReadOnly
<1>2. ASSUME NEW p \in Identities, NEW i \in 1 .. MaxAsked, NEW d \in {"APPROVED", "REJECTED"},
             approvalDecide(r, p, i, d)
      PROVE  CustodyInv'
  <2> DEFINE h == [Idle EXCEPT !.pc = "approvalWrite", !.actor = p, !.id = i, !.decision = d]
  <2>0. i \in Nat /\ i \in DOMAIN approvals /\ p \in Others(approvals[i])
    <3>1. i \in Nat
      OBVIOUS
    <3>2. i \in DOMAIN approvals /\ p \in Others(approvals[i])
      BY <1>2 DEF approvalDecide, Others
    <3> QED
      BY <3>1, <3>2
  <2>1. h \in Handlers /\ Ready(h, custody, transferRequests, approvals)
    BY <2>0 DEF Idle, Handlers, Points, Ready
  <2>2. /\ req' = [req EXCEPT ![r] = h]
        /\ UNCHANGED <<custody, rowCustodian, transferRequests, approvals>>
    BY <1>2 DEF approvalDecide, start, chainVars, rowVars
  <2> HIDE DEF h
  <2> QED
    BY <2>1, <2>2, ReadOnly
<1>3. ASSUME NEW p \in Identities, NEW to \in Identities, authorizeCheck(r, p, to)
      PROVE  CustodyInv'
  <2> DEFINE h == [Idle EXCEPT !.pc = "authorizeApproval", !.actor = p, !.to = to,
                               !.custodian = rowCustodian]
  <2>0. rowCustodian \in Identities
    BY DEF CustodyInv, Tables
  <2>1. h \in Handlers /\ Ready(h, custody, transferRequests, approvals)
    BY <2>0 DEF Idle, Handlers, Points, Ready
  <2>2. /\ req' = [req EXCEPT ![r] = h]
        /\ UNCHANGED <<custody, rowCustodian, transferRequests, approvals>>
    BY <1>3 DEF authorizeCheck, start, chainVars, rowVars
  <2> HIDE DEF h
  <2> QED
    BY <2>1, <2>2, ReadOnly
<1> QED
  BY <1>1, <1>2, <1>3

LEMMA ApprovalWrites ==
    ASSUME CustodyInv, NEW r \in Requests,
           createAssetApproval(r) \/ updateAssetApprovalStatus(r)
    PROVE  CustodyInv'
<1>0. req' = [req EXCEPT ![r] = Idle] /\ UNCHANGED <<custody, rowCustodian, transferRequests>>
  BY DEF createAssetApproval, updateAssetApprovalStatus, done, chainVars, rowVars
<1>1. Ready(req[r], custody, transferRequests, approvals) /\ req[r] \in Handlers
  BY DEF CustodyInv
<1> DEFINE i == req[r].id
<1>2. i \in DOMAIN approvals => approvals[i] \in ApprovalRow /\ ApprovalSound(approvals[i])
  BY DEF CustodyInv, Tables
<1>3. Tables' /\ Gain => CustodyInv'
  BY <1>0, IdleReady, HandlerMoves
<1>4. CASE createAssetApproval(r)
  <2> DEFINE q == [status |-> "PENDING", requester |-> req[r].actor,
                   target |-> req[r].to, approver |-> NoOne]
  <2>0. req[r].to \in Identities \cup {NoOne}
    BY <1>1 DEF Handlers
  <2>1. q \in ApprovalRow /\ ApprovalSound(q)
    BY <1>1, <1>4, <2>0 DEF createAssetApproval, at, Ready, ApprovalRow, ApprovalStatus, ApprovalSound
  <2>2. approvals' = Append(approvals, q)
    BY <1>4 DEF createAssetApproval
  <2> HIDE DEF q
  <2> QED
    BY <1>0, <1>3, <2>1, <2>2, ApprovalAdd
<1>5. CASE updateAssetApprovalStatus(r)
  <2> DEFINE g == [approvals[i] EXCEPT !.status = req[r].decision]
             q == [g EXCEPT !.approver = req[r].actor]
  <2>1. /\ i \in DOMAIN approvals /\ req[r].actor \in Others(approvals[i])
        /\ req[r].decision \in {"APPROVED", "REJECTED"} /\ approvals[i].status = "PENDING"
    BY <1>1, <1>5 DEF updateAssetApprovalStatus, at, Ready
  <2>2. approvals[i] \in ApprovalRow /\ req[r].decision \in ApprovalStatus
        /\ req[r].actor \in Identities
    BY <1>2, <2>1, CustodyAssumption DEF ApprovalStatus, Others
  <2>3. g \in ApprovalRow /\ g.status = req[r].decision
        /\ g.requester = approvals[i].requester /\ g.target = approvals[i].target
    BY <2>2 DEF ApprovalRow
  <2>4. approvals' = [approvals EXCEPT ![i] = q]
    BY <1>5, <2>1 DEF updateAssetApprovalStatus, CustodyInv, Tables
  <2> HIDE DEF g
  <2>5. q \in ApprovalRow /\ q.status = req[r].decision /\ q.requester = approvals[i].requester
        /\ q.target = approvals[i].target /\ q.approver = req[r].actor
    BY <2>2, <2>3, ApprovalFields
  <2> HIDE DEF q
  <2>6. q.approver \in Others(q) /\ ApprovalSound(q)
    BY <2>1, <2>5 DEF ApprovalSound, Others
  <2> QED
    BY <1>0, <1>3, <2>1, <2>4, <2>5, <2>6, ApprovalWrite
<1> QED
  BY <1>4, <1>5

LEMMA ApprovalIsMarked ==
    ASSUME CustodyInv, NEW r \in Requests, markAssetApprovalExecuted(r)
    PROVE  CustodyInv'
<1>0. UNCHANGED <<custody, rowCustodian, transferRequests>>
  BY DEF markAssetApprovalExecuted, chainVars, rowVars
<1> DEFINE i == req[r].id
<1>1. /\ OnChain(req[r].to, custody) /\ req[r].to \in Identities /\ i \in DOMAIN approvals
      /\ approvals[i] \in ApprovalRow /\ approvals[i].approver \in Others(approvals[i])
  BY DEF CustodyInv, Tables, Ready, markAssetApprovalExecuted, at
<1>2. PICK h \in Handlers :
         req' = [req EXCEPT ![r] = h] /\ h.pc = "assignApply" /\ h.to = req[r].to
  BY GoingOn DEF markAssetApprovalExecuted, Points
<1>3. Ready(h, custody', transferRequests', approvals')
  BY <1>0, <1>1, <1>2 DEF Ready
<1>4. CASE UNCHANGED approvals
  <2>1. Tables'
    BY <1>0, <1>4 DEF CustodyInv, Tables
  <2> QED
    BY <1>0, <1>2, <1>3, <1>4, <2>1, Unmoved, HandlerMoves
<1>5. CASE approvals' = [approvals EXCEPT ![i].status = "EXECUTED"]
  <2> DEFINE q == [approvals[i] EXCEPT !.status = "EXECUTED"]
  <2>1. q \in ApprovalRow /\ q.status = "EXECUTED" /\ q.requester = approvals[i].requester
        /\ q.target = approvals[i].target /\ q.approver = approvals[i].approver
    BY <1>1 DEF ApprovalRow, ApprovalStatus
  <2>2. approvals' = [approvals EXCEPT ![i] = q]
    BY <1>5
  <2> HIDE DEF q
  <2>3. q.approver \in Others(q) /\ ApprovalSound(q)
    BY <1>1, <2>1 DEF ApprovalSound, Others
  <2>4. Tables' /\ Gain
    BY <1>0, <1>1, <2>1, <2>2, <2>3, ApprovalWrite
  <2> QED
    BY <1>2, <1>3, <2>4, HandlerMoves
<1> QED
  BY <1>4, <1>5 DEF markAssetApprovalExecuted

---------------------------------------------------------------------------
(* The newest approval is one of them: the sets of the later ones are      *)
(* finite, so one of these sets is minimal, and it is empty.               *)
LEMMA NewestIsOne ==
    ASSUME NEW n \in Nat, NEW ids \in SUBSET (1 .. n), ids # {}
    PROVE  newest(ids) \in ids
<1> DEFINE Later(i) == {j \in ids : j > i}
           Laters == {Later(i) : i \in ids}
<1>1. Laters # {}
  OBVIOUS
<1>2. IsFiniteSet(1 .. n)
  BY FS_Interval
<1>3. Laters \subseteq FiniteSubsetsOf(1 .. n)
  <2>1. \A i \in ids : Later(i) \in SUBSET (1 .. n)
    OBVIOUS
  <2> HIDE DEF Later
  <2> QED
    BY <1>2, <2>1, FS_Subset DEF FiniteSubsetsOf
<1>4. PICK X \in Laters : \A Y \in Laters : ~ (<<Y, X>> \in StrictSubsetOrdering(1 .. n))
  <2> HIDE DEF Laters
  <2> QED
    BY <1>1, <1>3, WFMin, FS_StrictSubsetOrderingWellFounded
<1>5. \A Y \in Laters : ~ (Y \subseteq X /\ Y # X)
  <2> HIDE DEF Laters
  <2> QED
    BY <1>3, <1>4 DEF StrictSubsetOrdering, FiniteSubsetsOf
<1>6. PICK i \in ids : X = Later(i)
  OBVIOUS
<1>7. \A j \in ids : j <= i
  <2> SUFFICES ASSUME NEW j \in ids, ~ (j <= i) PROVE FALSE
    OBVIOUS
  <2>1. ids \subseteq Nat
    OBVIOUS
  <2>2. j > i /\ ~ (j > j) /\ \A k \in ids : k > j => k > i
    BY <2>1
  <2>3. j \in Later(i) /\ j \notin Later(j) /\ Later(j) \subseteq Later(i)
    BY <2>2
  <2> QED
    BY <1>5, <1>6, <2>3
<1> QED
  BY <1>7 DEF newest

(* The policy lets nobody transfer without an approval that was given,     *)
(* whatever his role, his session and the risk.                            *)
LEMMA PolicyNeedsApproval ==
    ASSUME NEW r, NEW approval, NEW stepUp, NEW risk,
           transferDecision(r, approval, stepUp, risk) = "ALLOW"
    PROVE  approval = "APPROVED"
BY DEF transferDecision, evaluate

LEMMA TakenUpApproved ==
    ASSUME CustodyInv, NEW r \in Requests, NEW stepUp \in BOOLEAN,
           NEW risk \in {"LOW", "MEDIUM", "HIGH"}, authorizeApproval(r, stepUp, risk)
    PROVE  CustodyInv' /\ approvals[req'[r].id].status = "APPROVED"
<1> DEFINE open == activeApprovals(req[r].actor)
           i == newest(open)
           approval == IF open = {} \/ approvals[i].target \notin {NoOne, req[r].to}
                         THEN "NONE" ELSE approvals[i].status
<1>0. UNCHANGED <<custody, rowCustodian, transferRequests, approvals>>
  BY DEF authorizeApproval, chainVars, rowVars
<1>1. req[r] \in Handlers /\ req[r].to \in Identities
  BY DEF CustodyInv, Ready, authorizeApproval, at
<1>2. transferDecision(r, approval, stepUp, risk) = "ALLOW"
  BY DEF authorizeApproval
<1>3. approval = "APPROVED"
  <2> HIDE DEF approval
  <2> QED
    BY <1>2, PolicyNeedsApproval
<1>4. open # {} /\ approvals[i].target \in {NoOne, req[r].to} /\ approvals[i].status = "APPROVED"
  BY <1>3
<1>5. i \in open
  <2>1. Len(approvals) \in Nat /\ open \in SUBSET (1 .. Len(approvals))
    BY DEF CustodyInv, Tables, activeApprovals
  <2> HIDE DEF open
  <2> QED
    BY <1>4, <2>1, NewestIsOne
<1>6. i \in DOMAIN approvals /\ approvals[i].requester = req[r].actor
  BY <1>5 DEF activeApprovals
<1>7. i \in Nat /\ approvals[i].approver \in Others(approvals[i])
  BY <1>4, <1>6 DEF CustodyInv, Tables, ApprovalSound
<1> HIDE DEF open, i
<1> DEFINE g == [req[r] EXCEPT !.pc = "authorizeTransfer"]
           f == [g EXCEPT !.id = i]
           h == [f EXCEPT !.custodian = NoOne]
<1>8. g \in Handlers /\ g.pc = "authorizeTransfer" /\ g.actor = req[r].actor /\ g.to = req[r].to
  BY <1>1 DEF Handlers, Points
<1>9. req' = [req EXCEPT ![r] = h]
  BY DEF authorizeApproval, open, i, CustodyInv
<1> HIDE DEF g
<1>10. f \in Handlers /\ f.pc = "authorizeTransfer" /\ f.actor = req[r].actor /\ f.to = req[r].to
       /\ f.id = i
  BY <1>7, <1>8 DEF Handlers
<1> HIDE DEF f
<1>11. h \in Handlers /\ h.pc = "authorizeTransfer" /\ h.actor = req[r].actor /\ h.to = req[r].to
       /\ h.id = i
  BY <1>10 DEF Handlers
<1> HIDE DEF h
<1>12. Ready(h, custody, transferRequests, approvals)
  BY <1>1, <1>4, <1>6, <1>7, <1>11 DEF Ready
<1>13. req'[r] = h
  BY <1>9 DEF CustodyInv
<1> QED
  BY <1>0, <1>4, <1>9, <1>11, <1>12, <1>13, ReadOnly

---------------------------------------------------------------------------
LEMMA StepInv ==
    ASSUME CustodyInv, [Next]_custodyVars
    PROVE  CustodyInv'
<1>1. CASE UNCHANGED custodyVars
  <2> USE <1>1 DEF custodyVars, chainVars, rowVars
  <2>1. Tables'
    BY DEF CustodyInv, Tables
  <2> QED
    BY <2>1 DEF CustodyInv
<1>2. ASSUME NEW r \in Requests, TransferStep(r)
      PROVE  CustodyInv'
  BY <1>2, TransferStarts, TransferReadsOn, TransferWrites, ChainCalls, RowFollows DEF TransferStep
<1>3. ASSUME NEW r \in Requests, AdministrationStep(r)
      PROVE  CustodyInv'
  BY <1>3, Administers, RowFollows DEF AdministrationStep
<1>4. ASSUME NEW r \in Requests, AuthorizeStep(r)
      PROVE  CustodyInv'
  BY <1>4, ApprovalStarts, ApprovalWrites, TakenUpApproved, ChainCalls, ApprovalIsMarked
     DEF AuthorizeStep
<1>5. ASSUME NEW r \in Requests, fails(r)
      PROVE  CustodyInv'
  BY <1>5, IdleReady, ReadOnly DEF fails, done, chainVars, rowVars
<1> QED
  BY <1>1, <1>2, <1>3, <1>4, <1>5 DEF Next

(* Every row of transfer_requests and asset_approvals got where it is      *)
(* through the people its status requires, every handler still has what it *)
(* read, and one that is about to move the row had the chain move first.   *)
THEOREM CustodyInvariant == Spec => []CustodyInv
<1>1. CustodyInv /\ [Next]_custodyVars => CustodyInv'
  BY StepInv
<1> QED
  BY InitInv, <1>1, PTL DEF Spec

---------------------------------------------------------------------------
(* The row moves in two steps, to the recipient of the handler. *)
LEMMA WhoMovesTheRow ==
    ASSUME NEW r \in Requests,
           TransferStep(r) \/ AdministrationStep(r) \/ AuthorizeStep(r) \/ fails(r)
    PROVE  UNCHANGED rowCustodian \/ executeApply(r) \/ assignApply(r)
<1>1. ASSUME TransferStep(r) PROVE UNCHANGED rowCustodian \/ executeApply(r)
  BY <1>1 DEF TransferStep, rowVars, requestCheck, createAssetTransferRequest, acceptCheck,
     executeCheck, acceptWrite, approveCheck, approveHold, approveWrite, executeCustodian,
     executeHold, executeTransfer, executeMark
<1>2. ASSUME AdministrationStep(r) PROVE UNCHANGED rowCustodian \/ assignApply(r)
  BY <1>2 DEF AdministrationStep, rowVars, raiseDispute, createAssetDispute, resolveDispute, assignChain
<1>3. ASSUME AuthorizeStep(r) PROVE UNCHANGED rowCustodian
  BY <1>3 DEF AuthorizeStep, rowVars, approvalCheck, createAssetApproval, approvalDecide,
     updateAssetApprovalStatus, authorizeCheck, authorizeApproval, authorizeTransfer,
     markAssetApprovalExecuted
<1>4. ASSUME fails(r) PROVE UNCHANGED rowCustodian
  BY <1>4 DEF fails, rowVars
<1> QED
  BY <1>1, <1>2, <1>3, <1>4

(* However the calls of execute, assign and authorizeTransfer fail or      *)
(* overtake each other, assets.custodianIdentityId becomes only somebody   *)
(* to whom the contract moved custody.                                     *)
THEOREM RowCustodianCorrect == Spec => RowCustodianFollowsChain
<1> DEFINE P == rowCustodian' # rowCustodian =>
                   \E i \in DOMAIN custody \ {1} : custody[i] = rowCustodian'
<1>1. CustodyInv /\ [Next]_custodyVars => [P]_custodyVars
  <2> SUFFICES ASSUME CustodyInv, Next, rowCustodian' # rowCustodian
               PROVE  OnChain(rowCustodian', custody)
    BY DEF OnChain
  <2>1. PICK r \in Requests : executeApply(r) \/ assignApply(r)
    BY WhoMovesTheRow DEF Next
  <2>2. OnChain(req[r].to, custody)
    BY <2>1 DEF CustodyInv, Ready, executeApply, assignApply, at
  <2> QED
    BY <2>1, <2>2 DEF executeApply, assignApply, applyCustodyTransfer
<1> QED
  BY <1>1, CustodyInvariant, PTL DEF Spec, RowCustodianFollowsChain

(* transfer.execute moves custody on the chain only for a request that its *)
(* recipient accepted and a third person decided, even when a late accept  *)
(* or a second decision overtook the one it read.                          *)
THEOREM TransferCorrect == Spec => TransferNeedsThreeParties
<1> DEFINE P == \A r \in Requests, receipt \in BOOLEAN : executeTransfer(r, receipt) =>
                   LET q == transferRequests[req[r].id] IN
                     q.accepted /\ q.approver \in (Admins \cup Managers) \ {q.from, q.to}
<1>1. CustodyInv /\ [Next]_custodyVars => [P]_custodyVars
  <2> SUFFICES ASSUME CustodyInv, NEW r \in Requests, NEW receipt \in BOOLEAN,
                      executeTransfer(r, receipt)
               PROVE  LET q == transferRequests[req[r].id] IN
                        q.accepted /\ q.approver \in (Admins \cup Managers) \ {q.from, q.to}
    OBVIOUS
  <2>1. req[r].id \in DOMAIN transferRequests /\ transferRequests[req[r].id].approver # NoOne
    BY DEF CustodyInv, Ready, executeTransfer, at
  <2>2. TransferSound(transferRequests[req[r].id])
    BY <2>1 DEF CustodyInv, Tables
  <2> QED
    BY <2>1, <2>2 DEF TransferSound, Thirds
<1> QED
  BY <1>1, CustodyInvariant, PTL DEF Spec, TransferNeedsThreeParties

(* Approvals are inserted, decided and marked, and nothing else.           *)
LEMMA WhoWritesApprovals ==
    ASSUME NEW r \in Requests,
           TransferStep(r) \/ AdministrationStep(r) \/ AuthorizeStep(r) \/ fails(r)
    PROVE  \/ UNCHANGED approvals \/ createAssetApproval(r)
           \/ updateAssetApprovalStatus(r) \/ markAssetApprovalExecuted(r)
<1>1. ASSUME TransferStep(r) PROVE UNCHANGED approvals
  BY <1>1 DEF TransferStep, requestCheck, createAssetTransferRequest, acceptCheck,
     executeCheck, acceptWrite, approveCheck, approveHold, approveWrite, executeCustodian,
     executeHold, executeTransfer, executeApply, executeMark
<1>2. ASSUME AdministrationStep(r) PROVE UNCHANGED approvals
  BY <1>2 DEF AdministrationStep, raiseDispute, createAssetDispute, resolveDispute, assignChain,
     assignApply
<1>3. ASSUME AuthorizeStep(r)
      PROVE  \/ UNCHANGED approvals \/ createAssetApproval(r)
             \/ updateAssetApprovalStatus(r) \/ markAssetApprovalExecuted(r)
  BY <1>3 DEF AuthorizeStep, approvalCheck, approvalDecide, authorizeCheck, authorizeApproval,
     authorizeTransfer
<1>4. ASSUME fails(r) PROVE UNCHANGED approvals
  BY <1>4 DEF fails
<1> QED
  BY <1>1, <1>2, <1>3, <1>4

LEMMA ExecutedStays ==
    ASSUME CustodyInv, Next, NEW i \in DOMAIN approvals, approvals[i].status = "EXECUTED"
    PROVE  approvals'[i].status = "EXECUTED"
<1>1. approvals \in Seq(ApprovalRow) /\ approvals[i] \in ApprovalRow
  BY DEF CustodyInv, Tables
<1>2. PICK r \in Requests :
         \/ UNCHANGED approvals \/ createAssetApproval(r)
         \/ updateAssetApprovalStatus(r) \/ markAssetApprovalExecuted(r)
  BY WhoWritesApprovals DEF Next
<1>3. CASE createAssetApproval(r)
  BY <1>1, <1>3 DEF createAssetApproval
<1>4. CASE updateAssetApprovalStatus(r)
  <2>1. req[r].id # i
    BY <1>4 DEF updateAssetApprovalStatus
  <2>2. approvals'[i] = approvals[i]
    BY <1>1, <1>4, <2>1 DEF updateAssetApprovalStatus
  <2> QED
    BY <2>2
<1>5. CASE markAssetApprovalExecuted(r)
  BY <1>1, <1>5 DEF markAssetApprovalExecuted, ApprovalRow
<1> QED
  BY <1>2, <1>3, <1>4, <1>5

(* A handler takes up an approval in one step, its own. *)
LEMMA WhoTakesUp ==
    ASSUME CustodyInv, Next, NEW r \in Requests,
           at(r, "authorizeApproval"), at(r, "authorizeTransfer")'
    PROVE  \E stepUp \in BOOLEAN, risk \in {"LOW", "MEDIUM", "HIGH"} : authorizeApproval(r, stepUp, risk)
<1> USE DEF at
<1>0. req \in [Requests -> Handlers]
  BY DEF CustodyInv
<1>1. PICK s \in Requests : TransferStep(s) \/ AdministrationStep(s) \/ AuthorizeStep(s) \/ fails(s)
  BY DEF Next
<1>2. req'[r].pc # req[r].pc
  OBVIOUS
<1>3. ASSUME TransferStep(s) PROVE FALSE
  <2>1. s = r
    BY <1>0, <1>2, <1>3 DEF TransferStep, requestCheck, createAssetTransferRequest, acceptCheck,
       executeCheck, acceptWrite, approveCheck, approveHold, approveWrite, executeCustodian,
       executeHold, executeTransfer, executeApply, executeMark, start, goto, done
  <2> QED
    BY <1>3, <2>1 DEF TransferStep, requestCheck, createAssetTransferRequest, acceptCheck,
       executeCheck, acceptWrite, approveCheck, approveHold, approveWrite, executeCustodian,
       executeHold, executeTransfer, executeApply, executeMark, start
<1>4. ASSUME AdministrationStep(s) PROVE FALSE
  <2>1. s = r
    BY <1>0, <1>2, <1>4 DEF AdministrationStep, raiseDispute, createAssetDispute, resolveDispute,
       assignChain, assignApply, start, goto, done
  <2> QED
    BY <1>2, <1>4, <2>1 DEF AdministrationStep, raiseDispute, createAssetDispute, resolveDispute,
       assignChain, assignApply, start
<1>5. ASSUME fails(s) PROVE FALSE
  BY <1>0, <1>2, <1>5 DEF fails, done, Idle
<1>6. ASSUME AuthorizeStep(s)
      PROVE  \E stepUp \in BOOLEAN, risk \in {"LOW", "MEDIUM", "HIGH"} : authorizeApproval(r, stepUp, risk)
  <2>1. s = r
    BY <1>0, <1>2, <1>6 DEF AuthorizeStep, approvalCheck, createAssetApproval, approvalDecide,
       updateAssetApprovalStatus, authorizeCheck, authorizeApproval, authorizeTransfer,
       markAssetApprovalExecuted, start, goto, done
  <2> QED
    BY <1>6, <2>1 DEF AuthorizeStep, approvalCheck, createAssetApproval, approvalDecide,
       updateAssetApprovalStatus, authorizeCheck, authorizeTransfer,
       markAssetApprovalExecuted, start
<1> QED
  BY <1>1, <1>3, <1>4, <1>5, <1>6

(* assets.authorizeTransfer moves custody on the chain only under the      *)
(* requester's own approval, for this recipient or for any, that another   *)
(* administrator decided; a run takes an approval up only while it is      *)
(* APPROVED, and one marked EXECUTED stays so.                             *)
THEOREM AuthorizationCorrect == Spec => AuthorizedByApproval
<1> DEFINE Moves == \A r \in Requests, receipt \in BOOLEAN : authorizeTransfer(r, receipt) =>
                       LET q == approvals[req[r].id] IN
                         /\ q.requester = req[r].actor /\ q.target \in {NoOne, req[r].to}
                         /\ q.approver \in Admins \ {req[r].actor}
                         /\ q.status \in {"APPROVED", "EXECUTED"}
           TakesUp == \A r \in Requests : at(r, "authorizeApproval") /\ at(r, "authorizeTransfer")' =>
                         approvals[req'[r].id].status = "APPROVED"
           Used == \A i \in DOMAIN approvals :
                      approvals[i].status = "EXECUTED" => approvals'[i].status = "EXECUTED"
           P == Moves /\ TakesUp /\ Used
<1>1. CustodyInv /\ [Next]_custodyVars => [P]_custodyVars
  <2> SUFFICES ASSUME CustodyInv, Next PROVE P
    OBVIOUS
  <2>1. Moves
    BY DEF CustodyInv, Ready, Others, authorizeTransfer, at
  <2>2. TakesUp
    <3> SUFFICES ASSUME NEW r \in Requests, at(r, "authorizeApproval"), at(r, "authorizeTransfer")'
                 PROVE  approvals[req'[r].id].status = "APPROVED"
      OBVIOUS
    <3> QED
      BY WhoTakesUp, TakenUpApproved
  <2>3. Used
    BY ExecutedStays
  <2> QED
    BY <2>1, <2>2, <2>3
<1> QED
  BY <1>1, CustodyInvariant, PTL DEF Spec, AuthorizedByApproval

=============================================================================
