------------------------ MODULE AssetLifecycleProofs ------------------------
(***************************************************************************)
(* Theorems about the governed mint, for any handlers, identities and      *)
(* roles: the workflow of AssetLifecycle implements MakerChecker, and the  *)
(* read model takes an asset from it only when it minted that asset.       *)
(***************************************************************************)
EXTENDS AssetLifecycle, TLAPS

Points ==
    {"idle", "requestInsert", "decideMintRequest", "executeRegister", "executeError",
     "executeActivate", "executeRow", "executeMark", "anchorAsset", "createActivate",
     "applyAssetStatusChange", "setStatusMirror"}
People == Identities \cup {NoOne}

Handlers ==
    [pc : Points, actor : People, to : MintStatus \cup AssetRowStatus, custodian : People]

TypeOK ==
    /\ mintRequest \in [status : MintStatus, by : People, custodian : People, decidedBy : People]
    /\ token \in [status : TokenStatus, custodian : People \cup {Operator}, origin : Origins]
    /\ assetRow \in [status : AssetRowStatus, custodian : People, origin : Origins]
    /\ req \in [Requests -> Handlers]

(* What a handler carries from its checks to its writes still holds when   *)
(* it writes, whoever ran in between.                                      *)
Ready(h, request, minted) ==
    /\ h.pc = "requestInsert" => h.actor \in Identities
    /\ h.pc = "decideMintRequest" =>
          /\ request.status # "NONE"
          /\ h.actor \in Identities /\ h.actor # request.by
          /\ h.to \in {"APPROVED", "REJECTED"}
    /\ h.pc \in {"executeRegister", "executeError", "executeActivate", "executeRow", "executeMark"} =>
          request.status \in {"APPROVED", "EXECUTED"}
    /\ h.pc = "executeMark" => minted.status # "NONE"
    /\ h.pc \in {"executeActivate", "executeRow"} =>
          minted.origin = "REQUEST" /\ minted.custodian = request.custodian
    /\ h.pc = "applyAssetStatusChange" => h.to \in AssetRowStatus \ {"NONE"}

Carried == \A r \in Requests : Ready(req[r], mintRequest, token)

(* The rows agree with the token. *)
RowsAgree ==
    /\ mintRequest.status = "NONE" => mintRequest.decidedBy = NoOne /\ mintRequest.by = NoOne
    /\ mintRequest.status = "EXECUTED" => token.status # "NONE"
    /\ token.status = "NONE" <=> token.origin = "NONE"
    /\ assetRow.status = "NONE" => assetRow.origin = "NONE"

LifecycleInv == TypeOK /\ Carried /\ RowsAgree /\ RowFollowsMint

LEMMA InitInv == Init => LifecycleInv
<1> SUFFICES ASSUME Init PROVE LifecycleInv
  OBVIOUS
<1> USE DEF Init, Idle
<1>1. TypeOK
  BY DEF TypeOK, Handlers, Points, People, MintStatus, TokenStatus, AssetRowStatus, Origins
<1>2. Carried
  BY DEF Carried, Ready
<1>3. RowsAgree /\ RowFollowsMint
  BY DEF RowsAgree, RowFollowsMint
<1> QED
  BY <1>1, <1>2, <1>3 DEF LifecycleInv


(* A step that moves one handler on and leaves every other one ready. *)
LEMMA Moves ==
    ASSUME LifecycleInv, NEW r \in Requests, NEW h \in Handlers,
           req' = [req EXCEPT ![r] = h],
           Ready(h, mintRequest', token'),
           \A g \in Handlers : Ready(g, mintRequest, token) => Ready(g, mintRequest', token')
    PROVE  req' \in [Requests -> Handlers] /\ Carried'
BY DEF LifecycleInv, TypeOK, Carried

LEMMA IdleReady ==
    /\ Idle \in Handlers
    /\ \A request, minted : Ready(Idle, request, minted)
BY DEF Idle, Handlers, Points, People, MintStatus, Ready

LEMMA GotoMoves ==
    ASSUME LifecycleInv, NEW r \in Requests, NEW pc \in Points, goto(r, pc)
    PROVE  /\ [req[r] EXCEPT !.pc = pc] \in Handlers
           /\ req' = [req EXCEPT ![r] = [req[r] EXCEPT !.pc = pc]]
BY DEF goto, LifecycleInv, TypeOK, Handlers

(* The steps that read and leave the rows and the token alone. *)
LEMMA ReadsKeep ==
    ASSUME LifecycleInv, NEW r \in Requests, UNCHANGED <<mintRequest, token, assetRow>>,
           NEW h \in Handlers, req' = [req EXCEPT ![r] = h],
           Ready(h, mintRequest, token)
    PROVE  LifecycleInv'
<1>1. TypeOK' /\ Carried'
  BY Moves DEF LifecycleInv, TypeOK
<1>2. RowsAgree' /\ RowFollowsMint'
  BY DEF LifecycleInv, RowsAgree, RowFollowsMint
<1> QED
  BY <1>1, <1>2 DEF LifecycleInv

(* requestCheck, decideCheck and executeCheck start a handler that is      *)
(* ready for its write; a refused or failed handler has nothing to write.  *)
LEMMA ChecksKeep ==
    ASSUME LifecycleInv, NEW r \in Requests,
           \/ \E p, to \in Identities : requestCheck(r, p, to)
           \/ \E p \in Identities, d \in {"APPROVED", "REJECTED"} : decideCheck(r, p, d)
           \/ \E p \in Identities : executeCheck(r, p)
           \/ \E to \in AssetRowStatus \ {"NONE"} : setStatusRead(r, to)
           \/ fails(r)
    PROVE  LifecycleInv'
<1> USE DEF Idle, start, Handlers, Points, People, Ready
<1>1. ASSUME NEW p \in Identities, NEW to \in Identities, requestCheck(r, p, to)
      PROVE  LifecycleInv'
  BY <1>1, ReadsKeep DEF requestCheck, MintStatus
<1>2. ASSUME NEW p \in Identities, NEW d \in {"APPROVED", "REJECTED"}, decideCheck(r, p, d)
      PROVE  LifecycleInv'
  BY <1>2, ReadsKeep DEF decideCheck, MintStatus
<1>3. ASSUME NEW p \in Identities, executeCheck(r, p)
      PROVE  LifecycleInv'
  BY <1>3, ReadsKeep DEF executeCheck, MintStatus
<1>4. ASSUME NEW to \in AssetRowStatus \ {"NONE"}, setStatusRead(r, to)
      PROVE  LifecycleInv'
  BY <1>4, ReadsKeep DEF setStatusRead
<1>5. ASSUME fails(r) PROVE LifecycleInv'
  BY <1>5, ReadsKeep, IdleReady DEF fails, done
<1> QED
  BY <1>1, <1>2, <1>3, <1>4, <1>5

(* A refused mint, and reading in its error that the token exists. *)
LEMMA RefusalsKeep ==
    ASSUME LifecycleInv, NEW r \in Requests, executeRefused(r) \/ executeError(r)
    PROVE  LifecycleInv'
<1>1. Ready(req[r], mintRequest, token)
  BY DEF LifecycleInv, Carried
<1>2. ASSUME NEW pc \in {"executeError", "executeMark"}, goto(r, pc),
             UNCHANGED <<mintRequest, token, assetRow>>,
             req[r].pc \in {"executeRegister", "executeError"},
             pc = "executeMark" => token.status # "NONE"
      PROVE  LifecycleInv'
  <2>1. /\ [req[r] EXCEPT !.pc = pc] \in Handlers
        /\ req' = [req EXCEPT ![r] = [req[r] EXCEPT !.pc = pc]]
    BY <1>2, GotoMoves DEF Points
  <2>2. Ready([req[r] EXCEPT !.pc = pc], mintRequest, token)
    BY <1>1, <1>2 DEF Ready, LifecycleInv, TypeOK, Handlers
  <2> QED
    BY <1>2, <2>1, <2>2, ReadsKeep
<1>3. CASE executeRefused(r)
  BY <1>2, <1>3 DEF executeRefused, at
<1>4. CASE executeError(r) /\ token.status # "NONE"
  BY <1>2, <1>4 DEF executeError, at
<1>5. CASE executeError(r) /\ token.status = "NONE"
  BY <1>5, ReadsKeep, IdleReady DEF executeError, done
<1> QED
  BY <1>3, <1>4, <1>5

(* The writes of the mint request leave every handler ready. *)
LEMMA RequestWriteKeeps ==
    ASSUME LifecycleInv, NEW r \in Requests, UNCHANGED <<token, assetRow>>, done(r),
           NEW status \in MintStatus, NEW p \in People, NEW c \in People, NEW d \in People,
           mintRequest' = [status |-> status, by |-> p, custodian |-> c, decidedBy |-> d],
           \A g \in Handlers : Ready(g, mintRequest, token) => Ready(g, mintRequest', token),
           status # "NONE", status = "EXECUTED" => token.status # "NONE"
    PROVE  LifecycleInv'
<1>1. mintRequest' \in [status : MintStatus, by : People, custodian : People, decidedBy : People]
  OBVIOUS
<1>2. req' \in [Requests -> Handlers] /\ Carried'
  BY Moves, IdleReady DEF done
<1>3. RowsAgree' /\ RowFollowsMint'
  BY DEF LifecycleInv, RowsAgree, RowFollowsMint
<1> QED
  BY <1>1, <1>2, <1>3 DEF LifecycleInv, TypeOK

LEMMA RequestWritesKeep ==
    ASSUME LifecycleInv, NEW r \in Requests,
           requestInsert(r) \/ decideMintRequest(r) \/ markMintRequestExecuted(r)
    PROVE  LifecycleInv'
<1>1. Ready(req[r], mintRequest, token) /\ req[r] \in Handlers
  BY DEF LifecycleInv, Carried, TypeOK
<1>2. mintRequest = [status |-> mintRequest.status, by |-> mintRequest.by,
                     custodian |-> mintRequest.custodian, decidedBy |-> mintRequest.decidedBy]
      /\ mintRequest.status \in MintStatus
      /\ mintRequest.by \in People /\ mintRequest.custodian \in People /\ mintRequest.decidedBy \in People
  BY DEF LifecycleInv, TypeOK
<1>3. CASE requestInsert(r)
  <2>1. mintRequest' = [status |-> "PENDING", by |-> req[r].actor, custodian |-> req[r].custodian,
                        decidedBy |-> NoOne]
    BY <1>3 DEF requestInsert
  <2>2. req[r].actor \in People /\ req[r].custodian \in People /\ NoOne \in People
    BY <1>1 DEF Handlers, People
  <2>3. \A g \in Handlers : Ready(g, mintRequest, token) => Ready(g, mintRequest', token)
    BY <1>3, <2>1 DEF requestInsert, Ready
  <2> QED
    BY <1>3, <2>1, <2>2, <2>3, RequestWriteKeeps DEF requestInsert, MintStatus
<1>4. CASE decideMintRequest(r)
  <2>1. req[r].to \in {"APPROVED", "REJECTED"} /\ req[r].actor \in People
    BY <1>1, <1>4 DEF decideMintRequest, at, Ready, Handlers
  <2>2. mintRequest' = [status |-> req[r].to, by |-> mintRequest.by,
                        custodian |-> mintRequest.custodian, decidedBy |-> req[r].actor]
    BY <1>2, <1>4 DEF decideMintRequest
  <2>3. \A g \in Handlers : Ready(g, mintRequest, token) => Ready(g, mintRequest', token)
    BY <1>4, <2>1, <2>2 DEF decideMintRequest, Ready
  <2> QED
    BY <1>2, <1>4, <2>1, <2>2, <2>3, RequestWriteKeeps DEF decideMintRequest, MintStatus
<1>5. CASE markMintRequestExecuted(r)
  <2>1. token.status # "NONE"
    BY <1>1, <1>5 DEF markMintRequestExecuted, at, Ready
  <2>2. mintRequest' = [status |-> "EXECUTED", by |-> mintRequest.by,
                        custodian |-> mintRequest.custodian, decidedBy |-> mintRequest.decidedBy]
    BY <1>2, <1>5 DEF markMintRequestExecuted
  <2>3. \A g \in Handlers : Ready(g, mintRequest, token) => Ready(g, mintRequest', token)
    BY <2>2 DEF Ready
  <2> QED
    BY <1>2, <1>5, <2>1, <2>2, <2>3, RequestWriteKeeps DEF markMintRequestExecuted, MintStatus
<1> QED
  BY <1>3, <1>4, <1>5

(* The contract registers a token once and never forgets where it came     *)
(* from, so that a handler stays ready whatever the contract does.         *)
LEMMA ContractKeepsReady ==
    ASSUME LifecycleInv, UNCHANGED mintRequest,
           \/ \E to \in People \cup {Operator}, origin \in {"REQUEST", "DIRECT"} :
                 registerAsset(to, origin)
           \/ \E to \in {"ACTIVE", "SUSPENDED", "REVOKED"} : changeStatus(to)
           \/ UNCHANGED token
    PROVE  /\ token' \in [status : TokenStatus, custodian : People \cup {Operator}, origin : Origins]
           /\ \A g \in Handlers : Ready(g, mintRequest, token) => Ready(g, mintRequest', token')
           /\ token'.status = "NONE" <=> token'.origin = "NONE"
           /\ token.status # "NONE" => /\ token'.status # "NONE"
                                       /\ token'.origin = token.origin
                                       /\ token'.custodian = token.custodian
<1> USE DEF registerAsset, changeStatus
<1>1. token' \in [status : TokenStatus, custodian : People \cup {Operator}, origin : Origins]
  BY DEF LifecycleInv, TypeOK, TokenStatus, Origins
<1>2. /\ token'.status = "NONE" <=> token'.origin = "NONE"
      /\ token.status # "NONE" => /\ token'.status # "NONE"
                                  /\ token'.origin = token.origin
                                  /\ token'.custodian = token.custodian
  BY DEF LifecycleInv, TypeOK, RowsAgree
<1>3. \A g \in Handlers : Ready(g, mintRequest, token) => Ready(g, mintRequest', token')
  BY <1>2 DEF LifecycleInv, RowsAgree, Ready
<1> QED
  BY <1>1, <1>2, <1>3

(* A chain call that leaves its handler at h. *)
LEMMA ChainCallKeeps ==
    ASSUME LifecycleInv, NEW r \in Requests, UNCHANGED <<mintRequest, assetRow>>,
           NEW h \in Handlers, req' = [req EXCEPT ![r] = h],
           Ready(h, mintRequest', token'),
           \/ \E to \in People \cup {Operator}, origin \in {"REQUEST", "DIRECT"} :
                 registerAsset(to, origin)
           \/ \E to \in {"ACTIVE", "SUSPENDED", "REVOKED"} : changeStatus(to)
           \/ UNCHANGED token
    PROVE  LifecycleInv'
<1>1. TypeOK' /\ Carried'
  BY ContractKeepsReady, Moves DEF LifecycleInv, TypeOK
<1>2. RowsAgree' /\ RowFollowsMint'
  BY ContractKeepsReady DEF LifecycleInv, RowsAgree, RowFollowsMint
<1> QED
  BY <1>1, <1>2 DEF LifecycleInv

LEMMA ChainCallsKeep ==
    ASSUME LifecycleInv, NEW r \in Requests,
           \/ \E receipt \in BOOLEAN : executeRegister(r, receipt) \/ anchorAsset(r, receipt)
           \/ executeActivate(r) \/ createActivate(r) \/ setStatusMirror(r)
    PROVE  LifecycleInv'
<1>1. Ready(req[r], mintRequest, token) /\ req[r] \in Handlers /\ mintRequest.custodian \in People
  BY DEF LifecycleInv, Carried, TypeOK
<1>2. ASSUME NEW receipt \in BOOLEAN, executeRegister(r, receipt) PROVE LifecycleInv'
  <2>1. registerAsset(mintRequest.custodian, "REQUEST") /\ UNCHANGED <<mintRequest, assetRow>>
    BY <1>2 DEF executeRegister
  <2>2. PICK pc \in {"executeActivate", "executeError"} : goto(r, pc)
    BY <1>2, Zenon DEF executeRegister
  <2>3. /\ [req[r] EXCEPT !.pc = pc] \in Handlers
        /\ req' = [req EXCEPT ![r] = [req[r] EXCEPT !.pc = pc]]
    BY <2>2, GotoMoves DEF Points
  <2>4. Ready([req[r] EXCEPT !.pc = pc], mintRequest', token')
    BY <1>1, <1>2, <2>1 DEF executeRegister, at, registerAsset, Ready, Handlers
  <2> QED
    BY <1>1, <2>1, <2>3, <2>4, ChainCallKeeps
<1>3. ASSUME NEW receipt \in BOOLEAN, anchorAsset(r, receipt) PROVE LifecycleInv'
  <2>1. registerAsset(Operator, "DIRECT") /\ UNCHANGED <<mintRequest, assetRow>>
    BY <1>3 DEF anchorAsset
  <2>2. CASE goto(r, "createActivate")
    <3>1. /\ [req[r] EXCEPT !.pc = "createActivate"] \in Handlers
          /\ req' = [req EXCEPT ![r] = [req[r] EXCEPT !.pc = "createActivate"]]
      BY <2>2, GotoMoves DEF Points
    <3>2. Ready([req[r] EXCEPT !.pc = "createActivate"], mintRequest', token')
      BY <1>1 DEF Ready, Handlers
    <3> QED
      BY <2>1, <3>1, <3>2, ChainCallKeeps
  <2>3. CASE done(r)
    BY <2>1, <2>3, IdleReady, ChainCallKeeps DEF done
  <2> QED
    BY <1>3, <2>2, <2>3 DEF anchorAsset
<1>4. CASE executeActivate(r)
  <2>1. /\ [req[r] EXCEPT !.pc = "executeRow"] \in Handlers
        /\ req' = [req EXCEPT ![r] = [req[r] EXCEPT !.pc = "executeRow"]]
    BY <1>4, GotoMoves DEF Points, executeActivate
  <2>2. /\ changeStatus("ACTIVE") \/ UNCHANGED token
        /\ UNCHANGED <<mintRequest, assetRow>>
    BY <1>4 DEF executeActivate
  <2>3. token'.origin = token.origin /\ token'.custodian = token.custodian
    BY <2>2 DEF changeStatus, LifecycleInv, TypeOK
  <2>4. Ready([req[r] EXCEPT !.pc = "executeRow"], mintRequest', token')
    BY <1>1, <1>4, <2>2, <2>3 DEF executeActivate, at, Ready, Handlers
  <2> QED
    BY <2>1, <2>2, <2>4, ChainCallKeeps
<1>5. CASE createActivate(r)
  BY <1>5, IdleReady, ChainCallKeeps DEF createActivate, done
<1>6. CASE setStatusMirror(r)
  <2>1. PICK to \in {"ACTIVE", "SUSPENDED", "REVOKED"} : changeStatus(to)
    <3>1. changeStatus(IF req[r].to = "PENDING" THEN "SUSPENDED" ELSE req[r].to)
      BY <1>6 DEF setStatusMirror
    <3> QED
      BY <3>1 DEF changeStatus
  <2> QED
    BY <1>6, <2>1, IdleReady, ChainCallKeeps DEF setStatusMirror, done
<1> QED
  BY <1>2, <1>3, <1>4, <1>5, <1>6

(* The writes of the asset's row. *)
LEMMA RowWritesKeep ==
    ASSUME LifecycleInv, NEW r \in Requests,
           \/ executeRow(r) \/ applyAssetStatusChange(r)
           \/ \E status \in AssetRowStatus \ {"NONE"}, to \in Identities : createRow(r, status, to)
    PROVE  LifecycleInv'
<1>1. /\ Ready(req[r], mintRequest, token) /\ req[r] \in Handlers /\ mintRequest.custodian \in People
      /\ assetRow \in [status : AssetRowStatus, custodian : People, origin : Origins]
  BY DEF LifecycleInv, Carried, TypeOK
<1>2. ASSUME NEW h \in Handlers, req' = [req EXCEPT ![r] = h], UNCHANGED <<mintRequest, token>>,
             Ready(h, mintRequest, token),
             assetRow' \in [status : AssetRowStatus, custodian : People, origin : Origins],
             assetRow'.status = "NONE" => assetRow'.origin = "NONE",
             RowFollowsMint'
      PROVE  LifecycleInv'
  <2>1. TypeOK' /\ Carried'
    BY <1>2, Moves DEF LifecycleInv, TypeOK
  <2> QED
    BY <1>2, <2>1 DEF LifecycleInv, RowsAgree
<1>3. CASE executeRow(r)
  <2>1. /\ [req[r] EXCEPT !.pc = "executeMark"] \in Handlers
        /\ req' = [req EXCEPT ![r] = [req[r] EXCEPT !.pc = "executeMark"]]
    BY <1>3, GotoMoves DEF Points, executeRow
  <2>2. token.origin = "REQUEST" /\ token.custodian = mintRequest.custodian /\ token.status # "NONE"
    BY <1>1, <1>3 DEF executeRow, at, Ready, LifecycleInv, RowsAgree
  <2>3. Ready([req[r] EXCEPT !.pc = "executeMark"], mintRequest, token)
    BY <1>1, <1>3, <2>2 DEF executeRow, at, Ready, Handlers
  <2>4. CASE UNCHANGED assetRow
    BY <1>1, <1>2, <1>3, <2>1, <2>3, <2>4 DEF executeRow, LifecycleInv, RowsAgree, RowFollowsMint
  <2>5. CASE createAsset("ACTIVE", mintRequest.custodian, "REQUEST")
    BY <1>1, <1>2, <1>3, <2>1, <2>2, <2>3, <2>5
       DEF executeRow, createAsset, AssetRowStatus, Origins, RowFollowsMint
  <2> QED
    BY <1>3, <2>4, <2>5 DEF executeRow
<1>4. CASE applyAssetStatusChange(r)
  <2>1. /\ [req[r] EXCEPT !.pc = "setStatusMirror"] \in Handlers
        /\ req' = [req EXCEPT ![r] = [req[r] EXCEPT !.pc = "setStatusMirror"]]
    BY <1>4, GotoMoves DEF Points, applyAssetStatusChange
  <2>2. Ready([req[r] EXCEPT !.pc = "setStatusMirror"], mintRequest, token)
    BY <1>1 DEF Ready, Handlers
  <2>3. req[r].to \in AssetRowStatus \ {"NONE"} /\ assetRow' = [assetRow EXCEPT !.status = req[r].to]
    BY <1>1, <1>4 DEF applyAssetStatusChange, at, Ready
  <2>4. /\ assetRow' \in [status : AssetRowStatus, custodian : People, origin : Origins]
        /\ assetRow'.status # "NONE"
        /\ assetRow'.origin = assetRow.origin /\ assetRow'.custodian = assetRow.custodian
    BY <1>1, <2>3
  <2> QED
    BY <1>2, <1>4, <2>1, <2>2, <2>4 DEF applyAssetStatusChange, LifecycleInv, RowFollowsMint
<1>5. ASSUME NEW status \in AssetRowStatus \ {"NONE"}, NEW to \in Identities, createRow(r, status, to)
      PROVE  LifecycleInv'
  <2>1. [Idle EXCEPT !.pc = "anchorAsset", !.to = status] \in Handlers
    BY DEF Idle, Handlers, Points, People
  <2>2. Ready([Idle EXCEPT !.pc = "anchorAsset", !.to = status], mintRequest, token)
    BY DEF Idle, Ready
  <2> QED
    BY <1>2, <1>5, <2>1, <2>2 DEF createRow, createAsset, start, People, Origins, RowFollowsMint
<1> QED
  BY <1>3, <1>4, <1>5

LEMMA NextKeepsInv == LifecycleInv /\ [Next]_lifecycleVars => LifecycleInv'
<1> SUFFICES ASSUME LifecycleInv, [Next]_lifecycleVars PROVE LifecycleInv'
  OBVIOUS
<1>1. CASE UNCHANGED lifecycleVars
  BY <1>1 DEF lifecycleVars, LifecycleInv, TypeOK, Carried, RowsAgree, RowFollowsMint
<1>2. ASSUME NEW r \in Requests, MintStep(r) \/ AdministrationStep(r) \/ fails(r)
      PROVE  LifecycleInv'
  BY <1>2, ChecksKeep, RefusalsKeep, RequestWritesKeep, ChainCallsKeep, RowWritesKeep
     DEF MintStep, AdministrationStep
<1> QED
  BY <1>1, <1>2 DEF Next

(* Every reachable state keeps the invariant of the lifecycle: what a      *)
(* handler checked still holds when it writes.                             *)
THEOREM LifecycleInvariant == Spec => []LifecycleInv
BY InitInv, NextKeepsInv, PTL DEF Spec

(* The read model takes an asset from the mint workflow only when this     *)
(* workflow minted it, and with the custodian the chain recorded.          *)
THEOREM RowFollowsMintAlways == Spec => []RowFollowsMint
<1>1. LifecycleInv => RowFollowsMint
  BY DEF LifecycleInv
<1> QED
  BY <1>1, LifecycleInvariant, PTL

---------------------------------------------------------------------------
(* A step of the lifecycle is a step of the abstract workflow or a stutter. *)
LEMMA StepRefines ==
    ASSUME LifecycleInv, [Next]_lifecycleVars
    PROVE  [Workflow!Next]_(Workflow!makerCheckerVars)
<1> USE DEF Workflow!makerCheckerVars
<1>1. CASE UNCHANGED <<mintRequest, token>>
  BY <1>1
<1>2. ASSUME NEW r \in Requests, requestInsert(r) PROVE Workflow!Next
  <2>1. req[r].actor \in Identities
    BY <1>2 DEF requestInsert, at, LifecycleInv, Carried, Ready
  <2>2. Workflow!Ask(req[r].actor)
    BY <1>2 DEF requestInsert, Workflow!Ask, LifecycleInv, RowsAgree
  <2> QED
    BY <2>1, <2>2 DEF Workflow!Next
<1>3. ASSUME NEW r \in Requests, decideMintRequest(r) PROVE Workflow!Next
  <2>1. /\ req[r].actor \in Identities /\ req[r].actor # mintRequest.by
        /\ req[r].to \in {"APPROVED", "REJECTED"}
    BY <1>3 DEF decideMintRequest, at, LifecycleInv, Carried, Ready
  <2>2. Workflow!Decide(req[r].actor, req[r].to)
    BY <1>3, <2>1 DEF decideMintRequest, Workflow!Decide, LifecycleInv, TypeOK
  <2> QED
    BY <2>1, <2>2 DEF Workflow!Next
<1>4. ASSUME NEW r \in Requests, markMintRequestExecuted(r)
      PROVE  Workflow!Next \/ UNCHANGED <<mintRequest, token>>
  <2>1. mintRequest.status \in {"APPROVED", "EXECUTED"} /\ token.status # "NONE"
    BY <1>4 DEF markMintRequestExecuted, at, LifecycleInv, Carried, Ready
  <2>2. CASE mintRequest.status = "APPROVED"
    <3>1. Workflow!Close
      BY <1>4, <2>1, <2>2 DEF markMintRequestExecuted, Workflow!Close, LifecycleInv, TypeOK, RowsAgree
    <3> QED
      BY <3>1 DEF Workflow!Next
  <2>3. CASE mintRequest.status = "EXECUTED"
    BY <1>4, <2>3 DEF markMintRequestExecuted, LifecycleInv, TypeOK
  <2> QED
    BY <2>1, <2>2, <2>3
<1>5. ASSUME NEW r \in Requests, NEW receipt \in BOOLEAN, executeRegister(r, receipt)
      PROVE  Workflow!Next
  <2>1. mintRequest.status = "APPROVED"
    BY <1>5 DEF executeRegister, at, registerAsset, LifecycleInv, Carried, Ready, RowsAgree
  <2>2. Workflow!Perform
    BY <1>5, <2>1 DEF executeRegister, registerAsset, Workflow!Perform, LifecycleInv, RowsAgree
  <2> QED
    BY <2>2 DEF Workflow!Next
<1>6. ASSUME NEW r \in Requests, NEW receipt \in BOOLEAN, anchorAsset(r, receipt)
      PROVE  Workflow!Next
  <2>1. Workflow!Elsewhere
    BY <1>6 DEF anchorAsset, registerAsset, Workflow!Elsewhere, LifecycleInv, RowsAgree
  <2> QED
    BY <2>1 DEF Workflow!Next
<1>7. ASSUME NEW r \in Requests, executeActivate(r) \/ createActivate(r) \/ setStatusMirror(r)
      PROVE  UNCHANGED <<mintRequest, token.origin>>
  BY <1>7 DEF executeActivate, createActivate, setStatusMirror, changeStatus, LifecycleInv, TypeOK
<1>8. ASSUME NEW r \in Requests, MintStep(r) \/ AdministrationStep(r) \/ fails(r)
      PROVE  [Workflow!Next]_(Workflow!makerCheckerVars)
  <2>1. CASE \/ \E p, to \in Identities : requestCheck(r, p, to)
             \/ \E p \in Identities, d \in {"APPROVED", "REJECTED"} : decideCheck(r, p, d)
             \/ \E p \in Identities : executeCheck(r, p)
             \/ executeRefused(r) \/ executeError(r) \/ executeRow(r) \/ fails(r)
             \/ \E status \in AssetRowStatus \ {"NONE"}, to \in Identities : createRow(r, status, to)
             \/ \E to \in AssetRowStatus \ {"NONE"} : setStatusRead(r, to)
             \/ applyAssetStatusChange(r)
    BY <1>1, <2>1 DEF requestCheck, decideCheck, executeCheck, executeRefused, executeError,
                      executeRow, fails, createRow, setStatusRead, applyAssetStatusChange
  <2> QED
    BY <1>2, <1>3, <1>4, <1>5, <1>6, <1>7, <1>8, <2>1 DEF MintStep, AdministrationStep
<1> QED
  BY <1>1, <1>8 DEF Next, lifecycleVars

(* The governed mint implements the maker-checker workflow, for any number *)
(* of handlers, people and administrators.                                 *)
THEOREM MintImplements == Spec => MintImplementsMakerChecker
<1>1. Init => Workflow!Init
  BY DEF Init, Workflow!Init
<1>2. LifecycleInv /\ [Next]_lifecycleVars => [Workflow!Next]_(Workflow!makerCheckerVars)
  BY StepRefines
<1> QED
  BY <1>1, <1>2, LifecycleInvariant, PTL DEF Spec, MintImplementsMakerChecker, Workflow!Spec

(* A maker-checker workflow keeps its promise: the approval of a second    *)
(* person precedes the effect asked for, and no request is closed without  *)
(* its effect.                                                             *)
THEOREM WorkflowKeepsPromise == Workflow!Spec => []Workflow!EffectNeedsChecker
<1>1. Workflow!Init => Workflow!EffectNeedsChecker
  BY DEF Workflow!Init, Workflow!EffectNeedsChecker
<1>2. Workflow!EffectNeedsChecker /\ [Workflow!Next]_(Workflow!makerCheckerVars)
        => Workflow!EffectNeedsChecker'
  BY DEF Workflow!EffectNeedsChecker, Workflow!Next, Workflow!makerCheckerVars, Workflow!Ask,
         Workflow!Decide, Workflow!Perform, Workflow!Elsewhere, Workflow!Close
<1> QED
  BY <1>1, <1>2, PTL DEF Workflow!Spec

(* Hence the promise of the workflow holds of the mint: an asset that the  *)
(* workflow put on the chain was requested by one person and approved by   *)
(* another.                                                                *)
COROLLARY MintNeedsChecker == Spec => []Workflow!EffectNeedsChecker
BY MintImplements, WorkflowKeepsPromise, PTL DEF MintImplementsMakerChecker

=============================================================================
