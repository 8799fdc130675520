----------------------- MODULE CryptoAssuranceProofs -----------------------
(***************************************************************************)
(* Proofs about crypto assurance, for any number of handlers, challenges,  *)
(* keys, assets and proposals: what the policy engine answers, the         *)
(* invariant of the rows of assurance_challenges, and that they implement  *)
(* single-use tokens.                                                      *)
(***************************************************************************)
EXTENDS CryptoAssurance, FiniteSetTheorems, TLAPS

(* How much a level asks for. *)
Rank(level) == IF level = "QUANTUM_HARDENED" THEN 2 ELSE IF level = "ELEVATED" THEN 1 ELSE 0

LEMMA WeightsAreIntegers ==
    ASSUME NEW i \in PolicyInput
    PROVE  /\ OPERATION_WEIGHT[i.operation] \in Nat
           /\ classificationWeight(i.classification) \in Nat
           /\ riskWeight(i.risk, i.riskScore) \in Nat
           /\ assuranceScore(i) \in Nat
<1>1. i.operation \in AssuranceOperation /\ i.riskScore \in 0 .. 100
      /\ i.classification \in {"NONE", "UNKNOWN"} \cup DOMAIN CLASSIFICATION_WEIGHT
      /\ i.risk \in {"NONE", "UNKNOWN"} \cup DOMAIN RISK_WEIGHT
  BY DEF PolicyInput
<1>2. OPERATION_WEIGHT[i.operation] \in Nat
  BY <1>1 DEF AssuranceOperation, OPERATION_WEIGHT
<1>3. classificationWeight(i.classification) \in Nat
  BY <1>1 DEF classificationWeight, CLASSIFICATION_WEIGHT
<1>4. riskWeight(i.risk, i.riskScore) \in Nat
  BY <1>1 DEF riskWeight, RISK_WEIGHT
<1>5. assuranceScore(i) \in Nat
  BY <1>2, <1>3, <1>4 DEF assuranceScore
<1> QED
  BY <1>2, <1>3, <1>4, <1>5

(* The advisory risk score can add to what evaluateAssurance asks for, and *)
(* never lowers it.                                                        *)
THEOREM AdvisoryScoreOnlyRaises ==
    ASSUME NEW i \in PolicyInput, NEW s \in i.riskScore .. 100
    PROVE  Rank(evaluateAssurance([i EXCEPT !.riskScore = s])) >= Rank(evaluateAssurance(i))
<1> DEFINE j == [i EXCEPT !.riskScore = s]
<1>1. j \in PolicyInput /\ i.riskScore \in 0 .. 100 /\ s \in 0 .. 100 /\ i.riskScore <= s
  BY DEF PolicyInput
<1>2. /\ j.operation = i.operation /\ j.role = i.role /\ j.classification = i.classification
      /\ j.risk = i.risk /\ j.custody = i.custody /\ j.approval = i.approval
      /\ j.stepUp = i.stepUp /\ j.riskScore = s
  BY DEF PolicyInput
<1> HIDE DEF j
<1>3. riskWeight(j.risk, j.riskScore) >= riskWeight(i.risk, i.riskScore)
  BY <1>1, <1>2 DEF riskWeight, RISK_WEIGHT, PolicyInput
<1>4. assuranceScore(j) >= assuranceScore(i)
  BY <1>1, <1>2, <1>3, WeightsAreIntegers DEF assuranceScore, irreversible
<1>5. assuranceScore(i) \in Nat /\ assuranceScore(j) \in Nat
  BY <1>1, WeightsAreIntegers
<1>6. quantumMandated(i) => quantumMandated(j)
  BY <1>2, <1>4, <1>5 DEF quantumMandated, irreversible, QUANTUM_THRESHOLD
<1>7. (assuranceScore(i) >= ELEVATED_THRESHOLD \/ elevatedFloor(i))
        => (assuranceScore(j) >= ELEVATED_THRESHOLD \/ elevatedFloor(j))
  BY <1>2, <1>4, <1>5 DEF elevatedFloor, irreversible, ELEVATED_THRESHOLD
<1>8. Rank(evaluateAssurance(j)) >= Rank(evaluateAssurance(i))
  BY <1>6, <1>7 DEF evaluateAssurance, Rank
<1> QED
  BY <1>8 DEF j

(* A classification that evaluateAssurance does not know is treated as the *)
(* worst one: classificationWeight and the CRITICAL rules agree.           *)
THEOREM UnknownCountsAsCritical ==
    ASSUME NEW i \in PolicyInput
    PROVE  evaluateAssurance([i EXCEPT !.classification = "UNKNOWN"])
           = evaluateAssurance([i EXCEPT !.classification = "CRITICAL"])
<1> DEFINE u == [i EXCEPT !.classification = "UNKNOWN"]
           k == [i EXCEPT !.classification = "CRITICAL"]
<1>1. u \in PolicyInput /\ k \in PolicyInput
  BY DEF PolicyInput, CLASSIFICATION_WEIGHT
<1>2. /\ u.operation = i.operation /\ u.role = i.role /\ u.classification = "UNKNOWN"
      /\ u.risk = i.risk /\ u.custody = i.custody /\ u.approval = i.approval
      /\ u.stepUp = i.stepUp /\ u.riskScore = i.riskScore
      /\ k.operation = i.operation /\ k.role = i.role /\ k.classification = "CRITICAL"
      /\ k.risk = i.risk /\ k.custody = i.custody /\ k.approval = i.approval
      /\ k.stepUp = i.stepUp /\ k.riskScore = i.riskScore
  BY DEF PolicyInput
<1> HIDE DEF u, k
<1>3. classificationWeight(u.classification) = 45 /\ classificationWeight(k.classification) = 45
  BY <1>2 DEF classificationWeight, CLASSIFICATION_WEIGHT
<1>4. assuranceScore(u) = assuranceScore(k)
  BY <1>2, <1>3 DEF assuranceScore, irreversible
<1>5. irreversible(k) => assuranceScore(k) >= QUANTUM_THRESHOLD
  <2>1. ASSUME irreversible(k) PROVE OPERATION_WEIGHT[k.operation] >= 45
    BY <2>1 DEF irreversible, IRREVERSIBLE_OPERATIONS, OPERATION_WEIGHT
  <2> QED
    BY <1>1, <1>3, <2>1, WeightsAreIntegers DEF assuranceScore, QUANTUM_THRESHOLD
<1>6. quantumMandated(u) <=> quantumMandated(k)
  BY <1>2, <1>4, <1>5 DEF quantumMandated, irreversible
<1>7. evaluateAssurance(u) = evaluateAssurance(k)
  BY <1>2, <1>4, <1>6 DEF evaluateAssurance, elevatedFloor, irreversible
<1> QED
  BY <1>7 DEF u, k

---------------------------------------------------------------------------
(* A row of assurance_challenges; the values of its keys and its resource  *)
(* do not matter here.                                                     *)
IsRow(x) ==
    x \in [issued : BOOLEAN, operation : AssuranceOperation \cup {"NONE"}, resource : {x.resource},
           level : AssuranceLevel \cup {"NONE"}, ecdsaKey : {x.ecdsaKey}, pqcKey : {x.pqcKey},
           publicKey : {x.publicKey}, consumed : BOOLEAN, executed : BOOLEAN, old : BOOLEAN,
           ecdsaVerified : BOOLEAN, pqcVerified : BOOLEAN]

Hardened(operation, level) ==
    operation \in QUANTUM_MANDATED_OPERATIONS => level = "QUANTUM_HARDENED"

(* What a handler may carry: a challenge to be issued has the level of its *)
(* operation, a grant to be claimed was consumed for the same operation.   *)
Issuing(h) ==
    /\ h \in [pc : {"resolveActorCrypto", "resolvePublicKey", "createAssuranceChallenge"},
              target : Targets, level : AssuranceLevel,
              ecdsaKey : {h.ecdsaKey}, pqcKey : {h.pqcKey}, publicKey : {h.publicKey}]
    /\ Hardened(operationOf(h.target), h.level)

Verifying(h) ==
    h \in [pc : {"verifyIdentity", "verifyDid", "verifyPqc", "markAssuranceHalfVerified"},
           challenge : Challenges, ecdsa : BOOLEAN, pqc : BOOLEAN]

Gating(h, rows) ==
    /\ h \in [pc : {"findValidAssuranceGrant", "claimAssuranceGrantExecution"},
              target : Targets, grant : Challenges]
    /\ h.pc = "claimAssuranceGrantExecution" =>
          rows[h.grant].consumed /\ rows[h.grant].operation = operationOf(h.target)

Handler(h, rows) ==
    \/ Issuing(h) \/ Verifying(h) \/ Gating(h, rows)
    \/ h.pc \in {"idle", "registerWrite", "setPqcKeyStatus"}

(* One row and the operations that ran on it. *)
RowInv(x, n) ==
    /\ IsRow(x)
    /\ n \in {0, 1} /\ (n = 1 <=> x.executed)
    /\ x.executed => /\ x.consumed
                     /\ x.operation \in QUANTUM_MANDATED_OPERATIONS
                                         \cup {"PAUSE_REGISTRY", "UNPAUSE_REGISTRY"}
    /\ x.consumed \/ x.old => x.issued
    /\ Hardened(x.operation, x.level)

AssuranceInv ==
    /\ challenge = [c \in Challenges |-> challenge[c]]
    /\ spent = [c \in Challenges |-> spent[c]]
    /\ req = [r \in Requests |-> req[r]]
    /\ \A c \in Challenges : RowInv(challenge[c], spent[c])
    /\ \A r \in Requests : Handler(req[r], challenge)

LEMMA InitAssurance == Init => AssuranceInv
BY DEF Init, AssuranceInv, RowInv, IsRow, NoChallenge, Hardened, Idle, Handler, AssuranceLevel,
       QUANTUM_MANDATED_OPERATIONS

LEMMA OperationOfProposal ==
    ASSUME NEW t \in Targets
    PROVE  /\ operationOf(t) \in AssuranceOperation
           /\ operationOf(t) \in QUANTUM_MANDATED_OPERATIONS \cup {"PAUSE_REGISTRY", "UNPAUSE_REGISTRY"}
<1>1. t.kind \in DOMAIN GOVERNANCE_KIND_TO_OPERATION
  BY AssuranceAssumption
<1> QED
  BY <1>1 DEF operationOf, GOVERNANCE_KIND_TO_OPERATION, QUANTUM_MANDATED_OPERATIONS,
              AssuranceOperation, OPERATION_WEIGHT

(* However a proposal's challenge is scored, a mandated one is hardened. *)
LEMMA ChallengeLevelHardened ==
    ASSUME NEW t, NEW context
    PROVE  /\ challengeLevel(t, context) \in AssuranceLevel
           /\ Hardened(operationOf(t), challengeLevel(t, context))
BY DEF Hardened, challengeLevel, evaluateAssurance, quantumMandated, AssuranceLevel

(* A step of one handler that leaves the rows alone. *)
LEMMA HandlerMoves ==
    ASSUME AssuranceInv, NEW r \in Requests, NEW h, Handler(h, challenge),
           req' = [req EXCEPT ![r] = h], UNCHANGED <<challenge, spent>>
    PROVE  AssuranceInv'
BY DEF AssuranceInv

(* A step of one handler that writes one row: a consumed row stays so. *)
LEMMA RowMoves ==
    ASSUME AssuranceInv, NEW r \in Requests, NEW c \in Challenges, NEW x, NEW n,
           challenge' = [challenge EXCEPT ![c] = x], spent' = [spent EXCEPT ![c] = n],
           req' = req \/ \E h : Handler(h, challenge') /\ req' = [req EXCEPT ![r] = h],
           RowInv(x, n),
           challenge[c].consumed => x.consumed /\ x.operation = challenge[c].operation
    PROVE  AssuranceInv'
<1>1. challenge' = [d \in Challenges |-> challenge'[d]] /\ spent' = [d \in Challenges |-> spent'[d]]
      /\ \A d \in Challenges : RowInv(challenge'[d], spent'[d])
  BY DEF AssuranceInv
<1>2. \A d \in Challenges : challenge[d].consumed =>
          challenge'[d].consumed /\ challenge'[d].operation = challenge[d].operation
  BY DEF AssuranceInv
<1>3. ASSUME NEW s \in Requests PROVE Handler(req[s], challenge')
  <2>1. Handler(req[s], challenge)
    BY DEF AssuranceInv
  <2>2. ASSUME Gating(req[s], challenge) PROVE Gating(req[s], challenge')
    BY <1>2, <2>2 DEF Gating
  <2> QED
    BY <2>1, <2>2 DEF Handler
<1>4. req' = [s \in Requests |-> req'[s]] /\ \A s \in Requests : Handler(req'[s], challenge')
  BY <1>3 DEF AssuranceInv
<1> QED
  BY <1>1, <1>4 DEF AssuranceInv

(* assurance.challenge, up to the insert. *)
LEMMA IssueReads ==
    ASSUME AssuranceInv, NEW r \in Requests,
           \/ \E t \in Targets, context \in Contexts : issueAssuranceChallenge(r, t, context)
           \/ resolveActorCrypto(r) \/ resolvePublicKey(r)
    PROVE  AssuranceInv' /\ UNCHANGED <<challenge, spent>>
<1>1. ASSUME NEW t \in Targets, NEW context \in Contexts, issueAssuranceChallenge(r, t, context)
      PROVE  AssuranceInv' /\ UNCHANGED <<challenge, spent>>
  <2> DEFINE h == [pc |-> "resolveActorCrypto", target |-> t, level |-> challengeLevel(t, context),
                   ecdsaKey |-> 0, pqcKey |-> 0, publicKey |-> "NONE"]
  <2>1. Handler(h, challenge)
    BY ChallengeLevelHardened DEF Handler, Issuing
  <2>2. req' = [req EXCEPT ![r] = h] /\ UNCHANGED <<challenge, spent>>
    BY <1>1 DEF issueAssuranceChallenge, become
  <2> QED
    BY <2>1, <2>2, HandlerMoves
<1>2. ASSUME resolveActorCrypto(r) \/ resolvePublicKey(r)
      PROVE  AssuranceInv' /\ UNCHANGED <<challenge, spent>>
  <2>1. Issuing(req[r])
    BY <1>2 DEF resolveActorCrypto, resolvePublicKey, at, AssuranceInv, Handler, Verifying, Gating
  <2>2. ASSUME NEW e, NEW k, NEW pc \in {"resolvePublicKey", "createAssuranceChallenge"}
        PROVE  /\ Issuing([req[r] EXCEPT !.ecdsaKey = e, !.pc = pc])
               /\ Issuing([req[r] EXCEPT !.pqcKey = e, !.publicKey = k, !.pc = pc])
    BY <2>1 DEF Issuing
  <2>4. CASE resolveActorCrypto(r)
    <3> DEFINE pc == IF req[r].level = "QUANTUM_HARDENED" THEN "resolvePublicKey"
                     ELSE "createAssuranceChallenge"
    <3>1. req' = [req EXCEPT ![r] = [req[r] EXCEPT !.ecdsaKey = didKey.generation, !.pc = pc]]
      BY <2>4 DEF resolveActorCrypto, become
    <3>2. pc \in {"resolvePublicKey", "createAssuranceChallenge"}
      OBVIOUS
    <3>3. Issuing([req[r] EXCEPT !.ecdsaKey = didKey.generation, !.pc = pc])
      BY <2>2, <3>2
    <3> QED
      BY <2>4, <3>1, <3>3, HandlerMoves DEF Handler, resolveActorCrypto
  <2>5. CASE resolvePublicKey(r)
    <3>1. req' = [req EXCEPT ![r] =
                    [req[r] EXCEPT !.pqcKey = activeGeneration, !.publicKey = activePublicKey,
                                   !.pc = "createAssuranceChallenge"]]
      BY <2>5 DEF resolvePublicKey, become
    <3>2. Issuing([req[r] EXCEPT !.pqcKey = activeGeneration, !.publicKey = activePublicKey,
                                 !.pc = "createAssuranceChallenge"])
      BY <2>2
    <3> QED
      BY <2>5, <3>1, <3>2, HandlerMoves DEF Handler, resolvePublicKey
  <2> QED
    BY <1>2, <2>4, <2>5
<1> QED
  BY <1>1, <1>2

(* assurance.verify, between the consumption and the result. *)
LEMMA VerifyReads ==
    ASSUME AssuranceInv, NEW r \in Requests,
           \/ verifyIdentity(r)
           \/ \E signed \in BOOLEAN : verifyDid(r, signed) \/ verifyPqc(r, signed)
    PROVE  AssuranceInv' /\ UNCHANGED <<challenge, spent>>
<1>1. Verifying(req[r])
  BY DEF verifyIdentity, verifyDid, verifyPqc, at, AssuranceInv, Handler, Issuing, Gating
<1>2. UNCHANGED <<challenge, spent>>
  BY DEF verifyIdentity, verifyDid, verifyPqc
<1>3. ASSUME NEW pc \in {"verifyDid", "verifyPqc", "markAssuranceHalfVerified"},
             NEW e \in BOOLEAN, NEW p \in BOOLEAN
      PROVE  /\ Verifying([req[r] EXCEPT !.pc = pc])
             /\ Verifying([req[r] EXCEPT !.ecdsa = e, !.pc = pc])
             /\ Verifying([req[r] EXCEPT !.pc = pc, !.pqc = p])
  BY <1>1 DEF Verifying
<1>4. CASE verifyIdentity(r)
  <2>1. req' = [req EXCEPT ![r] = [req[r] EXCEPT !.pc = "verifyDid"]]
    BY <1>4 DEF verifyIdentity, goto, become
  <2> QED
    BY <1>2, <1>3, <2>1, HandlerMoves DEF Handler
<1>5. ASSUME NEW signed \in BOOLEAN, verifyDid(r, signed) PROVE AssuranceInv'
  <2> DEFINE pc == IF signed /\ challenge[req[r].challenge].level = "QUANTUM_HARDENED"
                   THEN "verifyPqc" ELSE "markAssuranceHalfVerified"
             h == [req[r] EXCEPT !.ecdsa = signed, !.pc = pc]
  <2>1. req' = [req EXCEPT ![r] = h]
    BY <1>5 DEF verifyDid, become
  <2>2. pc \in {"verifyDid", "verifyPqc", "markAssuranceHalfVerified"}
    OBVIOUS
  <2>3. Verifying(h)
    BY <1>3, <2>2
  <2> QED
    BY <1>2, <2>1, <2>3, HandlerMoves DEF Handler
<1>6. ASSUME NEW signed \in BOOLEAN, verifyPqc(r, signed) PROVE AssuranceInv'
  <2> DEFINE p == signed /\ activeGeneration = challenge[req[r].challenge].pqcKey
             h == [req[r] EXCEPT !.pc = "markAssuranceHalfVerified", !.pqc = p]
  <2>1. req' = [req EXCEPT ![r] = h]
    BY <1>6 DEF verifyPqc, become
  <2>2. p \in BOOLEAN
    OBVIOUS
  <2>3. Verifying(h)
    BY <1>3, <2>2
  <2> QED
    BY <1>2, <2>1, <2>3, HandlerMoves DEF Handler
<1> QED
  BY <1>2, <1>4, <1>5, <1>6

(* requireGovernanceAssurance, up to the claim. *)
LEMMA GateReads ==
    ASSUME AssuranceInv, NEW r \in Requests,
           \/ \E t \in Targets, c \in Challenges : requireGovernanceAssurance(r, t, c)
           \/ findValidAssuranceGrant(r)
    PROVE  AssuranceInv' /\ UNCHANGED <<challenge, spent>>
<1>1. UNCHANGED <<challenge, spent>>
  BY DEF requireGovernanceAssurance, findValidAssuranceGrant
<1>2. ASSUME NEW t \in Targets, NEW c \in Challenges, requireGovernanceAssurance(r, t, c)
      PROVE  AssuranceInv'
  <2> DEFINE h == [pc |-> "findValidAssuranceGrant", target |-> t, grant |-> c]
  <2>1. req' = [req EXCEPT ![r] = h] /\ Handler(h, challenge)
    BY <1>2 DEF requireGovernanceAssurance, become, Handler, Gating
  <2> QED
    BY <1>1, <2>1, HandlerMoves
<1>3. CASE findValidAssuranceGrant(r)
  <2> DEFINE h == [req[r] EXCEPT !.pc = "claimAssuranceGrantExecution"]
  <2>1. Gating(req[r], challenge)
    BY <1>3 DEF findValidAssuranceGrant, at, AssuranceInv, Handler, Issuing, Verifying
  <2>2. req' = [req EXCEPT ![r] = h] /\ Gating(h, challenge)
    BY <1>3, <2>1 DEF findValidAssuranceGrant, goto, become, Gating
  <2> QED
    BY <1>1, <2>2, HandlerMoves DEF Handler
<1> QED
  BY <1>1, <1>2, <1>3

(* The key routes, failures, and everything around the handlers. *)
LEMMA OthersKeepRows ==
    ASSUME AssuranceInv,
           \/ \E r \in Requests : KeyStep(r) \/ fails(r)
           \/ identityChanges \/ didKeyChanges
    PROVE  AssuranceInv' /\ UNCHANGED <<challenge, spent>>
<1>1. CASE identityChanges \/ didKeyChanges
  BY <1>1 DEF identityChanges, didKeyChanges, AssuranceInv
<1>2. ASSUME NEW r \in Requests, KeyStep(r) \/ fails(r)
      PROVE  AssuranceInv' /\ UNCHANGED <<challenge, spent>>
  <2>1. \E h : req' = [req EXCEPT ![r] = h] /\ h.pc \in {"idle", "registerWrite", "setPqcKeyStatus"}
    <3>1. CASE done(r)
      <4>1. Idle.pc = "idle"
        BY DEF Idle
      <4> QED
        BY <3>1, <4>1 DEF done, become
    <3>2. ASSUME NEW k \in Keys, registerRead(r, k)
          PROVE  req' = [req EXCEPT ![r] = [pc |-> "registerWrite", key |-> k, existing |-> activeGeneration]]
      BY <3>2 DEF registerRead, become
    <3>3. CASE revokeRead(r)
      <4> DEFINE h == [pc |-> "setPqcKeyStatus"]
      <4>1. req' = [req EXCEPT ![r] = h] /\ h.pc = "setPqcKeyStatus"
        BY <3>3 DEF revokeRead, become
      <4> HIDE DEF h
      <4> QED
        BY <4>1
    <3>4. ASSUME registerPqcKeyRecord(r) \/ rotatePqcKeyRecord(r) \/ setPqcKeyStatus(r) \/ fails(r)
          PROVE  done(r)
      BY <3>4 DEF registerPqcKeyRecord, rotatePqcKeyRecord, setPqcKeyStatus, fails
    <3>5. CASE \E k \in Keys : registerRead(r, k)
      <4>1. PICK k \in Keys : registerRead(r, k)
        BY <3>5
      <4> DEFINE h == [pc |-> "registerWrite", key |-> k, existing |-> activeGeneration]
      <4>2. req' = [req EXCEPT ![r] = h] /\ h.pc = "registerWrite"
        BY <3>2, <4>1
      <4> HIDE DEF h
      <4> QED
        BY <4>2
    <3> QED
      BY <1>2, <3>1, <3>3, <3>4, <3>5 DEF KeyStep
  <2>2. UNCHANGED <<challenge, spent>>
    BY <1>2 DEF KeyStep, registerRead, registerPqcKeyRecord, rotatePqcKeyRecord, revokeRead,
                setPqcKeyStatus, fails
  <2> QED
    BY <2>1, <2>2, HandlerMoves DEF Handler
<1> QED
  BY <1>1, <1>2

LEMMA IdleHandles == \A rows : Handler(Idle, rows)
BY DEF Idle, Handler

---------------------------------------------------------------------------
(* The steps that write a row, each as an operation on a token. *)
LEMMA CreateWrites ==
    ASSUME AssuranceInv, NEW r \in Requests, NEW c \in Challenges, createAssuranceChallenge(r, c)
    PROVE  AssuranceInv' /\ Token!Issue(c)
<1> DEFINE x == [NoChallenge EXCEPT !.issued = TRUE, !.level = req[r].level,
                              !.operation = operationOf(req[r].target),
                              !.resource = resourceOf(req[r].target),
                              !.ecdsaKey = req[r].ecdsaKey, !.pqcKey = req[r].pqcKey,
                              !.publicKey = req[r].publicKey]
<1>1. /\ ~challenge[c].issued /\ challenge' = [challenge EXCEPT ![c] = x]
      /\ req' = [req EXCEPT ![r] = Idle] /\ UNCHANGED spent
  BY DEF createAssuranceChallenge, done, become
<1>2. Issuing(req[r])
  BY DEF createAssuranceChallenge, at, AssuranceInv, Handler, Verifying, Gating
<1>3. RowInv(challenge[c], spent[c])
  BY DEF AssuranceInv
<1>4. /\ spent[c] = 0 /\ ~challenge[c].consumed /\ ~challenge[c].old
  BY <1>1, <1>3 DEF RowInv, IsRow
<1>5. operationOf(req[r].target) \in AssuranceOperation /\ req[r].level \in AssuranceLevel
  BY <1>2, OperationOfProposal DEF Issuing
<1>6. RowInv(x, 0)
  <2>1. /\ x.issued /\ ~x.consumed /\ ~x.executed /\ ~x.old
        /\ x.operation = operationOf(req[r].target) /\ x.level = req[r].level
    BY DEF NoChallenge
  <2>2. IsRow(x)
    BY <1>5 DEF IsRow, NoChallenge
  <2> HIDE DEF x
  <2> QED
    BY <1>2, <2>1, <2>2 DEF RowInv, Issuing, Hardened
<1>7. x.issued /\ ~x.consumed /\ x.old = FALSE
  BY DEF NoChallenge
<1> HIDE DEF x
<1>8. spent' = [spent EXCEPT ![c] = 0]
  BY <1>1, <1>4 DEF AssuranceInv
<1>9. AssuranceInv'
  BY <1>1, <1>4, <1>6, <1>8, RowMoves, IdleHandles
<1>10. Token!Issue(c)
  <2>1. stageOf(challenge[c]) = "NONE" /\ stageOf(x) = "ISSUED"
    BY <1>1, <1>4, <1>7 DEF stageOf
  <2>2. \A d \in Challenges : challenge'[d] = IF d = c THEN x ELSE challenge[d]
    BY <1>1 DEF AssuranceInv
  <2>3. challenge[c].old = FALSE /\ x.old = FALSE
    BY <1>3, <1>4, <1>7 DEF RowInv, IsRow
  <2>4. [d \in Challenges |-> challenge'[d].old] = [d \in Challenges |-> challenge[d].old]
    BY <2>2, <2>3
  <2>5. [d \in Challenges |-> stageOf(challenge'[d])]
          = [[d \in Challenges |-> stageOf(challenge[d])] EXCEPT ![c] = "ISSUED"]
    BY <2>1, <2>2
  <2>6. [d \in Challenges |-> stageOf(challenge[d])][c] = "NONE"
    BY <2>1
  <2>7. [d \in Challenges |-> stageOf(challenge[d])]'
          = [d \in Challenges |-> stageOf(challenge'[d])]
    BY DEF stageOf
  <2> QED
    BY <1>1, <2>4, <2>5, <2>6, <2>7 DEF Token!Issue
<1> QED
  BY <1>9, <1>10

LEMMA ConsumeWrites ==
    ASSUME AssuranceInv, NEW r \in Requests, NEW c \in Challenges,
           consumeAssuranceChallengeAtomic(r, c)
    PROVE  AssuranceInv' /\ Token!Redeem(c)
<1> DEFINE x == [challenge[c] EXCEPT !.consumed = TRUE]
           h == [pc |-> "verifyIdentity", challenge |-> c, ecdsa |-> FALSE, pqc |-> FALSE]
<1>1. /\ challenge[c].issued /\ ~challenge[c].consumed /\ ~challenge[c].old
      /\ challenge' = [challenge EXCEPT ![c] = x]
      /\ req' = [req EXCEPT ![r] = h] /\ UNCHANGED spent
  BY DEF consumeAssuranceChallengeAtomic, become
<1>2. RowInv(challenge[c], spent[c])
  BY DEF AssuranceInv
<1>3. RowInv(x, spent[c]) /\ x.consumed /\ x.operation = challenge[c].operation /\ x.old = challenge[c].old
  BY <1>1, <1>2 DEF RowInv, IsRow, Hardened
<1>4. Handler(h, challenge')
  BY DEF Handler, Verifying
<1> HIDE DEF x, h
<1>5. spent' = [spent EXCEPT ![c] = spent[c]]
  BY <1>1 DEF AssuranceInv
<1>6. AssuranceInv'
  BY <1>1, <1>3, <1>4, <1>5, RowMoves
<1>7. Token!Redeem(c)
  BY <1>1, <1>3 DEF Token!Redeem, stageOf, AssuranceInv
<1> QED
  BY <1>6, <1>7

LEMMA MarkWrites ==
    ASSUME AssuranceInv, NEW r \in Requests, markAssuranceHalfVerified(r)
    PROVE  AssuranceInv' /\ UNCHANGED Token!tokenVars
<1> DEFINE c == req[r].challenge
           x == [challenge[c] EXCEPT !.ecdsaVerified = req[r].ecdsa, !.pqcVerified = req[r].pqc]
<1>1. Verifying(req[r])
  BY DEF markAssuranceHalfVerified, at, AssuranceInv, Handler, Issuing, Gating
<1>2. c \in Challenges /\ req[r].ecdsa \in BOOLEAN /\ req[r].pqc \in BOOLEAN
  BY <1>1 DEF Verifying
<1>3. RowInv(challenge[c], spent[c])
  BY <1>2 DEF AssuranceInv
<1>4. challenge' = [challenge EXCEPT ![c] = x] /\ req' = [req EXCEPT ![r] = Idle] /\ UNCHANGED spent
  BY <1>2, <1>3 DEF markAssuranceHalfVerified, done, become, AssuranceInv
<1>5. /\ RowInv(x, spent[c]) /\ x.consumed = challenge[c].consumed /\ x.issued = challenge[c].issued
      /\ x.operation = challenge[c].operation /\ x.old = challenge[c].old
  BY <1>2, <1>3 DEF RowInv, IsRow, Hardened
<1> HIDE DEF x, c
<1>6. spent' = [spent EXCEPT ![c] = spent[c]]
  BY <1>4 DEF AssuranceInv
<1>7. AssuranceInv'
  BY <1>2, <1>4, <1>5, <1>6, RowMoves, IdleHandles
<1>8. UNCHANGED Token!tokenVars
  BY <1>2, <1>4, <1>5 DEF Token!tokenVars, stageOf, AssuranceInv
<1> QED
  BY <1>7, <1>8

LEMMA ClaimWrites ==
    ASSUME AssuranceInv, NEW r \in Requests, claimAssuranceGrantExecution(r)
    PROVE  AssuranceInv' /\ \E c \in Challenges : Token!Spend(c)
<1> DEFINE c == req[r].grant
           x == [challenge[c] EXCEPT !.executed = TRUE]
<1>1. Gating(req[r], challenge) /\ req[r].pc = "claimAssuranceGrantExecution"
  BY DEF claimAssuranceGrantExecution, at, AssuranceInv, Handler, Issuing, Verifying
<1>2. /\ c \in Challenges /\ challenge[c].consumed
      /\ challenge[c].operation = operationOf(req[r].target) /\ req[r].target \in Targets
  BY <1>1 DEF Gating
<1>3. RowInv(challenge[c], spent[c])
  BY <1>2 DEF AssuranceInv
<1>4. /\ ~challenge[c].executed /\ challenge' = [challenge EXCEPT ![c] = x]
      /\ req' = [req EXCEPT ![r] = Idle] /\ spent' = [spent EXCEPT ![c] = spent[c] + 1]
  BY <1>2 DEF claimAssuranceGrantExecution, done, become, AssuranceInv
<1>5. spent[c] = 0
  BY <1>3, <1>4 DEF RowInv
<1>6. /\ RowInv(x, 1) /\ x.consumed = challenge[c].consumed /\ x.issued = challenge[c].issued
      /\ x.operation = challenge[c].operation /\ x.old = challenge[c].old
  BY <1>2, <1>3, OperationOfProposal DEF RowInv, IsRow, Hardened
<1> HIDE DEF x, c
<1>7. spent' = [spent EXCEPT ![c] = 1]
  BY <1>4, <1>5
<1>8. AssuranceInv'
  BY <1>2, <1>4, <1>6, <1>7, RowMoves, IdleHandles
<1>9. Token!Spend(c)
  BY <1>2, <1>4, <1>5, <1>6, <1>7 DEF Token!Spend, stageOf, AssuranceInv
<1> QED
  BY <1>2, <1>8, <1>9

LEMMA AgesWrites ==
    ASSUME AssuranceInv, NEW c \in Challenges, ages(c)
    PROVE  AssuranceInv' /\ Token!Lapse(c)
<1> DEFINE x == [challenge[c] EXCEPT !.old = TRUE]
<1>1. RowInv(challenge[c], spent[c])
  BY DEF AssuranceInv
<1>2. /\ challenge[c].issued /\ challenge' = [challenge EXCEPT ![c] = x] /\ UNCHANGED <<spent, req>>
  BY DEF ages
<1>3. /\ RowInv(x, spent[c]) /\ x.consumed = challenge[c].consumed /\ x.issued /\ x.old
      /\ x.operation = challenge[c].operation
  BY <1>1, <1>2 DEF RowInv, IsRow, Hardened
<1> HIDE DEF x
<1>4. spent' = [spent EXCEPT ![c] = spent[c]] /\ challenge[c].issued
  BY <1>2 DEF AssuranceInv
<1>5. ASSUME Requests = {} PROVE AssuranceInv'
  BY <1>2, <1>3, <1>4, <1>5 DEF AssuranceInv
<1>6. ASSUME NEW r \in Requests PROVE AssuranceInv'
  BY <1>2, <1>3, <1>4, RowMoves
<1>7. Token!Lapse(c)
  BY <1>2, <1>3, <1>4 DEF Token!Lapse, stageOf, AssuranceInv
<1> QED
  BY <1>5, <1>6, <1>7

(* A step keeps the invariant, and is a step of the tokens or a stutter. *)
LEMMA StepKeepsAndRefines ==
    ASSUME AssuranceInv, [Next]_assuranceVars
    PROVE  AssuranceInv' /\ [Token!Next]_(Token!tokenVars)
<1>1. CASE UNCHANGED assuranceVars
  BY <1>1 DEF assuranceVars, AssuranceInv, Token!tokenVars
<1>2. ASSUME UNCHANGED <<challenge, spent>> PROVE UNCHANGED Token!tokenVars
  BY <1>2 DEF Token!tokenVars
<1>3. CASE \/ \E r \in Requests : KeyStep(r) \/ fails(r)
           \/ identityChanges \/ didKeyChanges
  BY <1>2, <1>3, OthersKeepRows
<1>4. ASSUME NEW c \in Challenges, ages(c) PROVE AssuranceInv' /\ Token!Next
  BY <1>4, AgesWrites DEF Token!Next
<1>5. ASSUME NEW r \in Requests, ChallengeStep(r)
      PROVE  AssuranceInv' /\ [Token!Next]_(Token!tokenVars)
  <2>1. CASE \/ \E t \in Targets, context \in Contexts : issueAssuranceChallenge(r, t, context)
             \/ resolveActorCrypto(r) \/ resolvePublicKey(r)
    BY <1>2, <2>1, IssueReads
  <2>2. CASE \/ verifyIdentity(r)
             \/ \E signed \in BOOLEAN : verifyDid(r, signed) \/ verifyPqc(r, signed)
    BY <1>2, <2>2, VerifyReads
  <2>3. CASE markAssuranceHalfVerified(r)
    BY <2>3, MarkWrites
  <2>4. ASSUME NEW c \in Challenges,
               createAssuranceChallenge(r, c) \/ consumeAssuranceChallengeAtomic(r, c)
        PROVE  AssuranceInv' /\ Token!Next
    BY <2>4, CreateWrites, ConsumeWrites DEF Token!Next
  <2> QED
    BY <1>5, <2>1, <2>2, <2>3, <2>4 DEF ChallengeStep
<1>6. ASSUME NEW r \in Requests, GateStep(r)
      PROVE  AssuranceInv' /\ [Token!Next]_(Token!tokenVars)
  <2>1. CASE \/ \E t \in Targets, c \in Challenges : requireGovernanceAssurance(r, t, c)
             \/ findValidAssuranceGrant(r)
    BY <1>2, <2>1, GateReads
  <2>2. CASE claimAssuranceGrantExecution(r)
    BY <2>2, ClaimWrites DEF Token!Next
  <2> QED
    BY <1>6, <2>1, <2>2 DEF GateStep
<1> QED
  BY <1>1, <1>3, <1>4, <1>5, <1>6 DEF Next

(* The strengthening the two results below rest on: every row of           *)
(* assurance_challenges has the level its operation asks for and, once     *)
(* executed, was consumed and ran one operation; a handler that claims a   *)
(* grant read it consumed, for the operation it is about to run.           *)
THEOREM AssuranceInvariant == Spec => []AssuranceInv
<1>1. AssuranceInv /\ [Next]_assuranceVars => AssuranceInv'
  BY StepKeepsAndRefines
<1> QED
  BY <1>1, InitAssurance, PTL DEF Spec

(* Whatever circumstances a challenge was scored with, a burn, a forced    *)
(* transfer, a change of roles or a deactivation only passes               *)
(* requireGovernanceAssurance with a grant for the dual signature.         *)
THEOREM GateGetsItsLevelAlways == Spec => []GateGetsItsLevel
<1>1. AssuranceInv => GateGetsItsLevel
  <2> SUFFICES ASSUME AssuranceInv, NEW c \in Challenges, spent[c] > 0,
                      challenge[c].operation \notin {"PAUSE_REGISTRY", "UNPAUSE_REGISTRY"}
               PROVE  challenge[c].level = "QUANTUM_HARDENED"
    BY DEF GateGetsItsLevel
  <2>1. RowInv(challenge[c], spent[c])
    BY DEF AssuranceInv
  <2> QED
    BY <2>1 DEF RowInv, Hardened
<1> QED
  BY <1>1, AssuranceInvariant, PTL

(* Challenges and grants implement single-use tokens, for any number of    *)
(* challenges, handlers, proposals and keys: consumed once, before they    *)
(* expire, and claimed for at most one operation.                          *)
THEOREM GrantsImplement == Spec => GrantsImplementSingleUseToken
<1>1. Init => Token!Init
  BY DEF Init, Token!Init, stageOf, NoChallenge
<1>2. AssuranceInv /\ [Next]_assuranceVars => [Token!Next]_(Token!tokenVars)
  BY StepKeepsAndRefines
<1> QED
  BY <1>1, <1>2, AssuranceInvariant, PTL DEF Spec, GrantsImplementSingleUseToken, Token!Spec

(* A single-use token is spent at most once, and only after it was         *)
(* redeemed, however the operations of all tokens are ordered.             *)
THEOREM TokenSpentOnce == Token!Spec => []Token!SpentOnce
<1>1. Token!Init => Token!SpentOnce
  BY DEF Token!Init, Token!SpentOnce
<1>2. Token!SpentOnce /\ [Token!Next]_(Token!tokenVars) => Token!SpentOnce'
  <2> SUFFICES ASSUME Token!SpentOnce, [Token!Next]_(Token!tokenVars) PROVE Token!SpentOnce'
    OBVIOUS
  <2>1. CASE UNCHANGED Token!tokenVars
    BY <2>1 DEF Token!SpentOnce, Token!tokenVars
  <2>2. ASSUME NEW t \in Challenges,
               Token!Issue(t) \/ Token!Lapse(t) \/ Token!Redeem(t) \/ Token!Spend(t)
        PROVE  Token!SpentOnce'
    BY <2>2 DEF Token!SpentOnce, Token!Issue, Token!Lapse, Token!Redeem, Token!Spend
  <2> QED
    BY <2>1, <2>2 DEF Token!Next
<1> QED
  BY <1>1, <1>2, PTL DEF Token!Spec

(* Hence the bound of the abstract specification holds of the rows: a      *)
(* challenge carried at most one operation, and only once it was consumed. *)
COROLLARY GrantSpentOnce == Spec => []Token!SpentOnce
BY GrantsImplement, TokenSpentOnce, PTL DEF GrantsImplementSingleUseToken

---------------------------------------------------------------------------
(* The active key is one of the rows: the sets of the later generations    *)
(* are finite, so one of these sets is minimal, and it is empty.           *)
LEMMA LastGeneration ==
    ASSUME NEW n \in Nat, NEW S \in SUBSET (1 .. n), S # {}
    PROVE  (CHOOSE g \in S : \A h \in S : h <= g) \in S
<1> DEFINE Later(i) == {j \in S : j > i}
           Laters == {Later(i) : i \in S}
<1>1. Laters # {}
  OBVIOUS
<1>2. IsFiniteSet(1 .. n)
  BY FS_Interval
<1>3. Laters \subseteq FiniteSubsetsOf(1 .. n)
  <2>1. \A i \in S : Later(i) \in SUBSET (1 .. n)
    OBVIOUS
  <2> HIDE DEF Later
  <2> QED
    BY <1>2, <2>1, FS_Subset DEF FiniteSubsetsOf
<1>4. PICK X \in Laters : \A Y \in Laters : ~ (<<Y, X>> \in StrictSubsetOrdering(1 .. n))
  <2> HIDE DEF Laters
  <2> QED
    BY <1>1, <1>3, WFMin, FS_StrictSubsetOrderingWellFounded
<1>5. \A Y \in Laters : ~ (Y \subseteq X /\ Y # X)
  <2> HIDE DEF Laters
  <2> QED
    BY <1>3, <1>4 DEF StrictSubsetOrdering, FiniteSubsetsOf
<1>6. PICK i \in S : X = Later(i)
  OBVIOUS
<1>7. \A j \in S : j <= i
  <2> SUFFICES ASSUME NEW j \in S, ~ (j <= i) PROVE FALSE
    OBVIOUS
  <2>1. S \subseteq Nat
    OBVIOUS
  <2>2. j > i /\ ~ (j > j) /\ \A k \in S : k > j => k > i
    BY <2>1
  <2>3. j \in Later(i) /\ j \notin Later(j) /\ Later(j) \subseteq Later(i)
    BY <2>2
  <2> QED
    BY <1>5, <1>6, <2>3
<1> QED
  BY <1>7

LEMMA ActivePublicKey ==
    \/ activeGeneration = 0 /\ activePublicKey = "NONE"
    \/ /\ activeGeneration \in Generations
       /\ pqcKeys[activeGeneration].status = "ACTIVE"
       /\ activePublicKey = pqcKeys[activeGeneration].key
<1> DEFINE active == {g \in Generations : pqcKeys[g].status = "ACTIVE"}
<1>1. active \in SUBSET (1 .. MaxGeneration) /\ MaxGeneration \in Nat
  BY AssuranceAssumption DEF Generations
<1>2. CASE active = {}
  BY <1>2 DEF activeGeneration, activePublicKey
<1>3. CASE active # {}
  <2>1. activeGeneration \in active
    <3>1. (CHOOSE g \in active : \A h \in active : h <= g) \in active
      <4> HIDE DEF active
      <4> QED
        BY <1>1, <1>3, LastGeneration
    <3> QED
      BY <1>3, <3>1 DEF activeGeneration
  <2>2. activeGeneration # 0
    BY <1>1, <2>1 DEF Generations
  <2> QED
    BY <2>1, <2>2 DEF activePublicKey
<1> QED
  BY <1>2, <1>3

(* A key that was read for a challenge: the row of a later generation than *)
(* the first still holds that public key.                                  *)
HoldsKey(x, rows) ==
    /\ x.pqcKey = 0 => x.publicKey = "NONE"
    /\ x.pqcKey \notin {0, 1} => /\ x.pqcKey \in Generations
                                /\ rows[x.pqcKey].status # "NONE"
                                /\ rows[x.pqcKey].key = x.publicKey

LEMMA ActiveIsHeld ==
    ASSUME NEW x, x.pqcKey = activeGeneration, x.publicKey = activePublicKey
    PROVE  HoldsKey(x, pqcKeys)
<1>1. CASE activeGeneration = 0 /\ activePublicKey = "NONE"
  BY <1>1 DEF HoldsKey
<1>2. CASE /\ activeGeneration \in Generations
           /\ pqcKeys[activeGeneration].status = "ACTIVE"
           /\ activePublicKey = pqcKeys[activeGeneration].key
  <2>1. x.pqcKey \in Generations /\ x.pqcKey # 0
    BY <1>2, AssuranceAssumption DEF Generations
  <2>2. pqcKeys[x.pqcKey].status # "NONE"
    BY <1>2
  <2>3. pqcKeys[x.pqcKey].key = x.publicKey
    BY <1>2
  <2> QED
    BY <2>1, <2>2, <2>3 DEF HoldsKey
<1> QED
  BY <1>1, <1>2, ActivePublicKey

LEMMA HeldIsActive ==
    ASSUME NEW x, HoldsKey(x, pqcKeys), activeGeneration = x.pqcKey, activeGeneration # 1
    PROVE  activePublicKey = x.publicKey
<1>1. CASE activeGeneration = 0 /\ activePublicKey = "NONE"
  BY <1>1 DEF HoldsKey
<1>2. CASE /\ activeGeneration \in Generations
           /\ activePublicKey = pqcKeys[activeGeneration].key
  <2>1. x.pqcKey # 0
    BY <1>2, AssuranceAssumption DEF Generations
  <2>2. pqcKeys[x.pqcKey].key = x.publicKey
    BY <2>1 DEF HoldsKey
  <2> QED
    BY <1>2, <2>2
<1> QED
  BY <1>1, <1>2, ActivePublicKey

IssueSteps == {"resolveActorCrypto", "resolvePublicKey", "createAssuranceChallenge"}

KeyInv ==
    /\ pqcKeys = [g \in Generations |-> [status |-> pqcKeys[g].status, key |-> pqcKeys[g].key]]
    /\ \A c \in Challenges : HoldsKey(challenge[c], pqcKeys)
    /\ \A r \in Requests : req[r].pc \in IssueSteps => HoldsKey(req[r], pqcKeys)

LEMMA InitKeys == Init => KeyInv
BY DEF Init, KeyInv, HoldsKey, NoChallenge, Idle, IssueSteps

LEMMA StatusAlone ==
    ASSUME NEW x, x = [status |-> x.status, key |-> x.key], NEW s
    PROVE  [x EXCEPT !.status = s] = [status |-> s, key |-> x.key]
OBVIOUS

(* A row of a later generation keeps its public key, whoever writes it.    *)
LEMMA LaterRowsKeepTheirKey ==
    ASSUME KeyInv, Next
    PROVE  /\ pqcKeys' = [g \in Generations |-> [status |-> pqcKeys'[g].status, key |-> pqcKeys'[g].key]]
           /\ \A g \in Generations \ {1} : pqcKeys[g].status # "NONE" =>
                 pqcKeys'[g].status # "NONE" /\ pqcKeys'[g].key = pqcKeys[g].key
<1>1. \A g \in Generations : pqcKeys[g] = [status |-> pqcKeys[g].status, key |-> pqcKeys[g].key]
  BY DEF KeyInv
<1>2. CASE UNCHANGED pqcKeys
  BY <1>2 DEF KeyInv
<1>3. ASSUME NEW r, registerPqcKeyRecord(r)
      PROVE  /\ pqcKeys' = [g \in Generations |-> [status |-> pqcKeys'[g].status, key |-> pqcKeys'[g].key]]
             /\ \A g \in Generations \ {1} : pqcKeys'[g] = pqcKeys[g]
  <2>1. pqcKeys' = [pqcKeys EXCEPT ![1] = [status |-> "ACTIVE", key |-> req[r].key]]
    BY <1>3 DEF registerPqcKeyRecord
  <2> QED
    BY <1>1, <2>1 DEF KeyInv
<1>4. ASSUME NEW r, rotatePqcKeyRecord(r)
      PROVE  /\ pqcKeys' = [g \in Generations |-> [status |-> pqcKeys'[g].status, key |-> pqcKeys'[g].key]]
             /\ \A g \in Generations : pqcKeys[g].status # "NONE" =>
                   pqcKeys'[g].status # "NONE" /\ pqcKeys'[g].key = pqcKeys[g].key
  <2> DEFINE e == req[r].existing
             k == req[r].key
             to(g) == CASE g = e -> [pqcKeys[g] EXCEPT !.status = "ROTATED"]
                        [] g = e + 1 -> [status |-> "ACTIVE",
                                         key |-> IF pqcKeys[g].status = "NONE" THEN k ELSE pqcKeys[g].key]
                        [] OTHER -> pqcKeys[g]
  <2>1. pqcKeys' = [g \in Generations |-> to(g)]
    BY <1>4 DEF rotatePqcKeyRecord
  <2>2. ASSUME NEW g \in Generations
        PROVE  /\ to(g) = [status |-> to(g).status, key |-> to(g).key]
               /\ pqcKeys[g].status # "NONE" =>
                     to(g).status # "NONE" /\ to(g).key = pqcKeys[g].key
    <3>1. CASE g = e
      <4>1. g # e + 1
        BY <3>1, AssuranceAssumption DEF Generations
      <4>2. to(g) = [pqcKeys[g] EXCEPT !.status = "ROTATED"]
        BY <3>1, <4>1
      <4>3. to(g) = [status |-> "ROTATED", key |-> pqcKeys[g].key]
        BY <1>1, <4>2, StatusAlone
      <4> HIDE DEF to
      <4> QED
        BY <4>3
    <3>2. CASE g # e /\ g = e + 1
      BY <1>1, <3>2
    <3>3. CASE g # e /\ g # e + 1
      BY <1>1, <3>3
    <3> QED
      BY <3>1, <3>2, <3>3
  <2> HIDE DEF to
  <2> QED
    BY <2>1, <2>2
<1>5. ASSUME NEW r, setPqcKeyStatus(r)
      PROVE  /\ pqcKeys' = [g \in Generations |-> [status |-> pqcKeys'[g].status, key |-> pqcKeys'[g].key]]
             /\ \A g \in Generations : pqcKeys[g].status # "NONE" =>
                   pqcKeys'[g].status # "NONE" /\ pqcKeys'[g].key = pqcKeys[g].key
  <2> DEFINE to(g) == [pqcKeys[g] EXCEPT !.status = IF pqcKeys[g].status = "NONE" THEN "NONE" ELSE "REVOKED"]
  <2>1. pqcKeys' = [g \in Generations |-> to(g)]
    BY <1>5 DEF setPqcKeyStatus
  <2>2. ASSUME NEW g \in Generations
        PROVE  /\ to(g) = [status |-> to(g).status, key |-> to(g).key]
               /\ pqcKeys[g].status # "NONE" =>
                     to(g).status # "NONE" /\ to(g).key = pqcKeys[g].key
    <3>1. to(g) = [status |-> IF pqcKeys[g].status = "NONE" THEN "NONE" ELSE "REVOKED",
                   key |-> pqcKeys[g].key]
      BY <1>1, StatusAlone
    <3> HIDE DEF to
    <3> QED
      BY <3>1
  <2> HIDE DEF to
  <2> QED
    BY <2>1, <2>2
<1>6. \/ UNCHANGED pqcKeys
      \/ \E r \in Requests : registerPqcKeyRecord(r) \/ rotatePqcKeyRecord(r) \/ setPqcKeyStatus(r)
  BY DEF Next, ChallengeStep, GateStep, KeyStep, keyVars, issueAssuranceChallenge,
         resolveActorCrypto, resolvePublicKey, createAssuranceChallenge,
         consumeAssuranceChallengeAtomic, verifyIdentity, verifyDid, verifyPqc,
         markAssuranceHalfVerified, requireGovernanceAssurance, findValidAssuranceGrant,
         claimAssuranceGrantExecution, registerRead, revokeRead, fails, ages,
         identityChanges, didKeyChanges
<1>7. CASE UNCHANGED pqcKeys
  BY <1>7, <1>2
<1>8. CASE \E r \in Requests : registerPqcKeyRecord(r)
  BY <1>3, <1>8
<1>9. CASE \E r \in Requests : rotatePqcKeyRecord(r)
  BY <1>4, <1>9
<1>10. CASE \E r \in Requests : setPqcKeyStatus(r)
  BY <1>5, <1>10
<1> QED
  BY <1>6, <1>7, <1>8, <1>9, <1>10

---------------------------------------------------------------------------
VerifySteps == {"verifyIdentity", "verifyDid", "verifyPqc", "markAssuranceHalfVerified"}

(* What a handler of assurance.verify has seen by the step it is at; a     *)
(* half that it holds for verified, it saw with the key of the challenge.  *)
Saw(h, facts_seen) ==
    /\ h.pc \in {"verifyIdentity", "verifyDid"} => h.ecdsa = FALSE
    /\ h.pc \in {"verifyIdentity", "verifyDid", "verifyPqc"} => h.pqc = FALSE
    /\ h.pc \in {"verifyDid", "verifyPqc"} => "identity" \in facts_seen
    /\ h.pc = "verifyPqc" => "ecdsa" \in facts_seen
    /\ h.pc = "markAssuranceHalfVerified" =>
          /\ h.ecdsa => {"identity", "ecdsa"} \subseteq facts_seen
          /\ h.pqc => "pqc" \in facts_seen \/ "reregistered" \in facts_seen

SawInv == \A r \in Requests : Saw(req[r], seen[r])

(* What a verification saw stays seen until it ends. *)
LEMMA SeenGrows ==
    ASSUME observe, NEW r \in Requests, req'[r].pc \in VerifySteps
    PROVE  /\ seen[r] \subseteq seen'[r]
           /\ facts(req[r].challenge)' \subseteq seen'[r]
BY DEF observe, verifying, VerifySteps

LEMMA UntouchedStillSaw ==
    ASSUME observe, SawInv, NEW r \in Requests, req'[r] = req[r]
    PROVE  Saw(req[r], seen[r])'
<1>1. CASE req[r].pc \in VerifySteps
  BY <1>1, SeenGrows DEF SawInv, Saw
<1>2. CASE req[r].pc \notin VerifySteps
  BY <1>2 DEF Saw, VerifySteps
<1> QED
  BY <1>1, <1>2

(* The steps between the consumption and the result: each reads a key and  *)
(* leaves it as it is.                                                     *)
LEMMA VerificationSees ==
    ASSUME observe, AssuranceInv, KeyInv, SawInv, NEW r \in Requests,
           \/ verifyIdentity(r)
           \/ \E signed \in BOOLEAN : verifyDid(r, signed) \/ verifyPqc(r, signed)
    PROVE  Saw(req[r], seen[r])'
<1>1. \A h : become(r, h) => req'[r] = h
  BY DEF become, AssuranceInv
<1>2. Verifying(req[r])
  BY DEF verifyIdentity, verifyDid, verifyPqc, at, AssuranceInv, Handler, Issuing, Gating
<1>3. Saw(req[r], seen[r])
  BY DEF SawInv
<1>4. UNCHANGED <<keyVars, challenge>>
  BY DEF verifyIdentity, verifyDid, verifyPqc
<1>5. CASE verifyIdentity(r)
  <2>1. req[r].pc = "verifyIdentity" /\ identityActive' /\ req'[r] = [req[r] EXCEPT !.pc = "verifyDid"]
    BY <1>1, <1>4, <1>5 DEF verifyIdentity, at, goto, keyVars
  <2>2. req'[r].pc = "verifyDid" /\ req'[r].ecdsa = req[r].ecdsa /\ req'[r].pqc = req[r].pqc
    BY <1>2, <2>1 DEF Verifying
  <2>3. "identity" \in facts(req[r].challenge)'
    BY <2>1 DEF facts
  <2> QED
    BY <1>3, <2>1, <2>2, <2>3, SeenGrows DEF Saw, VerifySteps
<1>6. ASSUME NEW signed \in BOOLEAN, verifyDid(r, signed) PROVE Saw(req[r], seen[r])'
  <2> DEFINE pc == IF signed /\ challenge[req[r].challenge].level = "QUANTUM_HARDENED"
                   THEN "verifyPqc" ELSE "markAssuranceHalfVerified"
  <2>1. /\ req[r].pc = "verifyDid" /\ req'[r] = [req[r] EXCEPT !.ecdsa = signed, !.pc = pc]
        /\ didKey.active /\ didKey.generation = challenge[req[r].challenge].ecdsaKey
    BY <1>1, <1>6 DEF verifyDid, at
  <2>2. /\ req'[r].pc = pc /\ req'[r].ecdsa = signed /\ req'[r].pqc = req[r].pqc
        /\ req'[r].challenge = req[r].challenge
    BY <1>2, <2>1 DEF Verifying
  <2>3. "ecdsa" \in facts(req[r].challenge)'
    BY <1>4, <2>1, <2>2 DEF facts, keyVars
  <2>4. pc \in {"verifyPqc", "markAssuranceHalfVerified"}
    OBVIOUS
  <2>5. {"identity", "ecdsa"} \subseteq seen'[r]
    BY <1>3, <2>1, <2>2, <2>3, <2>4, SeenGrows DEF Saw, VerifySteps
  <2>6. req[r].pqc = FALSE
    BY <1>3, <2>1 DEF Saw
  <2> HIDE DEF pc
  <2> QED
    BY <2>2, <2>4, <2>5, <2>6 DEF Saw
<1>7. ASSUME NEW signed \in BOOLEAN, verifyPqc(r, signed) PROVE Saw(req[r], seen[r])'
  <2> DEFINE p == signed /\ activeGeneration = challenge[req[r].challenge].pqcKey
  <2>1. /\ req[r].pc = "verifyPqc"
        /\ req'[r] = [req[r] EXCEPT !.pc = "markAssuranceHalfVerified", !.pqc = p]
    BY <1>1, <1>7 DEF verifyPqc, at
  <2>2. /\ req'[r].pc = "markAssuranceHalfVerified" /\ req'[r].pqc = p
        /\ req'[r].challenge = req[r].challenge
    BY <1>2, <2>1 DEF Verifying
  <2>3. p => {"pqc", "reregistered"} \cap facts(req[r].challenge)' # {}
    <3>1. activeGeneration' = activeGeneration /\ activePublicKey' = activePublicKey
      BY <1>4 DEF activeGeneration, activePublicKey, keyVars
    <3>2. req[r].challenge \in Challenges
      BY <1>2 DEF Verifying
    <3>3. HoldsKey(challenge[req[r].challenge], pqcKeys)
      BY <3>2 DEF KeyInv
    <3>4. p => \/ activePublicKey = challenge[req[r].challenge].publicKey
               \/ activeGeneration = 1
      BY <3>3, HeldIsActive
    <3> QED
      BY <1>4, <2>2, <3>1, <3>4 DEF facts
  <2>4. /\ {"identity", "ecdsa"} \subseteq seen'[r]
        /\ p => "pqc" \in seen'[r] \/ "reregistered" \in seen'[r]
    BY <1>3, <2>1, <2>2, <2>3, SeenGrows DEF Saw, VerifySteps
  <2> HIDE DEF p
  <2> QED
    BY <2>2, <2>4 DEF Saw
<1> QED
  BY <1>5, <1>6, <1>7

(* Every other step of a handler ends outside a verification, or starts    *)
(* one that holds nothing for verified yet.                                *)
LEMMA OutsideVerification ==
    ASSUME AssuranceInv, NEW r \in Requests,
           \/ \E t \in Targets, context \in Contexts : issueAssuranceChallenge(r, t, context)
           \/ resolveActorCrypto(r) \/ resolvePublicKey(r)
           \/ \E c \in Challenges :
                 createAssuranceChallenge(r, c) \/ consumeAssuranceChallengeAtomic(r, c)
           \/ markAssuranceHalfVerified(r)
           \/ GateStep(r) \/ KeyStep(r) \/ fails(r)
    PROVE  \A s : Saw(req'[r], s)
<1>0. \A h : become(r, h) => req'[r] = h
  BY DEF become, AssuranceInv
<1>1. ASSUME req'[r].pc \notin VerifySteps PROVE \A s : Saw(req'[r], s)
  BY <1>1 DEF Saw, VerifySteps
<1>2. CASE done(r)
  BY <1>0, <1>1, <1>2 DEF done, Idle, VerifySteps
<1>3. ASSUME NEW t, NEW context, issueAssuranceChallenge(r, t, context)
      PROVE  \A s : Saw(req'[r], s)
  <2>1. req'[r] = [pc |-> "resolveActorCrypto", target |-> t, level |-> challengeLevel(t, context),
                   ecdsaKey |-> 0, pqcKey |-> 0, publicKey |-> "NONE"]
    BY <1>0, <1>3 DEF issueAssuranceChallenge
  <2>2. req'[r].pc = "resolveActorCrypto"
    BY <2>1
  <2> QED
    BY <1>1, <2>2 DEF VerifySteps
<1>4. CASE resolveActorCrypto(r) \/ resolvePublicKey(r)
  <2>1. Issuing(req[r])
    BY <1>4 DEF resolveActorCrypto, resolvePublicKey, at, AssuranceInv, Handler, Verifying, Gating
  <2>2. \E e, k : \E pc \in {"resolvePublicKey", "createAssuranceChallenge"} :
          \/ req'[r] = [req[r] EXCEPT !.ecdsaKey = e, !.pc = pc]
          \/ req'[r] = [req[r] EXCEPT !.pqcKey = e, !.publicKey = k, !.pc = pc]
    BY <1>0, <1>4 DEF resolveActorCrypto, resolvePublicKey
  <2>3. req'[r].pc \in {"resolvePublicKey", "createAssuranceChallenge"}
    BY <2>1, <2>2 DEF Issuing
  <2> QED
    BY <1>1, <2>3 DEF VerifySteps
<1>5. ASSUME NEW c, consumeAssuranceChallengeAtomic(r, c) PROVE \A s : Saw(req'[r], s)
  <2>1. req'[r] = [pc |-> "verifyIdentity", challenge |-> c, ecdsa |-> FALSE, pqc |-> FALSE]
    BY <1>0, <1>5 DEF consumeAssuranceChallengeAtomic
  <2> QED
    BY <2>1 DEF Saw
<1>6. CASE (\E c \in Challenges : createAssuranceChallenge(r, c)) \/ markAssuranceHalfVerified(r)
           \/ claimAssuranceGrantExecution(r) \/ fails(r)
  BY <1>2, <1>6 DEF createAssuranceChallenge, markAssuranceHalfVerified,
                    claimAssuranceGrantExecution, fails
<1>7. ASSUME NEW t, NEW c, requireGovernanceAssurance(r, t, c) PROVE \A s : Saw(req'[r], s)
  <2>1. req'[r] = [pc |-> "findValidAssuranceGrant", target |-> t, grant |-> c]
    BY <1>0, <1>7 DEF requireGovernanceAssurance
  <2>2. req'[r].pc = "findValidAssuranceGrant"
    BY <2>1
  <2> QED
    BY <1>1, <2>2 DEF VerifySteps
<1>8. CASE findValidAssuranceGrant(r)
  <2>1. Gating(req[r], challenge)
    BY <1>8 DEF findValidAssuranceGrant, at, AssuranceInv, Handler, Issuing, Verifying
  <2>2. req'[r].pc = "claimAssuranceGrantExecution"
    BY <1>0, <1>8, <2>1 DEF findValidAssuranceGrant, goto, Gating
  <2> QED
    BY <1>1, <2>2 DEF VerifySteps
<1>9. CASE KeyStep(r)
  <2>1. ASSUME NEW k, registerRead(r, k) PROVE \A s : Saw(req'[r], s)
    <3>1. req'[r] = [pc |-> "registerWrite", key |-> k, existing |-> activeGeneration]
      BY <1>0, <2>1 DEF registerRead
    <3>2. req'[r].pc = "registerWrite"
      BY <3>1
    <3> QED
      BY <1>1, <3>2 DEF VerifySteps
  <2>2. CASE revokeRead(r)
    BY <1>0, <1>1, <2>2 DEF revokeRead, VerifySteps
  <2>3. CASE registerPqcKeyRecord(r) \/ rotatePqcKeyRecord(r) \/ setPqcKeyStatus(r)
    BY <1>2, <2>3 DEF registerPqcKeyRecord, rotatePqcKeyRecord, setPqcKeyStatus
  <2> QED
    BY <1>9, <2>1, <2>2, <2>3 DEF KeyStep
<1> QED
  BY <1>3, <1>4, <1>5, <1>6, <1>7, <1>8, <1>9 DEF GateStep

LEMMA StepMovesOneHandler ==
    ASSUME AssuranceInv, NEW s \in Requests,
           ChallengeStep(s) \/ GateStep(s) \/ KeyStep(s) \/ fails(s),
           NEW r \in Requests, r # s
    PROVE  req'[r] = req[r]
<1>1. \E h : become(s, h)
  BY DEF ChallengeStep, GateStep, KeyStep, issueAssuranceChallenge, resolveActorCrypto,
         resolvePublicKey, createAssuranceChallenge, consumeAssuranceChallengeAtomic,
         verifyIdentity, verifyDid, verifyPqc, markAssuranceHalfVerified,
         requireGovernanceAssurance, findValidAssuranceGrant, claimAssuranceGrantExecution,
         registerRead, registerPqcKeyRecord, rotatePqcKeyRecord, revokeRead, setPqcKeyStatus,
         fails, done, goto
<1> QED
  BY <1>1 DEF become, AssuranceInv

(* What was read for a challenge is copied from the handler to the row and *)
(* never changes afterwards.                                               *)
LEMMA RowsHoldKeys ==
    ASSUME AssuranceInv, KeyInv, Next, NEW c \in Challenges
    PROVE  HoldsKey(challenge'[c], pqcKeys)
<1>1. HoldsKey(challenge[c], pqcKeys) /\ \A d \in Challenges : IsRow(challenge[d])
  BY DEF KeyInv, AssuranceInv, RowInv
<1>2. CASE UNCHANGED challenge
  BY <1>1, <1>2
<1>3. ASSUME NEW d \in Challenges, NEW x, challenge' = [challenge EXCEPT ![d] = x],
             x.pqcKey = challenge[d].pqcKey, x.publicKey = challenge[d].publicKey
      PROVE  HoldsKey(challenge'[c], pqcKeys)
  <2>1. challenge'[c] = IF c = d THEN x ELSE challenge[c]
    BY <1>3 DEF AssuranceInv
  <2> QED
    BY <1>1, <1>3, <2>1 DEF HoldsKey
<1>4. ASSUME NEW r \in Requests, NEW d \in Challenges, createAssuranceChallenge(r, d)
      PROVE  HoldsKey(challenge'[c], pqcKeys)
  <2> DEFINE x == [NoChallenge EXCEPT !.issued = TRUE, !.level = req[r].level,
                              !.operation = operationOf(req[r].target),
                              !.resource = resourceOf(req[r].target),
                              !.ecdsaKey = req[r].ecdsaKey, !.pqcKey = req[r].pqcKey,
                              !.publicKey = req[r].publicKey]
  <2>1. challenge' = [challenge EXCEPT ![d] = x] /\ HoldsKey(req[r], pqcKeys)
    BY <1>4 DEF createAssuranceChallenge, at, KeyInv, IssueSteps
  <2>2. x.pqcKey = req[r].pqcKey /\ x.publicKey = req[r].publicKey
    BY DEF NoChallenge
  <2> HIDE DEF x
  <2>3. challenge'[c] = IF c = d THEN x ELSE challenge[c]
    BY <2>1 DEF AssuranceInv
  <2> QED
    BY <1>1, <2>1, <2>2, <2>3 DEF HoldsKey
<1>5. ASSUME NEW r \in Requests, NEW d \in Challenges, consumeAssuranceChallengeAtomic(r, d)
      PROVE  HoldsKey(challenge'[c], pqcKeys)
  <2> DEFINE x == [challenge[d] EXCEPT !.consumed = TRUE]
  <2>1. challenge' = [challenge EXCEPT ![d] = x]
    BY <1>5 DEF consumeAssuranceChallengeAtomic
  <2>2. x.pqcKey = challenge[d].pqcKey /\ x.publicKey = challenge[d].publicKey
    BY <1>1 DEF IsRow
  <2> HIDE DEF x
  <2> QED
    BY <1>3, <2>1, <2>2
<1>6. ASSUME NEW r \in Requests, markAssuranceHalfVerified(r)
      PROVE  HoldsKey(challenge'[c], pqcKeys)
  <2>1. req[r].challenge \in Challenges
    BY <1>6 DEF markAssuranceHalfVerified, at, AssuranceInv, Handler, Issuing, Gating, Verifying
  <2>2. PICK d \in Challenges : d = req[r].challenge
    BY <2>1
  <2> DEFINE x == [challenge[d] EXCEPT !.ecdsaVerified = req[r].ecdsa, !.pqcVerified = req[r].pqc]
  <2>3. challenge' = [challenge EXCEPT ![d] = x]
    BY <1>1, <1>6, <2>2 DEF markAssuranceHalfVerified, AssuranceInv
  <2>4. x.pqcKey = challenge[d].pqcKey /\ x.publicKey = challenge[d].publicKey
    BY <1>1 DEF IsRow
  <2> HIDE DEF x
  <2> QED
    BY <1>3, <2>3, <2>4
<1>7. ASSUME NEW r \in Requests, claimAssuranceGrantExecution(r)
      PROVE  HoldsKey(challenge'[c], pqcKeys)
  <2>1. req[r].grant \in Challenges
    BY <1>7 DEF claimAssuranceGrantExecution, at, AssuranceInv, Handler, Issuing, Verifying, Gating
  <2>2. PICK d \in Challenges : d = req[r].grant
    BY <2>1
  <2> DEFINE x == [challenge[d] EXCEPT !.executed = TRUE]
  <2>3. challenge' = [challenge EXCEPT ![d] = x]
    BY <1>7, <2>2 DEF claimAssuranceGrantExecution
  <2>4. x.pqcKey = challenge[d].pqcKey /\ x.publicKey = challenge[d].publicKey
    BY <1>1 DEF IsRow
  <2> HIDE DEF x
  <2> QED
    BY <1>3, <2>3, <2>4
<1>8. ASSUME NEW d \in Challenges, ages(d) PROVE HoldsKey(challenge'[c], pqcKeys)
  <2> DEFINE x == [challenge[d] EXCEPT !.old = TRUE]
  <2>1. challenge' = [challenge EXCEPT ![d] = x]
    BY <1>8 DEF ages
  <2>2. x.pqcKey = challenge[d].pqcKey /\ x.publicKey = challenge[d].publicKey
    BY <1>1 DEF IsRow
  <2> HIDE DEF x
  <2> QED
    BY <1>3, <2>1, <2>2
<1>9. \/ UNCHANGED challenge
      \/ \E r \in Requests, d \in Challenges :
            createAssuranceChallenge(r, d) \/ consumeAssuranceChallengeAtomic(r, d)
      \/ \E r \in Requests : markAssuranceHalfVerified(r) \/ claimAssuranceGrantExecution(r)
      \/ \E d \in Challenges : ages(d)
  BY DEF Next, ChallengeStep, GateStep, KeyStep, issueAssuranceChallenge, resolveActorCrypto,
         resolvePublicKey, verifyIdentity, verifyDid, verifyPqc, requireGovernanceAssurance,
         findValidAssuranceGrant, registerRead, registerPqcKeyRecord, rotatePqcKeyRecord,
         revokeRead, setPqcKeyStatus, fails, identityChanges, didKeyChanges
<1> QED
  BY <1>2, <1>4, <1>5, <1>6, <1>7, <1>8, <1>9

(* Every step but those of assurance.challenge leaves a handler elsewhere. *)
LEMMA OutsideIssue ==
    ASSUME AssuranceInv, NEW r \in Requests,
           \/ \E c \in Challenges :
                 createAssuranceChallenge(r, c) \/ consumeAssuranceChallengeAtomic(r, c)
           \/ verifyIdentity(r)
           \/ \E signed \in BOOLEAN : verifyDid(r, signed) \/ verifyPqc(r, signed)
           \/ markAssuranceHalfVerified(r)
           \/ GateStep(r) \/ KeyStep(r) \/ fails(r)
    PROVE  req'[r].pc \notin IssueSteps
<1>0. \A h : become(r, h) => req'[r] = h
  BY DEF become, AssuranceInv
<1>1. CASE done(r)
  BY <1>0, <1>1 DEF done, Idle, IssueSteps
<1>2. ASSUME NEW c, consumeAssuranceChallengeAtomic(r, c) PROVE req'[r].pc \notin IssueSteps
  <2>1. req'[r] = [pc |-> "verifyIdentity", challenge |-> c, ecdsa |-> FALSE, pqc |-> FALSE]
    BY <1>0, <1>2 DEF consumeAssuranceChallengeAtomic
  <2>2. req'[r].pc = "verifyIdentity"
    BY <2>1
  <2> QED
    BY <2>2 DEF IssueSteps
<1>3. CASE verifyIdentity(r) \/ \E signed \in BOOLEAN : verifyDid(r, signed) \/ verifyPqc(r, signed)
  <2>1. Verifying(req[r])
    BY <1>3 DEF verifyIdentity, verifyDid, verifyPqc, at, AssuranceInv, Handler, Issuing, Gating
  <2>2. \E e, p : \E pc \in {"verifyDid", "verifyPqc", "markAssuranceHalfVerified"} :
          \/ req'[r] = [req[r] EXCEPT !.pc = pc]
          \/ req'[r] = [req[r] EXCEPT !.ecdsa = e, !.pc = pc]
          \/ req'[r] = [req[r] EXCEPT !.pc = pc, !.pqc = p]
    BY <1>0, <1>3 DEF verifyIdentity, goto, verifyDid, verifyPqc
  <2>3. req'[r].pc \in {"verifyDid", "verifyPqc", "markAssuranceHalfVerified"}
    BY <2>1, <2>2 DEF Verifying
  <2> QED
    BY <2>3 DEF IssueSteps
<1>4. CASE (\E c \in Challenges : createAssuranceChallenge(r, c)) \/ markAssuranceHalfVerified(r)
           \/ claimAssuranceGrantExecution(r) \/ fails(r)
  BY <1>1, <1>4 DEF createAssuranceChallenge, markAssuranceHalfVerified,
                    claimAssuranceGrantExecution, fails
<1>5. ASSUME NEW t, NEW c, requireGovernanceAssurance(r, t, c) PROVE req'[r].pc \notin IssueSteps
  <2>1. req'[r] = [pc |-> "findValidAssuranceGrant", target |-> t, grant |-> c]
    BY <1>0, <1>5 DEF requireGovernanceAssurance
  <2>2. req'[r].pc = "findValidAssuranceGrant"
    BY <2>1
  <2> QED
    BY <2>2 DEF IssueSteps
<1>6. CASE findValidAssuranceGrant(r)
  <2>1. Gating(req[r], challenge)
    BY <1>6 DEF findValidAssuranceGrant, at, AssuranceInv, Handler, Issuing, Verifying
  <2>2. req'[r].pc = "claimAssuranceGrantExecution"
    BY <1>0, <1>6, <2>1 DEF findValidAssuranceGrant, goto, Gating
  <2> QED
    BY <2>2 DEF IssueSteps
<1>7. CASE KeyStep(r)
  <2>1. ASSUME NEW k, registerRead(r, k) PROVE req'[r].pc \notin IssueSteps
    <3>1. req'[r] = [pc |-> "registerWrite", key |-> k, existing |-> activeGeneration]
      BY <1>0, <2>1 DEF registerRead
    <3>2. req'[r].pc = "registerWrite"
      BY <3>1
    <3> QED
      BY <3>2 DEF IssueSteps
  <2>2. CASE revokeRead(r)
    BY <1>0, <2>2 DEF revokeRead, IssueSteps
  <2>3. CASE registerPqcKeyRecord(r) \/ rotatePqcKeyRecord(r) \/ setPqcKeyStatus(r)
    BY <1>1, <2>3 DEF registerPqcKeyRecord, rotatePqcKeyRecord, setPqcKeyStatus
  <2> QED
    BY <1>7, <2>1, <2>2, <2>3 DEF KeyStep
<1> QED
  BY <1>2, <1>3, <1>4, <1>5, <1>6, <1>7 DEF GateStep

(* The steps of assurance.challenge: it reads the key, if it needs one,    *)
(* while the key is active.                                                *)
LEMMA IssueHoldsKey ==
    ASSUME AssuranceInv, KeyInv, NEW r \in Requests,
           \/ \E t \in Targets, context \in Contexts : issueAssuranceChallenge(r, t, context)
           \/ resolveActorCrypto(r) \/ resolvePublicKey(r)
    PROVE  HoldsKey(req'[r], pqcKeys)
<1>0. \A h : become(r, h) => req'[r] = h
  BY DEF become, AssuranceInv
<1>1. ASSUME NEW t, NEW context, issueAssuranceChallenge(r, t, context)
      PROVE  HoldsKey(req'[r], pqcKeys)
  <2>1. req'[r] = [pc |-> "resolveActorCrypto", target |-> t, level |-> challengeLevel(t, context),
                   ecdsaKey |-> 0, pqcKey |-> 0, publicKey |-> "NONE"]
    BY <1>0, <1>1 DEF issueAssuranceChallenge
  <2>2. req'[r].pqcKey = 0 /\ req'[r].publicKey = "NONE"
    BY <2>1
  <2> QED
    BY <2>2 DEF HoldsKey
<1>2. CASE resolveActorCrypto(r) \/ resolvePublicKey(r)
  <2>1. Issuing(req[r])
    BY <1>2 DEF resolveActorCrypto, resolvePublicKey, at, AssuranceInv, Handler, Verifying, Gating
  <2>2. CASE resolveActorCrypto(r)
    <3>1. PICK e, pc : req'[r] = [req[r] EXCEPT !.ecdsaKey = e, !.pc = pc]
      BY <1>0, <2>2 DEF resolveActorCrypto
    <3>2. req'[r].pqcKey = req[r].pqcKey /\ req'[r].publicKey = req[r].publicKey
      BY <2>1, <3>1 DEF Issuing
    <3>3. HoldsKey(req[r], pqcKeys)
      BY <2>2 DEF resolveActorCrypto, at, KeyInv, IssueSteps
    <3> QED
      BY <3>2, <3>3 DEF HoldsKey
  <2>3. CASE resolvePublicKey(r)
    <3>1. req'[r] = [req[r] EXCEPT !.pqcKey = activeGeneration, !.publicKey = activePublicKey,
                                   !.pc = "createAssuranceChallenge"]
      BY <1>0, <2>3 DEF resolvePublicKey
    <3>2. req'[r].pqcKey = activeGeneration /\ req'[r].publicKey = activePublicKey
      BY <2>1, <3>1 DEF Issuing
    <3> QED
      BY <3>2, ActiveIsHeld
  <2> QED
    BY <1>2, <2>2, <2>3
<1> QED
  BY <1>1, <1>2

(* A key read for a challenge keeps its public key, unless it is that of   *)
(* the first generation.                                                   *)
LEMMA StepKeepsKeys == AssuranceInv /\ KeyInv /\ [Next]_assuranceVars => KeyInv'
<1> SUFFICES ASSUME AssuranceInv, KeyInv, [Next]_assuranceVars PROVE KeyInv'
  OBVIOUS
<1>1. CASE UNCHANGED assuranceVars
  BY <1>1 DEF assuranceVars, keyVars, KeyInv
<1>2. CASE Next
  <2>1. \A x : HoldsKey(x, pqcKeys) => HoldsKey(x, pqcKeys')
    <3> SUFFICES ASSUME NEW x, HoldsKey(x, pqcKeys) PROVE HoldsKey(x, pqcKeys')
      OBVIOUS
    <3> QED
      BY <1>2, LaterRowsKeepTheirKey DEF HoldsKey
  <2>2. ASSUME NEW r \in Requests, req'[r].pc \in IssueSteps
        PROVE  HoldsKey(req'[r], pqcKeys)
    <3>1. CASE req'[r] = req[r]
      BY <2>2, <3>1 DEF KeyInv
    <3>2. ASSUME NEW s \in Requests, ChallengeStep(s) \/ GateStep(s) \/ KeyStep(s) \/ fails(s)
          PROVE  HoldsKey(req'[r], pqcKeys)
      <4>1. CASE s # r
        BY <3>1, <3>2, <4>1, StepMovesOneHandler
      <4>2. CASE s = r
        BY <2>2, <3>2, <4>2, OutsideIssue, IssueHoldsKey DEF ChallengeStep
      <4> QED
        BY <4>1, <4>2
    <3>3. CASE (\E c \in Challenges : ages(c)) \/ identityChanges \/ didKeyChanges
      BY <3>1, <3>3 DEF ages, identityChanges, didKeyChanges
    <3> QED
      BY <1>2, <3>2, <3>3 DEF Next
  <2> QED
    BY <1>2, <2>1, <2>2, LaterRowsKeepTheirKey, RowsHoldKeys DEF KeyInv
<1> QED
  BY <1>1, <1>2

LEMMA StepKeepsSaw == AssuranceInv /\ KeyInv /\ SawInv /\ [Next]_assuranceVars => SawInv'
<1> SUFFICES ASSUME AssuranceInv, KeyInv, SawInv, [Next]_assuranceVars, NEW r \in Requests
             PROVE  Saw(req[r], seen[r])'
  BY DEF SawInv
<1>1. CASE UNCHANGED assuranceVars
  BY <1>1 DEF assuranceVars, SawInv, Saw
<1>2. ASSUME observe, NEW s \in Requests,
             ChallengeStep(s) \/ GateStep(s) \/ KeyStep(s) \/ fails(s)
      PROVE  Saw(req[r], seen[r])'
  <2>1. CASE s # r
    BY <1>2, <2>1, StepMovesOneHandler, UntouchedStillSaw
  <2>2. CASE s = r
    BY <1>2, <2>2, VerificationSees, OutsideVerification DEF ChallengeStep
  <2> QED
    BY <2>1, <2>2
<1>3. CASE observe /\ ((\E c \in Challenges : ages(c)) \/ identityChanges \/ didKeyChanges)
  <2>1. req' = req
    BY <1>3 DEF ages, identityChanges, didKeyChanges
  <2> QED
    BY <1>3, <2>1, UntouchedStillSaw
<1> QED
  BY <1>1, <1>2, <1>3 DEF Next

(* assurance.verify never records a half as verified with a key that was   *)
(* revoked or rotated before the challenge was consumed and not activated  *)
(* again, or for an identity that was inactive ever since, however its     *)
(* reads interleave with the routes that change keys and identities; and   *)
(* the post-quantum half was checked with the public key the challenge was *)
(* issued for, or with another one registered as the first generation.     *)
THEOREM VerificationsSawTheirKeys == Spec => []VerificationSawItsKeys
<1>1. Init => SawInv
  BY DEF Init, SawInv, Saw, Idle
<1>2. SawInv => VerificationSawItsKeys
  BY DEF SawInv, Saw, VerificationSawItsKeys, at
<1> QED
  BY <1>1, <1>2, InitKeys, StepKeepsKeys, StepKeepsSaw, AssuranceInvariant, PTL DEF Spec

=============================================================================
