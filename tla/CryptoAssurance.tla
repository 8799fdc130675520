--------------------------- MODULE CryptoAssurance ---------------------------
(***************************************************************************)
(* Assurance challenges and grants of one identity, its post-quantum keys, *)
(* and the gate that governance proposals pass: assurance.service.ts, the  *)
(* routes of assurance.router.ts, requireGovernanceAssurance.  Every await *)
(* is a step of its own, handlers interleave, and any of them may end      *)
(* where it is.  The key provider is the one of production, which only     *)
(* knows registered keys.  A signature over the stored message is the      *)
(* holder's or it is not.                                                  *)
(***************************************************************************)
EXTENDS AssurancePolicy, FiniteSets

CONSTANTS
    Requests,           \* handlers that can run at the same time
    Challenges,         \* rows of assurance_challenges
    Keys,               \* post-quantum public keys
    Assets,             \* assets that proposals are about
    Classification,     \* asset -> its classification in the read model
    Targets,            \* what is proposed: [kind, asset]
    Contexts,           \* the circumstances challenges are asked with
    NoAsset,            \* a proposal without an asset
    MaxGeneration       \* bound: key generations

ASSUME AssuranceAssumption ==
    /\ NoAsset \notin Assets
    /\ \A t \in Targets : t.kind \in DOMAIN GOVERNANCE_KIND_TO_OPERATION
                          /\ t.asset \in Assets \cup {NoAsset}
    /\ \A a \in Assets : Classification[a] \in DOMAIN CLASSIFICATION_WEIGHT
    /\ MaxGeneration \in Nat

VARIABLES
    identityActive,     \* the identity is ACTIVE and VERIFIED
    didKey,             \* the DID's signing key
    pqcKeys,            \* rows of pqc_key_records, by generation
    challenge,          \* the rows of assurance_challenges
    spent,              \* how many operations ran on a grant
    req,                \* request -> where its handler is and what it has read
    seen                \* request -> what was true since it consumed its challenge

keyVars == <<identityActive, didKey, pqcKeys>>
assuranceVars == <<keyVars, challenge, spent, req, seen>>

Generations == 1 .. MaxGeneration

NoChallenge == [
    issued |-> FALSE, operation |-> "NONE", resource |-> "NONE", level |-> "NONE",
    ecdsaKey |-> 0, pqcKey |-> 0, publicKey |-> "NONE", consumed |-> FALSE, executed |-> FALSE,
    old |-> FALSE, ecdsaVerified |-> FALSE, pqcVerified |-> FALSE]

Idle == [pc |-> "idle"]

Init ==
    /\ identityActive = TRUE
    /\ didKey = [active |-> TRUE, generation |-> 1]
    /\ pqcKeys = [g \in Generations |-> [status |-> "NONE", key |-> "NONE"]]
    /\ challenge = [c \in Challenges |-> NoChallenge]
    /\ spent = [c \in Challenges |-> 0]
    /\ req = [r \in Requests |-> Idle]
    /\ seen = [r \in Requests |-> {}]

at(r, pc) == req[r].pc = pc
become(r, h) == req' = [req EXCEPT ![r] = h]
goto(r, pc) == become(r, [req[r] EXCEPT !.pc = pc])
done(r) == become(r, Idle)

fails(r) ==
    /\ ~at(r, "idle")
    /\ done(r)
    /\ UNCHANGED <<keyVars, challenge, spent>>

(* getActivePqcKeyRecord: the newest ACTIVE row; 0 when there is none. A   *)
(* row is created after those of the generations before it.                *)
activeGeneration ==
    LET active == {g \in Generations : pqcKeys[g].status = "ACTIVE"}
    IN  IF active = {} THEN 0 ELSE CHOOSE g \in active : \A h \in active : h <= g

activePublicKey == IF activeGeneration = 0 THEN "NONE" ELSE pqcKeys[activeGeneration].key

(* What the grant for a proposal is bound to. *)
operationOf(t) == GOVERNANCE_KIND_TO_OPERATION[t.kind]
resourceOf(t) == IF t.asset = NoAsset THEN t.kind ELSE t.asset

---------------------------------------------------------------------------
(* assurance.challenge: scored with the circumstances the caller states,   *)
(* and with the first of the roles; nothing to prove for BASELINE.         *)
challengeLevel(t, context) ==
    evaluateAssurance([operation |-> operationOf(t), role |-> context.role,
                       classification |-> context.classification, risk |-> context.risk,
                       riskScore |-> context.riskScore, custody |-> context.custody,
                       approval |-> context.approval, stepUp |-> FALSE])

issueAssuranceChallenge(r, t, context) ==
    /\ at(r, "idle")
    /\ identityActive
    /\ challengeLevel(t, context) # "BASELINE"
    /\ become(r, [pc |-> "resolveActorCrypto", target |-> t,
                  level |-> challengeLevel(t, context),
                  ecdsaKey |-> 0, pqcKey |-> 0, publicKey |-> "NONE"])
    /\ UNCHANGED <<keyVars, challenge, spent>>

resolveActorCrypto(r) ==
    /\ at(r, "resolveActorCrypto")
    /\ didKey.active
    /\ become(r, [req[r] EXCEPT
          !.ecdsaKey = didKey.generation,
          !.pc = IF req[r].level = "QUANTUM_HARDENED" THEN "resolvePublicKey" ELSE "createAssuranceChallenge"])
    /\ UNCHANGED <<keyVars, challenge, spent>>

(* Without a registered key the dual level is refused, not lowered.  The   *)
(* code keeps the identifier of the key, which is its generation; the      *)
(* public key is carried along for the properties alone.                   *)
resolvePublicKey(r) ==
    /\ at(r, "resolvePublicKey")
    /\ activeGeneration # 0
    /\ become(r, [req[r] EXCEPT !.pqcKey = activeGeneration, !.publicKey = activePublicKey,
                                !.pc = "createAssuranceChallenge"])
    /\ UNCHANGED <<keyVars, challenge, spent>>

createAssuranceChallenge(r, c) ==
    /\ at(r, "createAssuranceChallenge")
    /\ ~challenge[c].issued
    /\ challenge' = [challenge EXCEPT ![c] =
          [NoChallenge EXCEPT !.issued = TRUE, !.level = req[r].level,
                              !.operation = operationOf(req[r].target),
                              !.resource = resourceOf(req[r].target),
                              !.ecdsaKey = req[r].ecdsaKey, !.pqcKey = req[r].pqcKey,
                              !.publicKey = req[r].publicKey]]
    /\ done(r)
    /\ UNCHANGED <<keyVars, spent>>

---------------------------------------------------------------------------
(* assurance.verify: the challenge is consumed first, then everything it   *)
(* depends on is read again.                                               *)
consumeAssuranceChallengeAtomic(r, c) ==
    /\ at(r, "idle")
    /\ challenge[c].issued /\ ~challenge[c].consumed /\ ~challenge[c].old
    /\ challenge' = [challenge EXCEPT ![c].consumed = TRUE]
    /\ become(r, [pc |-> "verifyIdentity", challenge |-> c, ecdsa |-> FALSE, pqc |-> FALSE])
    /\ UNCHANGED <<keyVars, spent>>

verifyIdentity(r) ==
    /\ at(r, "verifyIdentity")
    /\ identityActive
    /\ goto(r, "verifyDid")
    /\ UNCHANGED <<keyVars, challenge, spent>>

(* The key generation the challenge was issued for, then the signature. *)
verifyDid(r, signed) ==
    /\ at(r, "verifyDid")
    /\ didKey.active /\ didKey.generation = challenge[req[r].challenge].ecdsaKey
    /\ become(r, [req[r] EXCEPT !.ecdsa = signed, !.pc =
          IF signed /\ challenge[req[r].challenge].level = "QUANTUM_HARDENED"
            THEN "verifyPqc" ELSE "markAssuranceHalfVerified"])
    /\ UNCHANGED <<keyVars, challenge, spent>>

(* Mutant: the signature is checked against whichever key is registered. *)
verifyPqcAnyKey(r, signed) ==
    /\ at(r, "verifyPqc")
    /\ become(r, [req[r] EXCEPT !.pc = "markAssuranceHalfVerified",
                                !.pqc = signed /\ activeGeneration # 0])
    /\ UNCHANGED <<keyVars, challenge, spent>>

verifyPqc(r, signed) ==
    /\ at(r, "verifyPqc")
    /\ become(r, [req[r] EXCEPT !.pc = "markAssuranceHalfVerified",
          !.pqc = signed /\ activeGeneration = challenge[req[r].challenge].pqcKey])
    /\ UNCHANGED <<keyVars, challenge, spent>>

markAssuranceHalfVerified(r) ==
    /\ at(r, "markAssuranceHalfVerified")
    /\ challenge' = [challenge EXCEPT ![req[r].challenge].ecdsaVerified = req[r].ecdsa,
                                      ![req[r].challenge].pqcVerified = req[r].pqc]
    /\ done(r)
    /\ UNCHANGED <<keyVars, spent>>

---------------------------------------------------------------------------
(* requireGovernanceAssurance: the gate scores the proposal again, with    *)
(* the classification it reads itself: none, when the read fails or the id *)
(* names no row.  When it asks for no dual signature the proposal goes     *)
(* ahead and nothing here changes.                                         *)
gateLevel(t, found) ==
    evaluateAssurance([operation |-> operationOf(t), role |-> "ADMIN",
                       classification |->
                          IF t.asset # NoAsset
                            THEN IF found THEN Classification[t.asset] ELSE "NONE"
                          ELSE IF t.kind \in GOVERNANCE_KINDS_WITH_ASSET_TARGET THEN "CRITICAL"
                          ELSE "NONE",
                       risk |-> "NONE", riskScore |-> 0, custody |-> "NOT_APPLICABLE",
                       approval |-> "NOT_REQUIRED", stepUp |-> TRUE])

requireGovernanceAssurance(r, t, c) ==
    /\ at(r, "idle")
    /\ \E found \in BOOLEAN : gateLevel(t, found) = "QUANTUM_HARDENED"
    /\ become(r, [pc |-> "findValidAssuranceGrant", target |-> t, grant |-> c])
    /\ UNCHANGED <<keyVars, challenge, spent>>

findValidAssuranceGrant(r) ==
    LET row == challenge[req[r].grant] IN
    /\ at(r, "findValidAssuranceGrant")
    /\ row.consumed /\ ~row.old
    /\ row.operation = operationOf(req[r].target) /\ row.resource = resourceOf(req[r].target)
    /\ goto(r, "claimAssuranceGrantExecution")
    /\ UNCHANGED <<keyVars, challenge, spent>>

(* Mutant: the number of updated rows is read off the wrong place, so that *)
(* every claim succeeds.                                                   *)
claimAssuranceGrantExecutionAlways(r) ==
    /\ at(r, "claimAssuranceGrantExecution")
    /\ challenge' = [challenge EXCEPT ![req[r].grant].executed = TRUE]
    /\ spent' = [spent EXCEPT ![req[r].grant] = @ + 1]
    /\ done(r)
    /\ UNCHANGED keyVars

claimAssuranceGrantExecution(r) ==
    /\ at(r, "claimAssuranceGrantExecution")
    /\ ~challenge[req[r].grant].executed
    /\ challenge' = [challenge EXCEPT ![req[r].grant].executed = TRUE]
    /\ spent' = [spent EXCEPT ![req[r].grant] = @ + 1]
    /\ done(r)
    /\ UNCHANGED keyVars

---------------------------------------------------------------------------
(* key.register and key.revoke *)
registerRead(r, k) ==
    /\ at(r, "idle")
    /\ identityActive
    /\ activeGeneration < MaxGeneration
    /\ become(r, [pc |-> "registerWrite", key |-> k, existing |-> activeGeneration])
    /\ UNCHANGED <<keyVars, challenge, spent>>

(* A row of the same generation is overwritten. *)
registerPqcKeyRecord(r) ==
    /\ at(r, "registerWrite") /\ req[r].existing = 0
    /\ pqcKeys' = [pqcKeys EXCEPT ![1] = [status |-> "ACTIVE", key |-> req[r].key]]
    /\ done(r)
    /\ UNCHANGED <<identityActive, didKey, challenge, spent>>

(* A row of the same generation becomes ACTIVE and keeps its public key.   *)
rotatePqcKeyRecord(r) ==
    LET g == req[r].existing IN
    /\ at(r, "registerWrite") /\ g # 0
    /\ pqcKeys' = [h \in Generations |->
          CASE h = g -> [pqcKeys[h] EXCEPT !.status = "ROTATED"]
            [] h = g + 1 -> [status |-> "ACTIVE",
                             key |-> IF pqcKeys[h].status = "NONE" THEN req[r].key ELSE pqcKeys[h].key]
            [] OTHER -> pqcKeys[h]]
    /\ done(r)
    /\ UNCHANGED <<identityActive, didKey, challenge, spent>>

revokeRead(r) ==
    /\ at(r, "idle")
    /\ activeGeneration # 0
    /\ become(r, [pc |-> "setPqcKeyStatus"])
    /\ UNCHANGED <<keyVars, challenge, spent>>

(* Every row of the DID, whatever its status. *)
setPqcKeyStatus(r) ==
    /\ at(r, "setPqcKeyStatus")
    /\ pqcKeys' = [g \in Generations |->
          [pqcKeys[g] EXCEPT !.status = IF @ = "NONE" THEN "NONE" ELSE "REVOKED"]]
    /\ done(r)
    /\ UNCHANGED <<identityActive, didKey, challenge, spent>>

---------------------------------------------------------------------------
(* The identity's status and its DID key, as DidAuth models them.          *)
identityChanges ==
    /\ identityActive' = ~identityActive
    /\ UNCHANGED <<didKey, pqcKeys, challenge, spent, req>>

didKeyChanges ==
    /\ \/ didKey' = [didKey EXCEPT !.active = ~@]
       \/ didKey.active /\ didKey.generation < MaxGeneration /\ didKey' = [didKey EXCEPT !.generation = @ + 1]
    /\ UNCHANGED <<identityActive, pqcKeys, challenge, spent, req>>

(* A challenge expires, a grant outlives its validity. *)
ages(c) ==
    /\ challenge[c].issued /\ ~challenge[c].old
    /\ challenge' = [challenge EXCEPT ![c].old = TRUE]
    /\ UNCHANGED <<keyVars, spent, req>>

ChallengeStep(r) ==
    \/ \E t \in Targets, context \in Contexts : issueAssuranceChallenge(r, t, context)
    \/ resolveActorCrypto(r) \/ resolvePublicKey(r)
    \/ \E c \in Challenges :
          createAssuranceChallenge(r, c) \/ consumeAssuranceChallengeAtomic(r, c)
    \/ verifyIdentity(r)
    \/ \E signed \in BOOLEAN : verifyDid(r, signed) \/ verifyPqc(r, signed)
    \/ markAssuranceHalfVerified(r)

GateStep(r) ==
    \/ \E t \in Targets, c \in Challenges : requireGovernanceAssurance(r, t, c)
    \/ findValidAssuranceGrant(r) \/ claimAssuranceGrantExecution(r)

KeyStep(r) ==
    \/ \E k \in Keys : registerRead(r, k)
    \/ registerPqcKeyRecord(r) \/ rotatePqcKeyRecord(r)
    \/ revokeRead(r) \/ setPqcKeyStatus(r)

(* History: what held at some moment since the challenge was consumed. *)
facts(c) ==
    {f \in {"identity", "ecdsa", "pqc", "reregistered"} :
        CASE f = "identity" -> identityActive
          [] f = "ecdsa" -> didKey.active /\ didKey.generation = challenge[c].ecdsaKey
          [] f = "pqc" -> /\ activeGeneration = challenge[c].pqcKey
                          /\ activePublicKey = challenge[c].publicKey
          [] OTHER -> /\ activeGeneration = 1 /\ challenge[c].pqcKey = 1
                      /\ activePublicKey # challenge[c].publicKey}

verifying(r) ==
    req[r].pc \in {"verifyIdentity", "verifyDid", "verifyPqc", "markAssuranceHalfVerified"}

observe ==
    seen' = [r \in Requests |->
                IF verifying(r)' THEN seen[r] \cup facts(req[r].challenge)' ELSE {}]

Next ==
    /\ \/ \E r \in Requests : ChallengeStep(r) \/ GateStep(r) \/ KeyStep(r) \/ fails(r)
       \/ \E c \in Challenges : ages(c)
       \/ identityChanges \/ didKeyChanges
    /\ observe

Spec == Init /\ [][Next]_assuranceVars

---------------------------------------------------------------------------
stageOf(row) == IF row.consumed THEN "REDEEMED" ELSE IF row.issued THEN "ISSUED" ELSE "NONE"

Token == INSTANCE SingleUseToken WITH
    Tokens <- Challenges,
    stage <- [c \in Challenges |-> stageOf(challenge[c])],
    lapsed <- [c \in Challenges |-> challenge[c].old],
    spent <- spent

(* Each challenge is a single-use token, however many verifications and    *)
(* proposals race for it: verified at most once and before it expires, and *)
(* the grant it becomes carries at most one operation.                     *)
GrantsImplementSingleUseToken == Token!Spec

(* A grant that carried a burn, a forced transfer, a change of roles or a  *)
(* deactivation through the gate was issued for the dual signature,        *)
(* although the challenge was scored elsewhere, with what the caller       *)
(* stated and another of his roles.  (A pause is left out: the gate may    *)
(* ask for the dual signature because of an asset it names, which the      *)
(* challenge was not scored with.)                                         *)
GateGetsItsLevel ==
    \A c \in Challenges :
        spent[c] > 0 /\ challenge[c].operation \notin {"PAUSE_REGISTRY", "UNPAUSE_REGISTRY"} =>
            challenge[c].level = "QUANTUM_HARDENED"

(* A verification that is about to be recorded as complete saw, after it   *)
(* consumed the challenge, an active identity, the DID key that the        *)
(* challenge was issued for, and the very public key that it was issued    *)
(* for as the active post-quantum key: revoking or rotating either one     *)
(* before wins.  With one exception, which assurance.service.ts:26-28      *)
(* rules out: a challenge of the first generation may also have met        *)
(* another public key, registered as that generation once more.            *)
VerificationSawItsKeys ==
    \A r \in Requests :
        at(r, "markAssuranceHalfVerified") /\ req[r].ecdsa =>
            /\ {"identity", "ecdsa"} \subseteq seen[r]
            /\ req[r].pqc => "pqc" \in seen[r] \/ "reregistered" \in seen[r]

(* A registration that is written makes its own key the active one, when   *)
(* no other handler runs.                                                  *)
RegistrationTakesEffect ==
    [][\A r \in Requests :
          /\ at(r, "registerWrite") /\ pqcKeys' # pqcKeys
          /\ \A s \in Requests \ {r} : at(s, "idle")
          /\ req'[r] = Idle
          => pqcKeys'[activeGeneration'].key = req[r].key]_assuranceVars

=============================================================================
