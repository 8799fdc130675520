--------------------------- MODULE AssurancePolicy ---------------------------
(***************************************************************************)
(* The assurance policy engine: a pure function from an operation and its  *)
(* circumstances to the strength of proof it needs.  Reason codes and      *)
(* explanations are wording and left out.                                  *)
(***************************************************************************)
EXTENDS Integers

OPERATION_WEIGHT == [
    ASSET_BURN |-> 60, ASSET_FORCE_TRANSFER |-> 60, KEY_RECOVERY_EXECUTE |-> 55,
    IDENTITY_ROLE_ADMIN |-> 55, IDENTITY_ROLE_CHANGE |-> 45, GOVERNANCE_CONFIG |-> 55,
    GOVERNANCE_EXECUTE |-> 45, GOVERNANCE_PROPOSAL |-> 35, GOVERNANCE_APPROVE |-> 35,
    GOVERNANCE_CANCEL |-> 30, DID_KEY_REVOKE |-> 45, IDENTITY_STATUS_CHANGE |-> 45,
    KEY_RECOVERY_APPROVE |-> 35, KEY_RECOVERY_REQUEST |-> 30, DID_KEY_ROTATE |-> 30,
    DID_DOCUMENT_UPDATE |-> 25, ASSET_TRANSFER |-> 25, ASSET_ASSIGN |-> 25, ASSET_MINT |-> 25,
    ASSET_STATUS_CHANGE |-> 30, IDENTITY_VERIFY |-> 20, DISPUTE_RESOLVE |-> 25,
    AUDIT_REPORT_COMMIT |-> 15, PAUSE_REGISTRY |-> 30, UNPAUSE_REGISTRY |-> 30,
    CONSENT_GRANT |-> 10, CONTENT_ACCESS |-> 20, CONTENT_UPLOAD |-> 15, ASSET_VIEW |-> 5]

AssuranceOperation == DOMAIN OPERATION_WEIGHT
AssuranceLevel == {"BASELINE", "ELEVATED", "QUANTUM_HARDENED"}

ADMINISTRATIVE_OPERATIONS ==
    {"IDENTITY_ROLE_CHANGE", "IDENTITY_ROLE_ADMIN", "GOVERNANCE_CONFIG", "GOVERNANCE_PROPOSAL",
     "GOVERNANCE_APPROVE", "GOVERNANCE_EXECUTE", "GOVERNANCE_CANCEL", "PAUSE_REGISTRY",
     "UNPAUSE_REGISTRY"}
IRREVERSIBLE_OPERATIONS ==
    {"ASSET_BURN", "ASSET_FORCE_TRANSFER", "IDENTITY_STATUS_CHANGE", "KEY_RECOVERY_EXECUTE",
     "DID_KEY_REVOKE"}

(* Mutant: what can be repaired afterwards is left out. *)
QuantumMandatedLess ==
    {"ASSET_BURN", "ASSET_FORCE_TRANSFER", "IDENTITY_ROLE_ADMIN", "GOVERNANCE_CONFIG",
     "KEY_RECOVERY_EXECUTE"}

QUANTUM_MANDATED_OPERATIONS ==
    {"ASSET_BURN", "ASSET_FORCE_TRANSFER", "IDENTITY_ROLE_ADMIN", "GOVERNANCE_CONFIG",
     "IDENTITY_STATUS_CHANGE", "KEY_RECOVERY_EXECUTE"}

CLASSIFICATION_WEIGHT ==
    [PUBLIC |-> 0, CONTROLLED |-> 5, SENSITIVE |-> 15, HIGHLY_SENSITIVE |-> 30, CRITICAL |-> 45]
RISK_WEIGHT == [LOW |-> 0, MEDIUM |-> 10, HIGH |-> 25, CRITICAL |-> 40]

ELEVATED_THRESHOLD == 40
QUANTUM_THRESHOLD == 70

(* "NONE" is a missing value; any other value outside a table is unknown   *)
(* and counts as the worst one.                                            *)
classificationWeight(c) ==
    IF c = "NONE" THEN 0
    ELSE IF c \in DOMAIN CLASSIFICATION_WEIGHT THEN CLASSIFICATION_WEIGHT[c]
    ELSE CLASSIFICATION_WEIGHT["CRITICAL"]

riskWeight(level, score) ==
    (IF level = "NONE" THEN RISK_WEIGHT["LOW"]
     ELSE IF level \in DOMAIN RISK_WEIGHT THEN RISK_WEIGHT[level]
     ELSE RISK_WEIGHT["CRITICAL"])
    + (IF score >= 75 THEN 10 ELSE IF score >= 50 THEN 5 ELSE 0)

irreversible(i) == i.operation \in IRREVERSIBLE_OPERATIONS

assuranceScore(i) ==
    OPERATION_WEIGHT[i.operation]
    + classificationWeight(i.classification)
    + riskWeight(i.risk, i.riskScore)
    + (IF i.role = "ADMIN" THEN 10 ELSE IF i.role = "AUDITOR" THEN 15 ELSE 0)
    + (IF i.custody = "NONE" THEN 15 ELSE IF i.custody = "OWNER" THEN 5 ELSE 0)
    + (IF i.approval = "PENDING" THEN 10 ELSE IF i.approval = "REJECTED" THEN 20 ELSE 0)
    + (IF ~i.stepUp /\ (OPERATION_WEIGHT[i.operation] >= 25 \/ irreversible(i)) THEN 15 ELSE 0)

elevatedFloor(i) == irreversible(i) \/ i.operation \in ADMINISTRATIVE_OPERATIONS

quantumMandated(i) ==
    \/ assuranceScore(i) >= QUANTUM_THRESHOLD
    \/ i.operation \in QUANTUM_MANDATED_OPERATIONS
    \/ i.risk = "CRITICAL"
    \/ irreversible(i) /\ (i.classification = "CRITICAL" \/ i.role = "ADMIN")

evaluateAssurance(i) ==
    IF quantumMandated(i) THEN "QUANTUM_HARDENED"
    ELSE IF assuranceScore(i) >= ELEVATED_THRESHOLD \/ elevatedFloor(i) THEN "ELEVATED"
    ELSE "BASELINE"

(* Which operation a governance proposal is. *)
GOVERNANCE_KIND_TO_OPERATION == [
    BURN_NFT |-> "ASSET_BURN", FORCE_TRANSFER |-> "ASSET_FORCE_TRANSFER",
    PAUSE_REGISTRY |-> "PAUSE_REGISTRY", UNPAUSE_REGISTRY |-> "UNPAUSE_REGISTRY",
    GRANT_ROLE |-> "IDENTITY_ROLE_ADMIN", REVOKE_ROLE |-> "IDENTITY_ROLE_ADMIN",
    DEACTIVATE_IDENTITY |-> "IDENTITY_STATUS_CHANGE"]
GOVERNANCE_KINDS_WITH_ASSET_TARGET == {"BURN_NFT", "FORCE_TRANSFER"}

(* What the engine is asked about.  An operation outside the union is a    *)
(* type error in the code and is left out.                                 *)
PolicyInput == [
    operation : AssuranceOperation,
    role : {"ADMIN", "MANAGER", "AUDITOR", "USER"},
    classification : {"NONE", "UNKNOWN"} \cup DOMAIN CLASSIFICATION_WEIGHT,
    risk : {"NONE", "UNKNOWN"} \cup DOMAIN RISK_WEIGHT,
    riskScore : 0 .. 100,
    custody : {"CUSTODIAN", "OWNER", "NONE", "ADMIN_OVERRIDE", "NOT_APPLICABLE"},
    approval : {"NOT_REQUIRED", "PENDING", "APPROVED", "REJECTED", "EXECUTED"},
    stepUp : BOOLEAN]

=============================================================================
