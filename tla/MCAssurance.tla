---------------------------- MODULE MCAssurance ----------------------------
(* Small instance of crypto assurance: proposals to deactivate an identity  *)
(* and to pause the registry naming a critical asset, by an administrator   *)
(* whose first role is another one, and whose challenges state either no    *)
(* circumstances or bad ones.                                               *)
EXTENDS CryptoAssurance, TLC

CONSTANTS r1, r2, c1, k1, k2, gold

MCClassification == [a \in {gold} |-> "CRITICAL"]
MCTargets == {[kind |-> "DEACTIVATE_IDENTITY", asset |-> NoAsset],
              [kind |-> "PAUSE_REGISTRY", asset |-> gold]}
MCContexts == {[role |-> "MANAGER", classification |-> "NONE", risk |-> "NONE", riskScore |-> 0,
                custody |-> "NOT_APPLICABLE", approval |-> "NOT_REQUIRED"],
               [role |-> "MANAGER", classification |-> "NONE", risk |-> "MEDIUM", riskScore |-> 60,
                custody |-> "NONE", approval |-> "REJECTED"]}

Symmetry == Permutations(Requests) \cup Permutations(Keys)

=============================================================================
