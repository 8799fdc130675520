------------------------ MODULE AuthorizationPolicy ------------------------
(***************************************************************************)
(* authorization.service.ts, the decision on a TRANSFER of an asset.  The  *)
(* caller resolves every field of a request from the database; approval is *)
(* "NONE" when there is none that serves.                                  *)
(***************************************************************************)

AuthorizationDecision == {"ALLOW", "DENY", "CHALLENGE"}

permitted(q) ==
    q.role = "ADMIN" \/ q.permissions \cap {"asset:transfer", "administration:manage"} # {}

(* The checks in their order: the first that objects decides. *)
evaluate(q) ==
    IF \/ q.status # "ACTIVE"
       \/ ~permitted(q)
       \/ (q.classification = "HIGHLY_SENSITIVE" /\ q.role = "USER")
      THEN "DENY"
    ELSE IF q.classification = "HIGHLY_SENSITIVE" /\ ~q.stepUp
      THEN "CHALLENGE"
    ELSE IF (q.role # "ADMIN" /\ q.actor # q.custodian) \/ q.approval = "REJECTED"
      THEN "DENY"
    ELSE IF (q.approvalRequired /\ q.approval # "APPROVED") \/ (q.risk = "HIGH" /\ ~q.stepUp)
      THEN "CHALLENGE"
    ELSE "ALLOW"

=============================================================================
