------------------------------ MODULE MCAccess ------------------------------
(* Small instance of session access: one account, interchangeable handlers. *)
EXTENDS SessionAccess, TLC

CONSTANTS r1, r2, u

RequestSymmetry == Permutations(Requests)

=============================================================================
