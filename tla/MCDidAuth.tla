----------------------------- MODULE MCDidAuth -----------------------------
(* Small instance of DID authentication: interchangeable handlers. *)
EXTENDS DidAuth, TLC

CONSTANTS r1, r2

RequestSymmetry == Permutations(Requests)

==========================================================================
