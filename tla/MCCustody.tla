----------------------------- MODULE MCCustody -----------------------------
(* Small instance of asset custody: c administers, a and b manage and are  *)
(* interchangeable, and so are handlers.                                   *)
EXTENDS AssetCustody, TLC

CONSTANTS r1, r2, a, b, c

CustodySymmetry == Permutations(Requests) \cup Permutations(Managers)

=============================================================================
