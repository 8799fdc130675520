---------------------------- MODULE MCLifecycle ----------------------------
(* Small instance of the asset lifecycle: b is both manager and            *)
(* administrator, as identities.assignRoles allows; handlers are           *)
(* interchangeable.                                                        *)
EXTENDS AssetLifecycle, TLC

CONSTANTS r1, r2, a, b, c

RequestSymmetry == Permutations(Requests)

=============================================================================
