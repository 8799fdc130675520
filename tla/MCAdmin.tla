------------------------------ MODULE MCAdmin ------------------------------
(* Small instance of identity administration: interchangeable handlers; the *)
(* linked user of c is a platform administrator.                            *)
EXTENDS IdentityAdmin, TLC

CONSTANTS r1, r2, a, b, c

IdentitySymmetry == Permutations(Requests) \cup Permutations(Identities \ PlatformAdmins)

=============================================================================
