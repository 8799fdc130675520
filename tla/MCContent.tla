----------------------------- MODULE MCContent -----------------------------
(* Small instance of the content of one sensitive asset: its owner and     *)
(* somebody else; handlers and objects are interchangeable.                *)
EXTENDS AssetContent, TLC

CONSTANTS r1, r2, o, u, x1, x2

ContentSymmetry == Permutations(Requests) \cup Permutations(Objects)

=============================================================================
