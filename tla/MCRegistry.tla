---------------------------- MODULE MCRegistry ----------------------------
(* Small instance of the three registry contracts. *)
EXTENDS SampraanAssetRegistry, TLC

CONSTANTS dep, aud, d1, d2, a1, a2

MCDidOf == (dep :> d1) @@ (aud :> d2)

AssetSymmetry == Permutations({a1, a2})

==========================================================================
