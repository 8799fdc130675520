---------------------------- MODULE MCIdentity ----------------------------
(* The three contracts before any asset is minted: roles and identities    *)
(* change freely; document hashes are interchangeable.                     *)
EXTENDS SampraanAssetRegistry, TLC

CONSTANTS dep, aud, d1, d2

MCDidOf == (dep :> d1) @@ (aud :> d2)

HashSymmetry == Permutations(DocHashes)

==========================================================================
