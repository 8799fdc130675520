---------------------------- MODULE MCGovernance ----------------------------
(* Small instance of the multisig with its registries. *)
EXTENDS SampraanGovernance, TLC

CONSTANTS dep, aud, d1, d2, s1, s2

MCDidOf == (dep :> d1) @@ (aud :> d2)

op(kind, target, account) ==
    [kind |-> kind, target |-> target, account |-> account, token |-> 1, reason |-> TRUE]

MCOperations ==
    {op("BURN_NFT", "assetRegistry", aud),
     op("FORCE_TRANSFER", "assetRegistry", aud),
     op("PAUSE_REGISTRY", "assetRegistry", aud),
     op("UNPAUSE_REGISTRY", "assetRegistry", aud),
     op("DEACTIVATE_IDENTITY", "identityRegistry", aud)}

SignerSymmetry == Permutations({s1, s2})

==========================================================================
