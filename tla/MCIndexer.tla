----------------------------- MODULE MCIndexer -----------------------------
(* Small instance of the indexer: blocks that are empty, that hold one     *)
(* transaction with two sibling events, that hold two transactions, and    *)
(* that emit an event nobody indexes.                                      *)
EXTENDS ChainEventIndexer

ev(tx, name, subject) == [tx |-> tx, name |-> name, subject |-> subject]

MCIndexed == {"AssetRegistered", "NFTMinted"}

MCBlocks ==
    { << >>,
      <<ev(1, "Transfer", "1"), ev(1, "AssetRegistered", "1"), ev(1, "NFTMinted", "1")>>,
      <<ev(1, "AssetRegistered", "2"), ev(2, "NFTMinted", "2")>> }

==========================================================================
