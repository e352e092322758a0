---------------------------- MODULE MCAssetLocks ----------------------------
(***************************************************************************)
(* Small instances of AssetLocks.                                          *)
(***************************************************************************)
EXTENDS AssetLocks

OneConsumable == [i \in Items |-> 1]
OwnRecord == [x \in Records |-> x]
AllButMoves == AssetOperations \ {"transfer", "correct"}

TxSymmetry == Permutations(Tx)
=============================================================================
