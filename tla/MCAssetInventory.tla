-------------------------- MODULE MCAssetInventory --------------------------
(***************************************************************************)
(* Small instances of AssetInventory.                                      *)
(***************************************************************************)
EXTENDS AssetInventory, TLC

Order(a, b) == (1 :> a) @@ (2 :> b)
SomeOrders == {Order(1, 0), Order(1, 1), Order(2, 1)}
LendOrders == {Order(2, 0), Order(1, 1)}
OneItem == {Order(1, 0), Order(2, 0)}
NoStock == Order(0, 0)
Stock30 == Order(3, 0)
Stock21 == Order(2, 1)
=============================================================================
