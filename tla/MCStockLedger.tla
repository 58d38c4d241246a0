--------------------------- MODULE MCStockLedger ---------------------------
(* StockLedger on two warehouses and one item. *)
EXTENDS StockLedger, TLC

Symmetry == Permutations(Warehouses)
=============================================================================
