-------------------------- MODULE MCStockSessions --------------------------
(* StockSessions with two threads on two slots of one item. *)
EXTENDS StockSessions, TLC

Symmetry == Permutations(Clients) \cup Permutations(Warehouses)
=============================================================================
