---------------------------- MODULE MCPurchasing ----------------------------
(* Purchasing with one product in one warehouse. *)
EXTENDS Purchasing

MCPolicies ==
    {[flow |-> "DIRECT_RECEIPT", overLimit |-> FALSE, autoPosting |-> TRUE, allowNegative |-> TRUE],
     [flow |-> "PO_REQUIRED", overLimit |-> TRUE, autoPosting |-> TRUE, allowNegative |-> FALSE]}
MCOrders == {[qty |-> 2, cost |-> 3]}
MCReceipts ==
    {[slot |-> s, qty |-> r[1], cost |-> r[2], gates |-> {}] :
        s \in Slots, r \in {<<1, 3>>, <<2, 0>>}}
MCBills == {[total |-> 2, gates |-> {}], [total |-> 1, gates |-> {"BACKDATED_PURCHASE_DOC"}]}
=============================================================================
