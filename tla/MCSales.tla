------------------------------ MODULE MCSales ------------------------------
(* Sales with one product in one warehouse; credit sales and cash sales at a manual price. *)
EXTENDS Sales

MCPolicies == {[sellsShort |-> b, autoPosting |-> b, allowNegative |-> b] : b \in BOOLEAN}

Sold(price, discount, gates, terms) ==
    {[slot |-> s, qty |-> 1, price |-> price, discount |-> discount, gates |-> gates,
      terms |-> terms] : s \in Slots}

MCPayloads ==
    Sold(3, 0, {}, "CREDIT")
        \cup Sold(1, 0, {"MANUAL_PRICE"}, "CASH")
=============================================================================
