-------------------------- MODULE PurchasingProofs --------------------------
(***************************************************************************)
(* Proofs about Purchasing, for every set of requests, settings and credit *)
(* limit and for documents in every order:                                 *)
(*   - what a bill was paid is what the standing payments give it, never   *)
(*     more than its total, and PAID says when that is all of it;          *)
(*   - goods come on approved orders only, but for receipts whose lines    *)
(*     name another order, and an order's status says how much came;       *)
(*   - no more goes back than came, but for overlapping returns;           *)
(*   - the inventory account is the worth of the stock ledger, but for the *)
(*     rounding of its lines;                                              *)
(*   - the payable account is the supplier's exposure, less the money that *)
(*     is not applied and what cancelled bills were paid.                  *)
(*                                                                         *)
(* As in SalesProofs, every action is first reduced to what it does to the *)
(* rows and to the ledger (the ...Effect lemmas), then to what it posts    *)
(* (the ...Books lemmas) and to what the documents make of it (the ...Net  *)
(* lemmas); the invariants use only those.                                 *)
(***************************************************************************)
EXTENDS Purchasing, RunningTotalsTheorems, SequenceTheorems

Ledger == INSTANCE StockLedgerProofs

-----------------------------------------------------------------------------
(* The stock ledger under the documents                                    *)

\* What StockLedgerProofs shows of the ledger is about the same ledger.
LEMMA SameLedger ==
  /\ \A s, q, c : Stock!Receive(s, q, c) <=> Ledger!Receive(s, q, c)
  /\ \A s, q, a : Stock!Issue(s, q, a) <=> Ledger!Issue(s, q, a)
  /\ \A n : Stock!Reverse(n) <=> Ledger!Reverse(n)
<1>1. \A m : Stock!Post(m) <=> Ledger!Post(m)
  BY DEF Stock!Post, Stock!Updated, Stock!NewAverage, Stock!Rounded,
         Ledger!Post, Ledger!Updated, Ledger!NewAverage, Ledger!Rounded
<1>2. \A m, n : Stock!PostPair(m, n) <=> Ledger!PostPair(m, n)
  BY DEF Stock!PostPair, Stock!Updated, Stock!NewAverage, Stock!Rounded,
         Ledger!PostPair, Ledger!Updated, Ledger!NewAverage, Ledger!Rounded
<1>3. \A row, d, a : Stock!MayApply(row, d, a) <=> Ledger!MayApply(row, d, a)
  BY DEF Stock!MayApply, Ledger!MayApply
<1>4. \A n : Stock!ReversalOf(n) = Ledger!ReversalOf(n)
  BY DEF Stock!ReversalOf, Ledger!ReversalOf
<1>5. \A s, q, c : Stock!Receive(s, q, c) <=> Ledger!Receive(s, q, c)
  BY <1>1, <1>3, Zenon DEF Stock!Receive, Ledger!Receive
<1>6. \A s, q, a : Stock!Issue(s, q, a) <=> Ledger!Issue(s, q, a)
  BY <1>1, <1>3, Zenon DEF Stock!Issue, Ledger!Issue
<1>7. \A n : Stock!Reverse(n) <=> Ledger!Reverse(n)
  BY <1>1, <1>2, <1>3, <1>4, Zenon DEF Stock!Reverse, Ledger!Reverse
<1>8. QED
  BY <1>5, <1>6, <1>7

\* And so are its properties.
LEMMA SameShort ==
  /\ Stock!TypeOK <=> Ledger!TypeOK
  /\ (\A s \in Slots : ~Stock!EverShort(s)) <=> Ledger!NeverShort
  /\ [n \in 1..Len(movements) |-> movements[n].qty * movements[n].cost] = Ledger!Worth(movements)
  /\ \A f, n : Ledger!Total(f, n) = Total(f, n)
  /\ Ledger!Slots = Slots
<1>1. Stock!TypeOK <=> Ledger!TypeOK
  BY Zenon DEF Stock!TypeOK, Stock!Movement, Stock!MovementTypes, Stock!Slots, Stock!Row,
     Ledger!TypeOK, Ledger!Movement, Ledger!MovementTypes, Ledger!Slots, Ledger!Row
<1>2. \A f, n : Ledger!Total(f, n) = Total(f, n) /\ Stock!Total(f, n) = Total(f, n)
  BY Zenon DEF Ledger!Total, Ledger!RunningTotal, Stock!Total, Stock!RunningTotal, Total, RunningTotal
<1>3. (\A s \in Slots : ~Stock!EverShort(s)) <=> Ledger!NeverShort
  BY Zenon DEF Stock!EverShort, Stock!LedgerQty, Stock!Contribution, Stock!Total, Stock!RunningTotal,
     Ledger!NeverShort, Ledger!EverShort, Ledger!LedgerQty, Ledger!Contribution, Ledger!Total,
     Ledger!RunningTotal, Ledger!Slots, Slots
<1>4. QED
  BY <1>1, <1>2, <1>3, Zenon DEF Ledger!Worth, Ledger!Slots, Slots

\* A step of the ledger that leaves its rows and adds rows worth d.
Moves(d) ==
    /\ Ledger!PricedInv'
    /\ Len(movements') \in Nat /\ Len(movements') >= Len(movements)
    /\ \A k \in 1..Len(movements) : movements'[k] = movements[k]
    /\ Ledger!Value(movements') = Ledger!Value(movements) + d
    /\ Ledger!NeverShort' => Ledger!NeverShort

\* The ledger's state, in the names of Purchasing.
LEMMA LedgerState ==
  ASSUME Ledger!PricedInv
  PROVE  /\ Len(movements) \in Nat
         /\ \A k \in 1..Len(movements) : movements[k].qty \in Int /\ movements[k].cost \in Int
         /\ Ledger!NeverShort => \A k \in 1..Len(movements) : movements[k].cost >= 0
         /\ \A s \in Slots : balances[s].avg \in Int /\ (Ledger!NeverShort => balances[s].avg >= 0)
         /\ Ledger!Value(movements) \in Int
<1>1. /\ Len(movements) \in Nat /\ Ledger!Value(movements) \in Int
      /\ \A k \in 1..Len(movements) : movements[k] \in Ledger!Movement
      /\ \A s \in Slots : balances[s].avg \in Int
  BY Ledger!PricedRows, StockAssumption, SameShort
<1>2. \A k \in 1..Len(movements) : movements[k].qty \in Int /\ movements[k].cost \in Int
  BY <1>1 DEF Ledger!Movement
<1>3. Ledger!NeverShort => \A k \in 1..Len(movements) : movements[k].cost >= 0
  BY DEF Ledger!PricedInv
<1>4. Ledger!NeverShort => \A s \in Slots : balances[s].avg >= 0
  BY Ledger!PricedAverages, StockAssumption, SameShort
<1>5. QED
  BY <1>1, <1>2, <1>3, <1>4

\* Nothing moves.
LEMMA StockStays ==
  ASSUME Ledger!PricedInv, UNCHANGED stock
  PROVE  Moves(0)
<1>1. UNCHANGED Ledger!vars
  BY DEF stock, Ledger!vars
<1>2. Ledger!PricedInv' /\ (Ledger!NeverShort' <=> Ledger!NeverShort)
  BY <1>1, Ledger!PricedStays, StockAssumption
<1>3. movements' = movements
  BY DEF stock
<1>4. Ledger!Value(movements) \in Int /\ Len(movements) \in Nat
  BY LedgerState
<1>5. QED
  BY <1>2, <1>3, <1>4 DEF Moves

\* One row moves what it says.
LEMMA RowMoves ==
  ASSUME Ledger!PricedInv, NEW m, Ledger!OneRow(m), Ledger!NeverShort => m.cost >= 0
  PROVE  /\ Moves(m.qty * m.cost)
         /\ Len(movements') = Len(movements) + 1 /\ movements'[Len(movements) + 1] = m
<1>1. Len(movements) \in Nat
  BY LedgerState
<1>2. /\ Ledger!PricedInv'
      /\ Len(movements') = Len(movements) + 1
      /\ \A k \in 1..Len(movements) : movements'[k] = movements[k]
      /\ movements'[Len(movements) + 1] = m
      /\ Ledger!Value(movements') = Ledger!Value(movements) + m.qty * m.cost
      /\ Ledger!NeverShort' => Ledger!NeverShort
  BY Ledger!RowPriced, StockAssumption
<1>3. QED
  BY <1>1, <1>2 DEF Moves

\* Goods come in at a cost.
LEMMA ReceiveMoves ==
  ASSUME Ledger!PricedInv, NEW s \in Slots, NEW q \in Nat \ {0}, NEW c \in Nat,
         Stock!Receive(s, q, c)
  PROVE  /\ Moves(q * c)
         /\ Len(movements') = Len(movements) + 1
         /\ LET r == movements'[Len(movements) + 1]
            IN  r.qty = q /\ r.cost = c /\ r.link = "none"
<1>1. Ledger!OneRow(Ledger!ReceiptRow(s, q, c))
  <2>1. c \in Int
    OBVIOUS
  <2>2. QED
    BY <2>1, SameLedger, SameShort, Ledger!DocumentRows, StockAssumption
<1>2. /\ Ledger!ReceiptRow(s, q, c).qty = q /\ Ledger!ReceiptRow(s, q, c).cost = c
      /\ Ledger!ReceiptRow(s, q, c).link = "none"
  BY DEF Ledger!ReceiptRow
<1>3. QED
  BY <1>1, <1>2, RowMoves

\* Goods leave at their average.
LEMMA IssueMoves ==
  ASSUME Ledger!PricedInv, NEW s \in Slots, NEW q \in Nat \ {0}, Stock!Issue(s, q, FALSE)
  PROVE  /\ Moves((-q) * balances[s].avg)
         /\ Len(movements') = Len(movements) + 1
         /\ LET r == movements'[Len(movements) + 1]
            IN  r.slot = s /\ r.qty = -q /\ r.cost = balances[s].avg /\ r.link = "none"
<1>1. Ledger!OneRow(Ledger!IssueRow(s, q))
  BY SameLedger, SameShort, Ledger!DocumentRows, StockAssumption
<1>2. /\ Ledger!IssueRow(s, q).qty = -q /\ Ledger!IssueRow(s, q).cost = balances[s].avg
      /\ Ledger!IssueRow(s, q).slot = s /\ Ledger!IssueRow(s, q).link = "none"
  BY DEF Ledger!IssueRow
<1>3. Ledger!NeverShort => balances[s].avg >= 0
  BY LedgerState
<1>4. QED
  BY <1>1, <1>2, <1>3, RowMoves

\* A row is taken back as it was written.
LEMMA ReverseMoves ==
  ASSUME Ledger!PricedInv, NEW n \in 1..Len(movements), movements[n].link # "inventory_transfer",
         Stock!Reverse(n)
  PROVE  Moves((-movements[n].qty) * movements[n].cost)
<1>1. Ledger!OneRow(Ledger!ReversalOf(n))
  BY SameLedger, Ledger!DocumentRows, StockAssumption
<1>2. /\ Ledger!ReversalOf(n).qty = -movements[n].qty
      /\ Ledger!ReversalOf(n).cost = movements[n].cost
  BY DEF Ledger!ReversalOf
<1>3. Ledger!NeverShort => movements[n].cost >= 0
  BY LedgerState
<1>4. QED
  BY <1>1, <1>2, <1>3, RowMoves
-----------------------------------------------------------------------------
(* Rows                                                                    *)

\* Row n of f becomes r, the others stay.
Put(f, g, n, r) ==
    Len(g) = Len(f) /\ g[n] = r /\ \A k \in 1..Len(f) : k # n => g[k] = f[k]

\* Row r comes after those of f.
Grown(f, g, r) ==
    Len(g) = Len(f) + 1 /\ g[Len(f) + 1] = r /\ \A k \in 1..Len(f) : g[k] = f[k]

\* That is what an assignment to a row does.
LEMMA RowPut ==
  ASSUME NEW T, NEW f \in Seq(T), NEW n \in 1..Len(f), NEW r \in T, NEW g, g = [f EXCEPT ![n] = r]
  PROVE  g \in Seq(T) /\ Len(f) \in Nat /\ Put(f, g, n, r)
BY ExceptSeq, LenProperties DEF Put

\* And what adding a row does.
LEMMA RowAdded ==
  ASSUME NEW T, NEW f \in Seq(T), NEW r \in T, NEW g, g = Append(f, r)
  PROVE  g \in Seq(T) /\ Len(f) \in Nat /\ Grown(f, g, r)
BY AppendProperties, LenProperties DEF Grown

-----------------------------------------------------------------------------
(* Types                                                                   *)

\* A receipt names orders that exist, and a posted one a row of the ledger that brought its
\* goods at its cost and belongs to no transfer.
ReceiptFine(g) ==
    /\ receipts[g].order \in 0..Len(orders) /\ receipts[g].orderLine \in 0..Len(orders)
    /\ receipts[g].status = "POSTED" =>
          /\ receipts[g].receipt \in 1..Len(movements)
          /\ LET r == movements[receipts[g].receipt]
             IN  /\ r.qty = receipts[g].line.qty
                 /\ r.cost = receipts[g].line.cost
                 /\ r.link = "none"

\* All do.
ReceiptsInv == \A g \in 1..Len(receipts) : ReceiptFine(g)

\* A payment names no bill that does not exist.
LinesInv == \A c \in 1..Len(payments) : Len(payments[c].lines) <= Len(bills)

\* An entry's lines hold its worth to the nearest unit, and something when it is worth
\* anything.
Entry == {e \in [inventory: Int, worth: Int, payable: Int] :
             /\ e.inventory = Stored(e.worth)
             /\ e.worth # 0 => e.inventory # 0}

BooksTyped == \A k \in DOMAIN books : books[k] \in Entry

\* The rows of the documents and of the ledger are what they should be.
TypeInv ==
    /\ TypeOK
    /\ BooksTyped
    /\ Ledger!PricedInv
    /\ ReceiptsInv
    /\ LinesInv
    /\ policy \in Policies

\* What the rows are.
LEMMA TypedRows ==
  ASSUME TypeInv
  PROVE  /\ orders \in Seq(Order) /\ receipts \in Seq(Receipt) /\ returns \in Seq(Return)
         /\ bills \in Seq(Bill) /\ payments \in Seq(Payment)
         /\ BooksTyped /\ policy.autoPosting \in BOOLEAN
         /\ Len(orders) \in Nat /\ Len(receipts) \in Nat /\ Len(returns) \in Nat
         /\ Len(bills) \in Nat /\ Len(payments) \in Nat
         /\ \A g \in 1..Len(receipts) :
               receipts[g].order \in 0..Len(orders) /\ receipts[g].orderLine \in 0..Len(orders)
         /\ \A m \in 1..Len(returns) : returns[m].receipt \in 1..Len(receipts)
         /\ \A c \in 1..Len(payments) : Len(payments[c].lines) <= Len(bills)
<1>1. /\ orders \in Seq(Order) /\ receipts \in Seq(Receipt) /\ returns \in Seq(Return)
      /\ bills \in Seq(Bill) /\ payments \in Seq(Payment)
  BY DEF TypeInv, TypeOK
<1>2. BooksTyped
  BY DEF TypeInv
<1>3. policy.autoPosting \in BOOLEAN
  BY PoliciesAssumption DEF TypeInv
<1>4. /\ \A g \in 1..Len(receipts) :
            receipts[g].order \in 0..Len(orders) /\ receipts[g].orderLine \in 0..Len(orders)
      /\ \A m \in 1..Len(returns) : returns[m].receipt \in 1..Len(receipts)
      /\ \A c \in 1..Len(payments) : Len(payments[c].lines) <= Len(bills)
  BY DEF TypeInv, TypeOK, ReceiptsInv, ReceiptFine, LinesInv
<1>5. QED
  BY <1>1, <1>2, <1>3, <1>4, LenProperties

\* Assignments to rows of each kind.
LEMMA RowsPut ==
  ASSUME TypeInv
  PROVE  /\ \A p \in 1..Len(orders), o \in Order : orders' = [orders EXCEPT ![p] = o] =>
               orders' \in Seq(Order) /\ Put(orders, orders', p, o)
         /\ \A g \in 1..Len(receipts), r \in Receipt : receipts' = [receipts EXCEPT ![g] = r] =>
               receipts' \in Seq(Receipt) /\ Put(receipts, receipts', g, r)
         /\ \A m \in 1..Len(returns), r \in Return : returns' = [returns EXCEPT ![m] = r] =>
               returns' \in Seq(Return) /\ Put(returns, returns', m, r)
         /\ \A b \in 1..Len(bills), i \in Bill : bills' = [bills EXCEPT ![b] = i] =>
               bills' \in Seq(Bill) /\ Put(bills, bills', b, i)
         /\ \A c \in 1..Len(payments), y \in Payment : payments' = [payments EXCEPT ![c] = y] =>
               payments' \in Seq(Payment) /\ Put(payments, payments', c, y)
<1>1. /\ orders \in Seq(Order) /\ receipts \in Seq(Receipt) /\ returns \in Seq(Return)
      /\ bills \in Seq(Bill) /\ payments \in Seq(Payment)
  BY TypedRows
<1>2. \A p \in 1..Len(orders), o \in Order : orders' = [orders EXCEPT ![p] = o] =>
         orders' \in Seq(Order) /\ Put(orders, orders', p, o)
  BY <1>1, RowPut
<1>3. \A g \in 1..Len(receipts), r \in Receipt : receipts' = [receipts EXCEPT ![g] = r] =>
         receipts' \in Seq(Receipt) /\ Put(receipts, receipts', g, r)
  BY <1>1, RowPut
<1>4. \A m \in 1..Len(returns), r \in Return : returns' = [returns EXCEPT ![m] = r] =>
         returns' \in Seq(Return) /\ Put(returns, returns', m, r)
  BY <1>1, RowPut
<1>5. \A b \in 1..Len(bills), i \in Bill : bills' = [bills EXCEPT ![b] = i] =>
         bills' \in Seq(Bill) /\ Put(bills, bills', b, i)
  BY <1>1, RowPut
<1>6. \A c \in 1..Len(payments), y \in Payment : payments' = [payments EXCEPT ![c] = y] =>
         payments' \in Seq(Payment) /\ Put(payments, payments', c, y)
  BY <1>1, RowPut
<1>7. QED
  BY <1>2, <1>3, <1>4, <1>5, <1>6

\* What they hold.
LEMMA RowFacts ==
  ASSUME TypeInv
  PROVE  /\ \A p \in 1..Len(orders) :
               /\ orders[p] \in Order
               /\ orders[p].line.qty \in Nat \ {0} /\ orders[p].received \in Nat
         /\ \A g \in 1..Len(receipts) :
               /\ receipts[g] \in Receipt
               /\ receipts[g].line.slot \in Slots /\ receipts[g].line.qty \in Nat \ {0}
               /\ receipts[g].line.cost \in Nat
         /\ \A m \in 1..Len(returns) : returns[m] \in Return /\ returns[m].qty \in Nat \ {0}
         /\ \A b \in 1..Len(bills) :
               bills[b] \in Bill /\ bills[b].total \in Nat /\ bills[b].paid \in Int /\ bills[b].due \in Nat
         /\ \A c \in 1..Len(payments) :
               /\ payments[c] \in Payment
               /\ payments[c].amount \in Nat \ {0} /\ payments[c].lines \in Seq(Nat)
               /\ Len(payments[c].lines) \in Nat
               /\ \A b \in Nat \ {0} : LineOf(payments[c].lines, b) \in Nat
<1>1. /\ \A p \in 1..Len(orders) : orders[p] \in Order
      /\ \A g \in 1..Len(receipts) : receipts[g] \in Receipt
      /\ \A m \in 1..Len(returns) : returns[m] \in Return
      /\ \A b \in 1..Len(bills) : bills[b] \in Bill
      /\ \A c \in 1..Len(payments) : payments[c] \in Payment
  BY TypedRows, ElementOfSeq
<1>2. \A p \in 1..Len(orders) : orders[p].line.qty \in Nat \ {0} /\ orders[p].received \in Nat
  BY <1>1, Zenon DEF Order, OrderPayload
<1>3. \A g \in 1..Len(receipts) :
         /\ receipts[g].line.slot \in Slots /\ receipts[g].line.qty \in Nat \ {0}
         /\ receipts[g].line.cost \in Nat
  BY <1>1, Zenon DEF Receipt, ReceiptPayload
<1>4. \A m \in 1..Len(returns) : returns[m].qty \in Nat \ {0}
  BY <1>1, Zenon DEF Return
<1>5. \A b \in 1..Len(bills) : bills[b].total \in Nat /\ bills[b].paid \in Int /\ bills[b].due \in Nat
  BY <1>1, Zenon DEF Bill
<1>6. \A c \in 1..Len(payments) : payments[c].amount \in Nat \ {0} /\ payments[c].lines \in Seq(Nat)
  BY <1>1, Zenon DEF Payment
<1>7. \A c \in 1..Len(payments) : /\ Len(payments[c].lines) \in Nat
                                  /\ \A b \in Nat \ {0} : LineOf(payments[c].lines, b) \in Nat
  <2> SUFFICES ASSUME NEW c \in 1..Len(payments), NEW b \in Nat \ {0}
               PROVE  Len(payments[c].lines) \in Nat /\ LineOf(payments[c].lines, b) \in Nat
    BY <1>6, LenProperties
  <2>1. payments[c].lines \in Seq(Nat) /\ Len(payments[c].lines) \in Nat
    BY <1>6, LenProperties
  <2>2. b <= Len(payments[c].lines) => b \in 1..Len(payments[c].lines)
    BY <2>1
  <2>3. QED
    BY <2>1, <2>2, ElementOfSeq DEF LineOf
<1>8. QED
  BY <1>1, <1>2, <1>3, <1>4, <1>5, <1>6, <1>7

\* It takes this to keep the types.
LEMMA TypeKept ==
  ASSUME TypeInv, policy' = policy, BooksTyped', NEW d, Moves(d),
         orders' \in Seq(Order), receipts' \in Seq(Receipt), returns' \in Seq(Return),
         bills' \in Seq(Bill), payments' \in Seq(Payment),
         \A g \in 1..Len(receipts') : ReceiptFine(g)',
         \A m \in 1..Len(returns') : returns'[m].receipt \in 1..Len(receipts'),
         \A c \in 1..Len(payments') : Len(payments'[c].lines) <= Len(bills')
  PROVE  TypeInv'
<1>1. Ledger!PricedInv'
  BY DEF Moves
<1>2. Ledger!TypeOK'
  BY <1>1 DEF Ledger!PricedInv, Ledger!AverageInv, Ledger!IInv
<1>3. Stock!TypeOK'
  BY <1>2, Zenon DEF Stock!TypeOK, Stock!Movement, Stock!MovementTypes, Stock!Slots, Stock!Row,
     Ledger!TypeOK, Ledger!Movement, Ledger!MovementTypes, Ledger!Slots, Ledger!Row
<1>4. TypeOK'
  BY <1>3, Zenon DEF TypeOK, ReceiptFine, BooksTyped, Entry
<1>5. QED
  BY <1>1, <1>4 DEF TypeInv, ReceiptsInv, LinesInv

\* Receipts keep their lines and what they name, and only those posted before are posted;
\* what is new names rows that exist.
RowsKept ==
    /\ Len(orders') >= Len(orders)
    /\ Len(receipts') >= Len(receipts)
    /\ \A g \in 1..Len(receipts) :
          /\ receipts'[g].line = receipts[g].line
          /\ receipts'[g].order = receipts[g].order /\ receipts'[g].orderLine = receipts[g].orderLine
          /\ receipts'[g].status = "POSTED" =>
                receipts[g].status = "POSTED" /\ receipts'[g].receipt = receipts[g].receipt
    /\ \A g \in 1..Len(receipts') : g > Len(receipts) =>
          /\ receipts'[g].status = "DRAFT"
          /\ receipts'[g].order \in 0..Len(orders) /\ receipts'[g].orderLine \in 0..Len(orders)
    /\ \A m \in 1..Len(returns') : returns'[m].receipt \in 1..Len(receipts)
    /\ \A c \in 1..Len(payments') : Len(payments'[c].lines) <= Len(bills')

\* That is so where no receipt changes.
LEMMA ReceiptsKept ==
  ASSUME TypeInv, receipts' = receipts, Len(orders') >= Len(orders),
         \A m \in 1..Len(returns') : returns'[m].receipt \in 1..Len(receipts),
         \A c \in 1..Len(payments') : Len(payments'[c].lines) <= Len(bills')
  PROVE  RowsKept
<1>1. Len(receipts) \in Nat
  BY TypedRows
<1>2. Len(receipts') >= Len(receipts) /\ \A g \in 1..Len(receipts') : ~(g > Len(receipts))
  BY <1>1
<1>3. QED
  BY <1>2 DEF RowsKept

\* A receipt that is kept keeps the row's facts.
LEMMA ReceiptStays ==
  ASSUME TypeInv, NEW d, Moves(d), Len(orders') >= Len(orders), Len(orders') \in Nat,
         NEW g \in 1..Len(receipts), receipts'[g].line = receipts[g].line,
         receipts'[g].order = receipts[g].order, receipts'[g].orderLine = receipts[g].orderLine,
         receipts'[g].status = "POSTED" =>
            receipts[g].status = "POSTED" /\ receipts'[g].receipt = receipts[g].receipt
  PROVE  ReceiptFine(g)'
<1>1. ReceiptFine(g) /\ Len(orders) \in Nat
  BY TypedRows DEF TypeInv, ReceiptsInv
<1>2. Len(movements) \in Nat /\ Len(movements') \in Nat /\ Len(movements') >= Len(movements)
  BY LedgerState DEF TypeInv, Moves
<1>3. receipts'[g].order \in 0..Len(orders') /\ receipts'[g].orderLine \in 0..Len(orders')
  BY <1>1 DEF ReceiptFine
<1>4. ASSUME receipts'[g].status = "POSTED"
      PROVE  /\ receipts'[g].receipt \in 1..Len(movements')
             /\ LET r == movements'[receipts'[g].receipt]
                IN  /\ r.qty = receipts'[g].line.qty
                    /\ r.cost = receipts'[g].line.cost
                    /\ r.link = "none"
  <2>1. receipts[g].receipt \in 1..Len(movements) /\ receipts'[g].receipt = receipts[g].receipt
    BY <1>1, <1>4 DEF ReceiptFine
  <2>2. movements'[receipts[g].receipt] = movements[receipts[g].receipt]
    BY <2>1 DEF Moves
  <2>3. QED
    BY <1>1, <1>2, <1>4, <2>1, <2>2 DEF ReceiptFine
<1>5. QED
  BY <1>3, <1>4 DEF ReceiptFine

\* Rows that are kept keep the types.
LEMMA TypeKeptByRows ==
  ASSUME TypeInv, policy' = policy, BooksTyped', NEW d, Moves(d),
         orders' \in Seq(Order), receipts' \in Seq(Receipt), returns' \in Seq(Return),
         bills' \in Seq(Bill), payments' \in Seq(Payment), RowsKept
  PROVE  TypeInv'
<1>1. /\ Len(orders) \in Nat /\ Len(orders') \in Nat /\ Len(orders') >= Len(orders)
      /\ Len(receipts) \in Nat /\ Len(receipts') \in Nat /\ Len(receipts') >= Len(receipts)
  BY TypedRows, LenProperties DEF RowsKept
<1>2. ASSUME NEW g \in 1..Len(receipts') PROVE ReceiptFine(g)'
  <2>1. CASE g \in 1..Len(receipts)
    BY <1>1, <2>1, ReceiptStays DEF RowsKept
  <2>2. CASE g \notin 1..Len(receipts)
    <3>1. /\ receipts'[g].status = "DRAFT"
          /\ receipts'[g].order \in 0..Len(orders) /\ receipts'[g].orderLine \in 0..Len(orders)
      <4>1. g > Len(receipts)
        BY <1>1, <2>2
      <4>2. QED
        BY <4>1 DEF RowsKept
    <3>2. QED
      BY <1>1, <3>1 DEF ReceiptFine
  <2>3. QED
    BY <2>1, <2>2
<1>3. \A m \in 1..Len(returns') : returns'[m].receipt \in 1..Len(receipts')
  BY <1>1 DEF RowsKept
<1>4. QED
  BY <1>2, <1>3, TypeKept DEF RowsKept

\* A stored cost is the nearest unit, on either side of zero.
LEMMA StoredNear ==
  /\ Stored(0) = 0
  /\ \A c \in Int :
        /\ Stored(c) \in Int /\ Stored(-c) = -Stored(c)
        /\ -LineUnit <= 2 * (LineUnit * Stored(c) - c)
        /\ 2 * (LineUnit * Stored(c) - c) <= LineUnit
<1>1. LineUnit \in Int /\ LineUnit > 0 /\ LineUnit \in Int \ {0}
  BY LineUnitAssumption
<1>2. \A c \in Int : Stored(c) = Ledger!Rounded(c, LineUnit)
  BY DEF Stored, Stock!Rounded, Ledger!Rounded
<1>3. \A c \in Int :
        /\ Stored(c) \in Int
        /\ 2 * (Stored(c) * LineUnit - c) <= LineUnit
        /\ 2 * (c - Stored(c) * LineUnit) <= LineUnit
  BY <1>1, <1>2, Ledger!RoundedNear, StockAssumption
<1>4. \A c \in Int : Stored(c) = IF c >= 0 THEN (2 * c + LineUnit) \div (2 * LineUnit)
                                 ELSE -((LineUnit - 2 * c) \div (2 * LineUnit))
  BY <1>1 DEF Stored, Stock!Rounded
<1>5. Stored(0) = 0
  <2>1. LineUnit \div (2 * LineUnit) = 0
    BY <1>1, SMT
  <2>2. QED
    BY <1>1, <1>4, <2>1
<1>6. ASSUME NEW c \in Int PROVE Stored(-c) = -Stored(c)
  <2>1. CASE c = 0
    BY <1>5, <2>1
  <2>2. CASE c > 0
    <3>1. Stored(c) = (2 * c + LineUnit) \div (2 * LineUnit)
      BY <1>4, <2>2
    <3>2. Stored(-c) = -((LineUnit - 2 * (-c)) \div (2 * LineUnit))
      BY <1>4, <2>2
    <3>3. LineUnit - 2 * (-c) = 2 * c + LineUnit
      BY <1>1, SMT
    <3>4. QED
      BY <3>1, <3>2, <3>3
  <2>3. CASE c < 0
    <3>1. Stored(-c) = (2 * (-c) + LineUnit) \div (2 * LineUnit)
      BY <1>4, <2>3
    <3>2. Stored(c) = -((LineUnit - 2 * c) \div (2 * LineUnit))
      BY <1>4, <2>3
    <3>3. LineUnit - 2 * c = 2 * (-c) + LineUnit
      BY <1>1, SMT
    <3>4. Stored(-c) \in Int
      BY <1>3
    <3>5. Stored(c) = -Stored(-c)
      BY <3>1, <3>2, <3>3
    <3>6. QED
      BY <3>4, <3>5
  <2>4. QED
    BY <2>1, <2>2, <2>3
<1>7. ASSUME NEW c \in Int
      PROVE  /\ -LineUnit <= 2 * (LineUnit * Stored(c) - c)
             /\ 2 * (LineUnit * Stored(c) - c) <= LineUnit
  <2> DEFINE z == Stored(c)
  <2>1. z \in Int /\ 2 * (z * LineUnit - c) <= LineUnit /\ 2 * (c - z * LineUnit) <= LineUnit
    BY <1>3
  <2> HIDE DEF z
  <2>2. z * LineUnit = LineUnit * z /\ LineUnit * z \in Int
    BY <1>1, <2>1, SMT
  <2>3. QED
    BY <1>1, <2>1, <2>2 DEF z
<1>8. QED
  BY <1>3, <1>5, <1>6, <1>7

\* What is booked is an entry, where its lines hold anything it is worth.
LEMMA BookingTyped ==
  ASSUME NEW r \in Int, NEW c \in Int, c # 0 => Stored(c) # 0
  PROVE  Booking(c, r) \in Entry
BY StoredNear DEF Booking, Entry

\* Goods that are bookable leave something in their lines, whichever way they go.
LEMMA BookableStored ==
  ASSUME NEW c \in Int, Bookable(c), policy.autoPosting, c > 0, NEW w \in {-1, 1}
  PROVE  w * c \in Int /\ Stored(w * c) # 0
<1>1. Stored(c) > 0 /\ Stored(c) \in Int /\ Stored(-c) = -Stored(c)
  BY StoredNear DEF Bookable
<1>2. CASE w = 1
  BY <1>1, <1>2
<1>3. CASE w = -1
  <2>1. w * c = -c
    BY <1>3
  <2>2. QED
    BY <1>1, <2>1
<1>4. QED
  BY <1>2, <1>3

\* What is published and what is taken back are entries.
LEMMA PublishedTyped ==
  ASSUME TypeInv, NEW entries, policy.autoPosting => \A k \in DOMAIN entries : entries[k] \in Entry,
         Published(entries)
  PROVE  BooksTyped'
<1>1. CASE policy.autoPosting
  BY <1>1 DEF Published, BooksTyped, TypeInv
<1>2. CASE ~policy.autoPosting
  BY <1>2 DEF Published, BooksTyped, TypeInv
<1>3. QED
  BY <1>1, <1>2

\* Taking entries back leaves typed ones.
LEMMA UnpublishedTyped ==
  ASSUME TypeInv, NEW k, Unpublished(k)
  PROVE  BooksTyped'
BY TypedRows DEF Unpublished, BooksTyped

\* An entry for goods is one, where what they cost can be booked.
LEMMA GoodsTyped ==
  ASSUME NEW k, NEW c \in Int, NEW w \in {-1, 1}, Bookable(c), policy.autoPosting
  PROVE  \A j \in DOMAIN GoodsEntry(k, c, w) : GoodsEntry(k, c, w)[j] \in Entry
<1>1. c > 0 => Booking(w * c, 0) \in Entry
  BY BookableStored, BookingTyped
<1>2. QED
  BY <1>1, Zenon DEF GoodsEntry

\* An entry for an amount owed is.
LEMMA MoneyTyped ==
  ASSUME NEW k, NEW v \in Int
  PROVE  \A j \in DOMAIN MoneyEntry(k, v) : MoneyEntry(k, v)[j] \in Entry
<1>1. Booking(0, v) \in Entry
  BY BookingTyped
<1>2. QED
  BY <1>1, Zenon DEF MoneyEntry

\* Where the ledger and the books stay.
LEMMA QuietBooks ==
  ASSUME TypeInv, UNCHANGED books, UNCHANGED stock
  PROVE  Moves(0) /\ BooksTyped'
BY StockStays, TypedRows DEF TypeInv, BooksTyped

-----------------------------------------------------------------------------
(* What every action does to the rows and to the ledger                    *)

\* Writing a row twice is writing it once.
LEMMA PutTwice ==
  ASSUME NEW f, NEW n \in DOMAIN f, NEW r, NEW h, h = [f EXCEPT ![n] = r],
         NEW s, NEW g, g = [h EXCEPT ![n] = s]
  PROVE  h[n] = r /\ g = [f EXCEPT ![n] = s]
BY Zenon

\* A new order is a draft.
LEMMA CreateOrderEffect ==
  ASSUME TypeInv, NEW line \in OrderPayloads, CreateOrder(line)
  PROVE  /\ Grown(orders, orders', [line |-> line, received |-> 0, status |-> "DRAFT",
                                    approvedOnce |-> FALSE])
         /\ UNCHANGED <<receipts, returns, bills, payments, books, policy>>
         /\ TypeInv' /\ Moves(0)
<1> DEFINE o == [line |-> line, received |-> 0, status |-> "DRAFT", approvedOnce |-> FALSE]
<1>1. o \in Order
  BY PayloadsAssumption DEF Order, OrderStatuses
<1>2. /\ orders' = Append(orders, o)
      /\ UNCHANGED <<receipts, returns, bills, payments, books, policy, stock>>
  BY DEF CreateOrder, Paying
<1> HIDE DEF o
<1>3. orders' \in Seq(Order) /\ Len(orders) \in Nat /\ Grown(orders, orders', o)
  BY <1>1, <1>2, TypedRows, RowAdded
<1>4. Moves(0) /\ BooksTyped'
  BY <1>2, QuietBooks
<1>5. RowsKept
  BY <1>2, <1>3, TypedRows, ReceiptsKept DEF Grown
<1>6. TypeInv'
  BY <1>2, <1>3, <1>4, <1>5, TypedRows, TypeKeptByRows
<1>7. QED
  BY <1>2, <1>3, <1>4, <1>6 DEF o

\* An approved one was a draft.
LEMMA ApproveOrderEffect ==
  ASSUME TypeInv, NEW p \in 1..Len(orders), ApproveOrder(p)
  PROVE  /\ Put(orders, orders', p, [line |-> orders[p].line, received |-> orders[p].received,
                                     status |-> "APPROVED", approvedOnce |-> TRUE])
         /\ orders[p].status = "DRAFT"
         /\ UNCHANGED <<receipts, returns, bills, payments, books, policy>>
         /\ TypeInv' /\ Moves(0)
<1> DEFINE r == orders[p]
           o == [line |-> r.line, received |-> r.received, status |-> "APPROVED", approvedOnce |-> TRUE]
           a == [r EXCEPT !.status = "APPROVED"]
           h == [orders EXCEPT ![p] = a]
<1>1. r \in Order /\ orders \in Seq(Order) /\ p \in DOMAIN orders
  BY RowFacts, TypedRows, LenProperties
<1>2. o \in Order /\ [a EXCEPT !.approvedOnce = TRUE] = o
  <2>1. o \in Order
    BY <1>1 DEF Order, OrderStatuses
  <2>2. a = [line |-> r.line, received |-> r.received, status |-> "APPROVED",
             approvedOnce |-> r.approvedOnce]
    BY <1>1 DEF Order
  <2> HIDE DEF a
  <2>3. [a EXCEPT !.approvedOnce = TRUE] = o
    <3> DEFINE t == TRUE
               x == [a EXCEPT !.approvedOnce = t]
    <3> HIDE DEF t
    <3>1. x = [line |-> r.line, received |-> r.received, status |-> "APPROVED", approvedOnce |-> t]
      BY <2>2
    <3>2. QED
      BY <3>1 DEF t
  <2>4. QED
    BY <2>1, <2>3
<1>3. /\ orders' = [h EXCEPT ![p] = [h[p] EXCEPT !.approvedOnce = TRUE]]
      /\ r.status = "DRAFT"
      /\ UNCHANGED <<receipts, returns, bills, payments, books, policy, stock>>
  BY DEF ApproveOrder, Paying
<1> HIDE DEF o, a
<1>4. h[p] = a
  BY <1>1
<1>5. orders' = [orders EXCEPT ![p] = o]
  <2>1. orders' = [h EXCEPT ![p] = o]
    BY <1>2, <1>3, <1>4
  <2>2. QED
    BY <1>1, <2>1, PutTwice
<1>6. orders' \in Seq(Order) /\ Len(orders) \in Nat /\ Put(orders, orders', p, o)
  BY <1>2, <1>5, TypedRows, RowsPut
<1>7. Moves(0) /\ BooksTyped'
  BY <1>3, QuietBooks
<1>8. RowsKept
  BY <1>3, <1>6, TypedRows, ReceiptsKept DEF Put
<1>9. TypeInv'
  BY <1>3, <1>6, <1>7, <1>8, TypedRows, TypeKeptByRows
<1>10. QED
  BY <1>3, <1>6, <1>7, <1>9 DEF o

\* A cancelled one had not received anything yet, or is received all the same.
LEMMA CancelOrderEffect ==
  ASSUME TypeInv, NEW p \in 1..Len(orders), CancelOrder(p)
  PROVE  /\ Put(orders, orders', p, [orders[p] EXCEPT !.status = "CANCELLED"])
         /\ UNCHANGED <<receipts, returns, bills, payments, books, policy>>
         /\ TypeInv' /\ Moves(0)
<1> DEFINE o == [orders[p] EXCEPT !.status = "CANCELLED"]
<1>1. orders[p] \in Order /\ orders \in Seq(Order)
  BY RowFacts, TypedRows
<1>2. o \in Order
  BY <1>1 DEF Order, OrderStatuses
<1>3. /\ orders' = [orders EXCEPT ![p] = o]
      /\ UNCHANGED <<receipts, returns, bills, payments, books, policy, stock>>
  BY DEF CancelOrder, Paying
<1> HIDE DEF o
<1>4. orders' \in Seq(Order) /\ Len(orders) \in Nat /\ Put(orders, orders', p, o)
  BY <1>2, <1>3, TypedRows, RowsPut
<1>5. Moves(0) /\ BooksTyped'
  BY <1>3, QuietBooks
<1>6. RowsKept
  BY <1>3, <1>4, TypedRows, ReceiptsKept DEF Put
<1>7. TypeInv'
  BY <1>3, <1>4, <1>5, <1>6, TypedRows, TypeKeptByRows
<1>8. QED
  BY <1>3, <1>4, <1>5, <1>7 DEF o

\* A new receipt is a draft, on an order that is approved if it has one.
LEMMA CreateReceiptEffect ==
  ASSUME TypeInv, NEW line \in ReceiptPayloads, NEW p \in 0..Len(orders), NEW q \in 0..Len(orders),
         CreateReceipt(line, p, q)
  PROVE  /\ Grown(receipts, receipts', [line |-> line, order |-> p, orderLine |-> q,
                                        receipt |-> 0, status |-> "DRAFT"])
         /\ p # 0 => orders[p].status = "APPROVED"
         /\ UNCHANGED <<orders, returns, bills, payments, books, policy>>
         /\ TypeInv' /\ Moves(0)
<1> DEFINE r == [line |-> line, order |-> p, orderLine |-> q, receipt |-> 0, status |-> "DRAFT"]
<1>1. r \in Receipt /\ r.status = "DRAFT" /\ r.order = p /\ r.orderLine = q
  BY PayloadsAssumption, TypedRows DEF Receipt
<1>2. /\ receipts' = Append(receipts, r)
      /\ p # 0 => orders[p].status = "APPROVED"
      /\ UNCHANGED <<orders, returns, bills, payments, books, policy, stock>>
  BY DEF CreateReceipt, FlowAllows, Paying
<1> HIDE DEF r
<1>3. receipts' \in Seq(Receipt) /\ Len(receipts) \in Nat /\ Grown(receipts, receipts', r)
  BY <1>1, <1>2, TypedRows, RowAdded
<1>4. Moves(0) /\ BooksTyped'
  BY <1>2, QuietBooks
<1>5. RowsKept
  <2>1. \A g \in 1..Len(receipts') : g > Len(receipts) => g = Len(receipts) + 1
    BY <1>3 DEF Grown
  <2>2. \A g \in 1..Len(receipts') : g > Len(receipts) =>
           /\ receipts'[g].status = "DRAFT"
           /\ receipts'[g].order \in 0..Len(orders) /\ receipts'[g].orderLine \in 0..Len(orders)
    BY <1>1, <1>3, <2>1 DEF Grown
  <2>3. \A g \in 1..Len(receipts) : receipts'[g] = receipts[g]
    BY <1>3 DEF Grown
  <2>4. Len(receipts') >= Len(receipts)
    BY <1>3 DEF Grown
  <2>5. QED
    BY <1>2, <2>2, <2>3, <2>4, TypedRows DEF RowsKept
<1>6. TypeInv'
  BY <1>2, <1>3, <1>4, <1>5, TypedRows, TypeKeptByRows
<1>7. QED
  BY <1>2, <1>3, <1>4, <1>6 DEF r

\* The order's line after qty came on it is one.
LEMMA ReceivedTyped ==
  ASSUME NEW o \in Order, NEW qty \in Nat
  PROVE  /\ Received(o, qty) \in Order
         /\ Received(o, qty).line = o.line /\ Received(o, qty).approvedOnce = o.approvedOnce
         /\ Received(o, qty).received = o.received + qty
         /\ Received(o, qty).status =
               IF o.status = "CANCELLED" THEN "CANCELLED"
               ELSE IF o.received + qty >= o.line.qty THEN "FULLY_RECEIVED"
               ELSE IF o.received + qty > 0 THEN "PARTIALLY_RECEIVED" ELSE o.status
<1> DEFINE all == o.received + qty
           t == IF o.status = "CANCELLED" THEN "CANCELLED"
                ELSE IF all >= o.line.qty THEN "FULLY_RECEIVED"
                ELSE IF all > 0 THEN "PARTIALLY_RECEIVED" ELSE o.status
           a == [o EXCEPT !.received = all]
<1>1. all \in Nat /\ t \in OrderStatuses /\ o.line \in OrderPayload /\ o.approvedOnce \in BOOLEAN
  BY DEF Order, OrderStatuses
<1>2. a = [line |-> o.line, received |-> all, status |-> o.status, approvedOnce |-> o.approvedOnce]
  BY DEF Order
<1>3. Received(o, qty) = [a EXCEPT !.status = t]
  <2>1. a.status = o.status
    BY <1>2
  <2> HIDE DEF all
  <2>2. QED
    BY <2>1 DEF Received, all
<1> HIDE DEF a
<1>4. Received(o, qty) = [line |-> o.line, received |-> all, status |-> t, approvedOnce |-> o.approvedOnce]
  <2> HIDE DEF t, all
  <2>1. QED
    BY <1>2, <1>3
<1>5. Received(o, qty) \in Order
  <2> HIDE DEF t, all
  <2>1. QED
    BY <1>1, <1>4 DEF Order
<1>6. QED
  BY <1>4, <1>5

\* Posting a receipt brings its goods at its cost, counts them on the order its line refers
\* to, and books what they cost.
LEMMA PostReceiptEffect ==
  ASSUME TypeInv, NEW g \in 1..Len(receipts), PostReceipt(g)
  PROVE  LET r == receipts[g]
         IN  /\ r.status = "DRAFT"
             /\ Put(receipts, receipts', g, [line |-> r.line, order |-> r.order,
                        orderLine |-> r.orderLine, receipt |-> Len(movements) + 1,
                        status |-> "POSTED"])
             /\ r.orderLine = 0 => orders' = orders
             /\ r.orderLine # 0 =>
                   /\ r.orderLine \in 1..Len(orders)
                   /\ Put(orders, orders', r.orderLine,
                          Received(orders[r.orderLine], r.line.qty))
             /\ Published(GoodsEntry(<<"receipt", g>>, r.line.qty * r.line.cost, 1))
             /\ r.line.qty * r.line.cost \in Nat
             /\ UNCHANGED <<returns, bills, payments, policy>>
             /\ TypeInv' /\ Moves(r.line.qty * r.line.cost)
<1> DEFINE r == receipts[g]
           worth == r.line.qty * r.line.cost
           n == [line |-> r.line, order |-> r.order, orderLine |-> r.orderLine,
                 receipt |-> Len(movements) + 1, status |-> "POSTED"]
           a == [r EXCEPT !.status = "POSTED"]
           h == [receipts EXCEPT ![g] = a]
<1>1. /\ r \in Receipt /\ r.line.slot \in Slots /\ r.line.qty \in Nat \ {0} /\ r.line.cost \in Nat
      /\ receipts \in Seq(Receipt) /\ g \in DOMAIN receipts
  BY RowFacts, TypedRows, LenProperties
<1>2. Ledger!PricedInv /\ Len(movements) \in Nat
  BY LedgerState DEF TypeInv
<1>3. /\ r.status = "DRAFT"
      /\ receipts' = [h EXCEPT ![g] = [h[g] EXCEPT !.receipt = Len(movements) + 1]]
      /\ orders' = IF r.orderLine = 0 THEN orders
                   ELSE [orders EXCEPT ![r.orderLine] = Received(@, r.line.qty)]
      /\ Published(GoodsEntry(<<"receipt", g>>, worth, 1))
      /\ UNCHANGED <<returns, bills, payments, policy>>
      /\ Stock!Receive(r.line.slot, r.line.qty, r.line.cost)
  BY DEF PostReceipt, Paying
<1>4. n \in Receipt /\ [a EXCEPT !.receipt = Len(movements) + 1] = n
  <2>1. n \in Receipt
    BY <1>1, <1>2 DEF Receipt
  <2>2. a = [line |-> r.line, order |-> r.order, orderLine |-> r.orderLine, receipt |-> r.receipt,
             status |-> "POSTED"]
    <3>1. r \in Receipt
      BY <1>1
    <3>2. QED
      BY <3>1 DEF Receipt
  <2> HIDE DEF a
  <2>3. QED
    BY <2>1, <2>2
<1>5. /\ n.line = r.line /\ n.order = r.order /\ n.orderLine = r.orderLine
      /\ n.receipt = Len(movements) + 1
  OBVIOUS
<1> HIDE DEF n, a
<1>6. receipts' = [receipts EXCEPT ![g] = n]
  <2>1. h[g] = a
    BY <1>1
  <2>2. receipts' = [h EXCEPT ![g] = n]
    BY <1>3, <1>4, <2>1
  <2>3. QED
    BY <1>1, <2>2, PutTwice
<1>7. receipts' \in Seq(Receipt) /\ Len(receipts) \in Nat /\ Put(receipts, receipts', g, n)
  BY <1>4, <1>6, TypedRows, RowsPut
<1>8. worth \in Nat
  <2>1. \A x, y \in Nat : x * y \in Nat
    BY SMT
  <2>2. QED
    BY <1>1, <2>1
<1>9. /\ Moves(worth)
      /\ Len(movements') = Len(movements) + 1
      /\ LET m == movements'[Len(movements) + 1]
         IN  m.qty = r.line.qty /\ m.cost = r.line.cost /\ m.link = "none"
  BY <1>1, <1>2, <1>3, ReceiveMoves
<1>10. /\ orders' \in Seq(Order) /\ Len(orders') = Len(orders) /\ Len(orders) \in Nat
       /\ r.orderLine # 0 =>
             /\ r.orderLine \in 1..Len(orders)
             /\ Put(orders, orders', r.orderLine, Received(orders[r.orderLine], r.line.qty))
  <2>1. r.orderLine \in 0..Len(orders) /\ orders \in Seq(Order) /\ Len(orders) \in Nat
    BY TypedRows
  <2>2. CASE r.orderLine = 0
    BY <1>3, <2>1, <2>2
  <2>3. CASE r.orderLine # 0
    <3>1. r.orderLine \in 1..Len(orders)
      BY <2>1, <2>3
    <3>2. Received(orders[r.orderLine], r.line.qty) \in Order
      BY <1>1, <3>1, RowFacts, ReceivedTyped
    <3>3. orders' = [orders EXCEPT ![r.orderLine] = Received(orders[r.orderLine], r.line.qty)]
      BY <1>3, <2>3
    <3>4. orders' \in Seq(Order) /\ Put(orders, orders', r.orderLine,
                                        Received(orders[r.orderLine], r.line.qty))
      BY <3>1, <3>2, <3>3, RowsPut
    <3>5. QED
      BY <2>1, <3>1, <3>4 DEF Put
  <2>4. QED
    BY <2>2, <2>3
<1>11. BooksTyped'
  <2>1. Bookable(worth)
    BY DEF PostReceipt
  <2> HIDE DEF worth
  <2>2. QED
    BY <1>3, <1>8, <2>1, GoodsTyped, PublishedTyped
<1>12. ASSUME NEW k \in 1..Len(receipts') PROVE ReceiptFine(k)'
  <2>1. k \in 1..Len(receipts)
    BY <1>7 DEF Put
  <2>2. CASE k = g
    <3>1. receipts'[k] = n
      BY <1>7, <2>2 DEF Put
    <3>2. r.order \in 0..Len(orders') /\ r.orderLine \in 0..Len(orders')
      BY <1>10, TypedRows
    <3>3. Len(movements) + 1 \in 1..Len(movements')
      BY <1>2, <1>9
    <3>4. QED
      BY <1>5, <1>9, <3>1, <3>2, <3>3 DEF ReceiptFine
  <2>3. CASE k # g
    <3>1. receipts'[k] = receipts[k]
      BY <1>7, <2>1, <2>3 DEF Put
    <3>2. QED
      BY <1>9, <1>10, <2>1, <3>1, ReceiptStays
  <2>4. QED
    BY <2>2, <2>3
<1>13. TypeInv'
  <2>1. /\ \A m \in 1..Len(returns') : returns'[m].receipt \in 1..Len(receipts')
        /\ \A c \in 1..Len(payments') : Len(payments'[c].lines) <= Len(bills')
    BY <1>3, <1>7, TypedRows DEF Put
  <2>2. QED
    BY <1>3, <1>7, <1>9, <1>10, <1>11, <1>12, <2>1, TypedRows, TypeKept
<1>14. QED
  BY <1>3, <1>7, <1>8, <1>9, <1>10, <1>13 DEF n

\* Cancelling a receipt takes a posted one's goods and entry back.
LEMMA CancelReceiptEffect ==
  ASSUME TypeInv, NEW g \in 1..Len(receipts), CancelReceipt(g)
  PROVE  LET r == receipts[g]
         IN  /\ Put(receipts, receipts', g, [r EXCEPT !.status = "CANCELLED"])
             /\ \/ r.status = "DRAFT" /\ Moves(0) /\ books' = books
                \/ /\ r.status = "POSTED"
                   /\ Moves(-(r.line.qty * r.line.cost))
                   /\ Unpublished(<<"receipt", g>>)
             /\ UNCHANGED <<orders, returns, bills, payments, policy>>
             /\ TypeInv'
<1> DEFINE r == receipts[g]
           n == [r EXCEPT !.status = "CANCELLED"]
<1>1. /\ r \in Receipt /\ r.line.qty \in Nat \ {0} /\ r.line.cost \in Nat
      /\ receipts \in Seq(Receipt) /\ Ledger!PricedInv
  BY RowFacts, TypedRows DEF TypeInv
<1>2. /\ n \in Receipt /\ n.line = r.line /\ n.order = r.order /\ n.orderLine = r.orderLine
      /\ n.status = "CANCELLED"
  BY <1>1 DEF Receipt
<1>3. /\ receipts' = [receipts EXCEPT ![g] = n]
      /\ UNCHANGED <<orders, returns, bills, payments, policy>>
  BY DEF CancelReceipt, Paying
<1> HIDE DEF n
<1>4. receipts' \in Seq(Receipt) /\ Len(receipts) \in Nat /\ Put(receipts, receipts', g, n)
  BY <1>2, <1>3, TypedRows, RowsPut
<1>5. \/ r.status = "DRAFT" /\ Moves(0) /\ books' = books
      \/ /\ r.status = "POSTED"
         /\ Moves(-(r.line.qty * r.line.cost))
         /\ Unpublished(<<"receipt", g>>)
  <2>1. CASE r.status = "DRAFT"
    <3>1. UNCHANGED <<books, stock>>
      BY <2>1 DEF CancelReceipt
    <3>2. QED
      BY <1>1, <2>1, <3>1, StockStays
  <2>2. CASE r.status = "POSTED"
    <3>1. Stock!Reverse(r.receipt) /\ Unpublished(<<"receipt", g>>)
      BY <2>2 DEF CancelReceipt
    <3>2. /\ r.receipt \in 1..Len(movements) /\ movements[r.receipt].link = "none"
          /\ movements[r.receipt].qty = r.line.qty /\ movements[r.receipt].cost = r.line.cost
      BY <2>2 DEF TypeInv, ReceiptsInv, ReceiptFine
    <3>3. Moves((-r.line.qty) * r.line.cost)
      BY <1>1, <3>1, <3>2, ReverseMoves
    <3>4. (-r.line.qty) * r.line.cost = -(r.line.qty * r.line.cost)
      <4>1. \A x, y \in Int : (-x) * y = -(x * y)
        BY SMT
      <4>2. QED
        BY <1>1, <4>1
    <3>5. QED
      BY <2>2, <3>1, <3>3, <3>4
  <2>3. QED
    BY <2>1, <2>2 DEF CancelReceipt
<1>6. PICK d : Moves(d)
  BY <1>5
<1>7. BooksTyped'
  BY <1>5, TypedRows, UnpublishedTyped DEF BooksTyped
<1>8. RowsKept
  <2>1. ASSUME NEW k \in 1..Len(receipts)
        PROVE  /\ receipts'[k].line = receipts[k].line
               /\ receipts'[k].order = receipts[k].order
               /\ receipts'[k].orderLine = receipts[k].orderLine
               /\ receipts'[k].status = "POSTED" =>
                     receipts[k].status = "POSTED" /\ receipts'[k].receipt = receipts[k].receipt
    BY <1>2, <1>4 DEF Put
  <2>2. Len(receipts') >= Len(receipts) /\ \A k \in 1..Len(receipts') : ~(k > Len(receipts))
    BY <1>4 DEF Put
  <2>3. QED
    BY <1>3, <2>1, <2>2, TypedRows DEF RowsKept
<1>9. TypeInv'
  BY <1>3, <1>4, <1>6, <1>7, <1>8, TypedRows, TypeKeptByRows
<1>10. QED
  BY <1>3, <1>4, <1>5, <1>9 DEF n

\* A new return remembers whether another draft of its receipt was there.
LEMMA CreateReturnEffect ==
  ASSUME TypeInv, NEW g \in 1..Len(receipts), NEW q \in Quantities, CreateReturn(g, q)
  PROVE  /\ Len(returns') = Len(returns) + 1
         /\ \A m \in 1..Len(returns) : returns'[m] = returns[m]
         /\ LET m == returns'[Len(returns) + 1]
            IN  /\ m.receipt = g /\ m.qty = q /\ m.status = "DRAFT"
                /\ m.overlapped <=> \E k \in 1..Len(returns) :
                                       returns[k].receipt = g /\ returns[k].status = "DRAFT"
         /\ q \in Nat \ {0} /\ TotalReturned(g) + q <= receipts[g].line.qty
         /\ UNCHANGED <<orders, receipts, bills, payments, books, policy>>
         /\ TypeInv' /\ Moves(0)
<1> DEFINE o == \E k \in 1..Len(returns) : returns[k].receipt = g /\ returns[k].status = "DRAFT"
           r == [receipt |-> g, qty |-> q, status |-> "DRAFT", overlapped |-> o]
<1>1. /\ returns' = Append(returns, r) /\ TotalReturned(g) + q <= receipts[g].line.qty
      /\ UNCHANGED <<orders, receipts, bills, payments, books, policy, stock>>
  BY DEF CreateReturn, Paying
<1>2. q \in Nat \ {0} /\ g \in Nat \ {0}
  BY StockAssumption, TypedRows
<1>3. o \in BOOLEAN
  OBVIOUS
<1> HIDE DEF o
<1>4. r \in Return /\ r.receipt = g /\ r.qty = q /\ r.status = "DRAFT" /\ r.overlapped = o
  BY <1>2, <1>3 DEF Return
<1> HIDE DEF r
<1>5. returns' \in Seq(Return) /\ Len(returns) \in Nat /\ Grown(returns, returns', r)
  BY <1>1, <1>4, TypedRows, RowAdded
<1>6. Moves(0) /\ BooksTyped'
  BY <1>1, QuietBooks
<1>7. RowsKept
  <2>1. ASSUME NEW m \in 1..Len(returns') PROVE returns'[m].receipt \in 1..Len(receipts)
    <3>1. CASE m \in 1..Len(returns)
      BY <1>5, <3>1, TypedRows DEF Grown
    <3>2. CASE m \notin 1..Len(returns)
      <4>1. m = Len(returns) + 1
        BY <1>5, <3>2 DEF Grown
      <4>2. QED
        BY <1>4, <1>5, <4>1 DEF Grown
    <3>3. QED
      BY <3>1, <3>2
  <2>2. QED
    BY <1>1, <2>1, TypedRows, ReceiptsKept
<1>8. TypeInv'
  BY <1>1, <1>5, <1>6, <1>7, TypedRows, TypeKeptByRows
<1>9. /\ Len(returns') = Len(returns) + 1
      /\ \A m \in 1..Len(returns) : returns'[m] = returns[m]
      /\ returns'[Len(returns) + 1] = r
  BY <1>5 DEF Grown
<1>10. r.overlapped <=> \E k \in 1..Len(returns) : returns[k].receipt = g /\ returns[k].status = "DRAFT"
  BY <1>4 DEF o
<1>11. QED
  BY <1>1, <1>2, <1>4, <1>6, <1>8, <1>9, <1>10

\* Posting one lets its goods go at their average, and books that.
LEMMA PostReturnEffect ==
  ASSUME TypeInv, NEW m \in 1..Len(returns), PostReturn(m)
  PROVE  LET s == receipts[returns[m].receipt].line.slot
             cost == returns[m].qty * balances[s].avg
         IN  /\ returns[m].status = "DRAFT"
             /\ Put(returns, returns', m, [returns[m] EXCEPT !.status = "POSTED"])
             /\ Published(GoodsEntry(<<"return", m>>, cost, -1))
             /\ UNCHANGED <<orders, receipts, bills, payments, policy>>
             /\ cost \in Int /\ (Ledger!NeverShort => cost >= 0)
             /\ TypeInv' /\ Moves(-cost)
<1> DEFINE s == receipts[returns[m].receipt].line.slot
           avg == balances[s].avg
           q == returns[m].qty
           cost == q * avg
           r == [returns[m] EXCEPT !.status = "POSTED"]
<1>1. returns[m] \in Return /\ q \in Nat \ {0} /\ s \in Slots
  BY TypedRows, RowFacts
<1>2. Ledger!PricedInv /\ avg \in Int /\ (Ledger!NeverShort => avg >= 0)
  BY <1>1, LedgerState DEF TypeInv
<1>3. r \in Return /\ r.receipt = returns[m].receipt
  <2>1. returns[m] \in Return
    BY <1>1
  <2>2. QED
    BY <2>1 DEF Return
<1>4. /\ returns[m].status = "DRAFT"
      /\ returns' = [returns EXCEPT ![m] = r]
      /\ Published(GoodsEntry(<<"return", m>>, cost, -1))
      /\ UNCHANGED <<orders, receipts, bills, payments, policy>>
      /\ Stock!Issue(s, q, FALSE)
  BY DEF PostReturn, Paying
<1> HIDE DEF r
<1>5. returns' \in Seq(Return) /\ Len(returns) \in Nat /\ Put(returns, returns', m, r)
  BY <1>3, <1>4, TypedRows, RowsPut
<1>6. /\ cost \in Int /\ (avg >= 0 => cost >= 0) /\ (-q) * avg = -cost
  <2>1. \A x \in Nat, y \in Int : x * y \in Int /\ (y >= 0 => x * y >= 0) /\ (-x) * y = -(x * y)
    BY SMT
  <2> HIDE DEF q, avg
  <2>2. q \in Nat /\ avg \in Int
    BY <1>1, <1>2
  <2>3. QED
    BY <2>1, <2>2
<1>7. Moves(-cost)
  <2>1. Moves((-q) * avg)
    BY <1>1, <1>2, <1>4, IssueMoves
  <2> HIDE DEF cost
  <2>2. QED
    BY <1>6, <2>1
<1>8. BooksTyped'
  <2>1. Bookable(cost)
    BY DEF PostReturn
  <2> HIDE DEF cost
  <2>2. QED
    BY <1>4, <1>6, <2>1, GoodsTyped, PublishedTyped
<1>9. RowsKept
  <2>1. ASSUME NEW k \in 1..Len(returns') PROVE returns'[k].receipt \in 1..Len(receipts)
    <3>1. k \in 1..Len(returns) /\ returns'[k].receipt = returns[k].receipt
      BY <1>3, <1>5 DEF Put
    <3>2. QED
      BY <3>1, TypedRows
  <2>2. /\ Len(orders') >= Len(orders)
        /\ \A c \in 1..Len(payments') : Len(payments'[c].lines) <= Len(bills')
    <3>1. orders' = orders /\ bills' = bills /\ payments' = payments
      BY <1>4
    <3>2. /\ Len(orders) \in Nat
          /\ \A c \in 1..Len(payments) : Len(payments[c].lines) <= Len(bills)
      BY TypedRows
    <3>3. QED
      BY <3>1, <3>2
  <2>3. QED
    BY <1>4, <2>1, <2>2, ReceiptsKept
<1>10. TypeInv'
  <2> DEFINE d == -cost
  <2>1. /\ orders' \in Seq(Order) /\ receipts' \in Seq(Receipt) /\ returns' \in Seq(Return)
        /\ bills' \in Seq(Bill) /\ payments' \in Seq(Payment) /\ policy' = policy
    BY <1>4, <1>5, TypedRows
  <2>2. Moves(d)
    BY <1>7
  <2> HIDE DEF d, cost
  <2>3. QED
    BY <1>8, <1>9, <2>1, <2>2, TypeKeptByRows
<1>11. QED
  BY <1>2, <1>4, <1>5, <1>6, <1>7, <1>10 DEF r

\* Where only bills and payments change.
LEMMA PayingKept ==
  ASSUME TypeInv, UNCHANGED <<orders, receipts, returns, policy>>, NEW d, Moves(d), BooksTyped',
         bills' \in Seq(Bill), payments' \in Seq(Payment),
         \A c \in 1..Len(payments') : Len(payments'[c].lines) <= Len(bills')
  PROVE  TypeInv'
<1>1. RowsKept
  <2>1. /\ Len(orders) \in Nat /\ Len(orders') >= Len(orders)
        /\ \A m \in 1..Len(returns) : returns[m].receipt \in 1..Len(receipts)
    BY TypedRows
  <2>2. QED
    BY <2>1, ReceiptsKept
<1>2. orders' \in Seq(Order) /\ receipts' \in Seq(Receipt) /\ returns' \in Seq(Return)
  BY TypedRows
<1>3. QED
  BY <1>1, <1>2, TypeKeptByRows

\* A new bill is a draft that nothing was paid on.
LEMMA CreateBillEffect ==
  ASSUME TypeInv, NEW payload \in BillPayloads, CreateBill(payload)
  PROVE  /\ Grown(bills, bills', [total |-> payload.total, gates |-> payload.gates,
                                  paid |-> 0, due |-> 0, status |-> "DRAFT"])
         /\ UNCHANGED <<orders, receipts, returns, payments, books, policy>>
         /\ TypeInv' /\ Moves(0)
<1> DEFINE i == [total |-> payload.total, gates |-> payload.gates, paid |-> 0, due |-> 0,
                 status |-> "DRAFT"]
<1>1. i \in Bill
  <2>1. payload \in BillPayload
    BY PayloadsAssumption
  <2>2. payload.total \in Nat /\ payload.gates \in SUBSET Gates
    BY <2>1 DEF BillPayload
  <2>3. QED
    BY <2>2 DEF Bill
<1>2. /\ bills' = Append(bills, i)
      /\ UNCHANGED <<orders, receipts, returns, payments, books, policy, stock>>
  BY DEF CreateBill, Ordering
<1> HIDE DEF i
<1>3. bills' \in Seq(Bill) /\ Len(bills) \in Nat /\ Grown(bills, bills', i)
  BY <1>1, <1>2, TypedRows, RowAdded
<1>4. Moves(0) /\ BooksTyped'
  BY <1>2, QuietBooks
<1>5. \A c \in 1..Len(payments') : Len(payments'[c].lines) <= Len(bills')
  <2>1. \A c \in 1..Len(payments) : Len(payments[c].lines) \in Nat /\ Len(payments[c].lines) <= Len(bills)
    BY TypedRows, RowFacts
  <2>2. QED
    BY <1>2, <1>3, <2>1 DEF Grown
<1>6. TypeInv'
  BY <1>2, <1>3, <1>4, <1>5, TypedRows, PayingKept
<1>7. QED
  BY <1>2, <1>3, <1>4, <1>6 DEF i

\* Posting one books its total.
LEMMA PostBillEffect ==
  ASSUME TypeInv, NEW b \in 1..Len(bills), NEW due \in DueDates, PostBill(b, due)
  PROVE  /\ bills[b].status = "DRAFT"
         /\ Put(bills, bills', b, [total |-> bills[b].total, gates |-> bills[b].gates,
                                   paid |-> bills[b].paid, due |-> due, status |-> "POSTED"])
         /\ Published(MoneyEntry(<<"bill", b>>, bills[b].total))
         /\ UNCHANGED <<orders, receipts, returns, payments, policy>>
         /\ TypeInv' /\ Moves(0)
<1> DEFINE r == bills[b]
           i == [total |-> r.total, gates |-> r.gates, paid |-> r.paid, due |-> due,
                 status |-> "POSTED"]
           a == [r EXCEPT !.status = "POSTED"]
           h == [bills EXCEPT ![b] = a]
<1>1. r \in Bill /\ b \in DOMAIN bills /\ r.total \in Int
  BY RowFacts, TypedRows, LenProperties
<1>2. i \in Bill /\ [a EXCEPT !.due = due] = i
  <2>1. r \in Bill /\ due \in Nat
    BY <1>1, AmountsAssumption
  <2>2. i \in Bill
    BY <2>1 DEF Bill
  <2>3. a = [total |-> r.total, gates |-> r.gates, paid |-> r.paid, due |-> r.due,
             status |-> "POSTED"]
    BY <2>1 DEF Bill
  <2> HIDE DEF a
  <2>4. [a EXCEPT !.due = due] = i
    BY <2>3
  <2>5. QED
    BY <2>2, <2>4
<1>3. /\ r.status = "DRAFT"
      /\ bills' = [h EXCEPT ![b] = [h[b] EXCEPT !.due = due]]
      /\ Published(MoneyEntry(<<"bill", b>>, r.total))
      /\ UNCHANGED <<orders, receipts, returns, payments, policy, stock>>
  BY DEF PostBill, Ordering
<1> HIDE DEF i, a
<1>4. bills' = [bills EXCEPT ![b] = i]
  <2>1. h[b] = a
    BY <1>1
  <2>2. bills' = [h EXCEPT ![b] = i]
    BY <1>2, <1>3, <2>1
  <2>3. QED
    BY <1>1, <2>2, PutTwice
<1>5. bills' \in Seq(Bill) /\ Len(bills) \in Nat /\ Put(bills, bills', b, i)
  BY <1>2, <1>4, TypedRows, RowsPut
<1>6. Moves(0) /\ BooksTyped'
  <2>1. BooksTyped'
    BY <1>1, <1>3, MoneyTyped, PublishedTyped
  <2>2. QED
    BY <1>3, <2>1, StockStays DEF TypeInv
<1>7. TypeInv'
  BY <1>3, <1>5, <1>6, TypedRows, PayingKept DEF Put
<1>8. QED
  BY <1>3, <1>5, <1>6, <1>7 DEF i

\* Cancelling one takes the entry of a posted one back.
LEMMA CancelBillEffect ==
  ASSUME TypeInv, NEW b \in 1..Len(bills), CancelBill(b)
  PROVE  /\ Put(bills, bills', b, [bills[b] EXCEPT !.status = "CANCELLED"])
         /\ \/ bills[b].status = "DRAFT" /\ books' = books
            \/ bills[b].status = "POSTED" /\ Unpublished(<<"bill", b>>)
         /\ UNCHANGED <<orders, receipts, returns, payments, policy>>
         /\ TypeInv' /\ Moves(0)
<1> DEFINE i == [bills[b] EXCEPT !.status = "CANCELLED"]
<1>1. bills[b] \in Bill
  BY RowFacts
<1>2. i \in Bill
  BY <1>1 DEF Bill
<1>3. /\ bills' = [bills EXCEPT ![b] = i]
      /\ \/ bills[b].status = "DRAFT" /\ books' = books
         \/ bills[b].status = "POSTED" /\ Unpublished(<<"bill", b>>)
      /\ UNCHANGED <<orders, receipts, returns, payments, policy, stock>>
  BY DEF CancelBill, Ordering
<1> HIDE DEF i
<1>4. bills' \in Seq(Bill) /\ Len(bills) \in Nat /\ Put(bills, bills', b, i)
  BY <1>2, <1>3, TypedRows, RowsPut
<1>5. BooksTyped'
  BY <1>3, TypedRows, UnpublishedTyped DEF BooksTyped
<1>6. Moves(0)
  BY <1>3, StockStays DEF TypeInv
<1>7. TypeInv'
  BY <1>3, <1>4, <1>5, <1>6, TypedRows, PayingKept DEF Put
<1>8. QED
  BY <1>3, <1>4, <1>6, <1>7 DEF i

\* A new payment is a draft.
LEMMA CreatePaymentEffect ==
  ASSUME TypeInv, NEW amount \in Amounts, NEW method \in {"AUTO", "MANUAL"},
         NEW lines \in {<<>>} \cup [1..Len(bills) -> Amounts \cup {0}],
         CreatePayment(amount, method, lines)
  PROVE  /\ Grown(payments, payments', [amount |-> amount, method |-> method,
                                        lines |-> lines, status |-> "DRAFT"])
         /\ UNCHANGED <<orders, receipts, returns, bills, books, policy>>
         /\ TypeInv' /\ Moves(0)
<1> DEFINE r == [amount |-> amount, method |-> method, lines |-> lines, status |-> "DRAFT"]
<1>1. /\ payments' = Append(payments, r)
      /\ UNCHANGED <<orders, receipts, returns, bills, books, policy, stock>>
  BY DEF CreatePayment, Ordering
<1>2. lines \in Seq(Nat) /\ Len(lines) <= Len(bills)
  <2>1. Len(bills) \in Nat
    BY TypedRows
  <2>2. CASE lines = <<>>
    BY <2>1, <2>2, EmptySeq
  <2>3. CASE lines \in [1..Len(bills) -> Amounts \cup {0}]
    <3>1. Amounts \cup {0} \subseteq Nat
      BY AmountsAssumption
    <3>2. lines \in [1..Len(bills) -> Nat]
      BY <2>3, <3>1
    <3>3. QED
      BY <2>1, <3>2
  <2>4. QED
    BY <2>2, <2>3
<1>3. r \in Payment /\ r.lines = lines
  BY <1>2, AmountsAssumption DEF Payment
<1> HIDE DEF r
<1>4. payments' \in Seq(Payment) /\ Len(payments) \in Nat /\ Grown(payments, payments', r)
  BY <1>1, <1>3, TypedRows, RowAdded
<1>5. Moves(0) /\ BooksTyped'
  BY <1>1, QuietBooks
<1>6. ASSUME NEW c \in 1..Len(payments') PROVE Len(payments'[c].lines) <= Len(bills')
  <2>1. CASE c \in 1..Len(payments)
    BY <1>1, <1>4, <2>1, TypedRows DEF Grown
  <2>2. CASE c \notin 1..Len(payments)
    <3>1. c = Len(payments) + 1
      BY <1>4, <2>2 DEF Grown
    <3>2. QED
      BY <1>1, <1>2, <1>3, <1>4, <3>1 DEF Grown
  <2>3. QED
    BY <2>1, <2>2
<1>7. TypeInv'
  BY <1>1, <1>4, <1>5, <1>6, TypedRows, PayingKept
<1>8. QED
  BY <1>1, <1>4, <1>5, <1>7 DEF r

\* An approval moves nothing.
LEMMA ApproveEffect ==
  ASSUME TypeInv, NEW gate, NEW kind, NEW n, Approve(gate, kind, n)
  PROVE  /\ UNCHANGED <<orders, receipts, returns, bills, payments, books, policy>>
         /\ TypeInv' /\ Moves(0)
<1>1. UNCHANGED <<orders, receipts, returns, bills, payments, books, policy, stock>>
  BY DEF Approve, Ordering, Paying
<1>2. Moves(0) /\ BooksTyped'
  BY <1>1, QuietBooks
<1>3. QED
  BY <1>1, <1>2, TypedRows, PayingKept

\* Goods that are sold leave, and are booked, at their average.
LEMMA SellEffect ==
  ASSUME TypeInv, NEW s \in Slots, NEW q \in Quantities, Sell(s, q)
  PROVE  LET cost == q * balances[s].avg
         IN  /\ Published(GoodsEntry(<<"sale", Len(movements) + 1>>, cost, -1))
             /\ UNCHANGED <<orders, receipts, returns, bills, payments, policy>>
             /\ cost \in Int /\ (Ledger!NeverShort => cost >= 0)
             /\ Len(movements') = Len(movements) + 1
             /\ TypeInv' /\ Moves(-cost)
<1> DEFINE avg == balances[s].avg
           cost == q * avg
<1>1. Ledger!PricedInv /\ avg \in Int /\ (Ledger!NeverShort => avg >= 0) /\ q \in Nat \ {0}
  BY LedgerState, StockAssumption DEF TypeInv
<1>2. /\ Published(GoodsEntry(<<"sale", Len(movements) + 1>>, cost, -1))
      /\ UNCHANGED <<orders, receipts, returns, bills, payments, policy>>
      /\ Stock!Issue(s, q, FALSE)
  BY DEF Sell, Ordering, Paying
<1>3. /\ cost \in Int /\ (avg >= 0 => cost >= 0) /\ (-q) * avg = -cost
  <2>1. \A x \in Nat, y \in Int : x * y \in Int /\ (y >= 0 => x * y >= 0) /\ (-x) * y = -(x * y)
    BY SMT
  <2> HIDE DEF avg
  <2>2. QED
    BY <1>1, <2>1
<1>4. Moves(-cost) /\ Len(movements') = Len(movements) + 1
  <2>1. Moves((-q) * avg) /\ Len(movements') = Len(movements) + 1
    BY <1>1, <1>2, IssueMoves
  <2> HIDE DEF cost
  <2>2. QED
    BY <1>3, <2>1
<1>5. BooksTyped'
  <2>1. Bookable(cost)
    BY DEF Sell
  <2> HIDE DEF cost
  <2>2. QED
    BY <1>2, <1>3, <2>1, GoodsTyped, PublishedTyped
<1>6. TypeInv'
  BY <1>2, <1>4, <1>5, TypedRows, PayingKept
<1>7. QED
  BY <1>1, <1>2, <1>3, <1>4, <1>6

-----------------------------------------------------------------------------
(* Paying                                                                  *)

\* What is open on the bills, and when they are due.
Opens == [b \in 1..Len(bills) |-> IF bills[b].status = "POSTED" /\ bills[b].total > bills[b].paid
                                  THEN bills[b].total - bills[b].paid ELSE 0]
Dues == [b \in 1..Len(bills) |-> bills[b].due]

\* The automatic shares go to posted bills, each gets at most what it owes.
LEMMA FifoTyped ==
  ASSUME TypeInv, NEW amount \in Nat
  PROVE  /\ Fifo(amount) \in Seq(Nat) /\ Len(Fifo(amount)) = Len(bills)
         /\ \A b \in 1..Len(bills) : Fifo(amount)[b] # 0 =>
               bills[b].status = "POSTED" /\ Fifo(amount)[b] <= bills[b].total - bills[b].paid
<1>1. Len(bills) \in Nat
  BY TypedRows
<1>2. \A b \in 1..Len(bills) : Opens[b] \in Nat /\ Dues[b] \in Int
  BY RowFacts DEF Opens, Dues
<1>3. Opens \in Seq(Nat) /\ Len(Opens) = Len(bills) /\ Dues \in Seq(Int) /\ Len(Dues) = Len(bills)
  BY <1>1, <1>2 DEF Opens, Dues
<1>4. /\ Fifo(amount) \in Seq(Nat) /\ Len(Fifo(amount)) = Len(Opens)
      /\ \A b \in 1..Len(Opens) : Fifo(amount)[b] <= Opens[b]
  <2>1. Fifo(amount) = Shares(amount, Opens, Dues)
    BY DEF Fifo, Opens, Dues
  <2>2. Len(Dues) = Len(Opens)
    BY <1>3
  <2>3. /\ Shares(amount, Opens, Dues) \in Seq(Nat)
        /\ Len(Shares(amount, Opens, Dues)) = Len(Opens)
        /\ \A b \in 1..Len(Opens) : Shares(amount, Opens, Dues)[b] <= Opens[b]
    BY <1>3, <2>2, SharesType
  <2>4. QED
    BY <2>1, <2>3
<1>5. ASSUME NEW b \in 1..Len(bills), Fifo(amount)[b] # 0
      PROVE  bills[b].status = "POSTED" /\ Fifo(amount)[b] <= bills[b].total - bills[b].paid
  <2>1. Fifo(amount)[b] \in Nat /\ Fifo(amount)[b] <= Opens[b]
    BY <1>3, <1>4, ElementOfSeq
  <2>2. Opens[b] # 0
    BY <1>2, <1>5, <2>1
  <2>3. bills[b].status = "POSTED" /\ Opens[b] = bills[b].total - bills[b].paid
    BY <2>2 DEF Opens
  <2>4. QED
    BY <2>1, <2>3
<1>6. QED
  BY <1>3, <1>4, <1>5

\* The lines that posting a payment applies.
PostedLines(c) ==
    IF payments[c].method = "AUTO" THEN Fifo(payments[c].amount) ELSE payments[c].lines

\* They give something only to bills that are posted, and no more than those owe.
LEMMA PostedLinesTyped ==
  ASSUME TypeInv, NEW c \in 1..Len(payments), PostPayment(c)
  PROVE  /\ PostedLines(c) \in Seq(Nat) /\ Len(PostedLines(c)) <= Len(bills)
         /\ \A b \in 1..Len(bills) :
               /\ LineOf(PostedLines(c), b) \in Nat
               /\ LineOf(PostedLines(c), b) # 0 =>
                     /\ bills[b].status \in {"POSTED", "PAID"}
                     /\ LineOf(PostedLines(c), b) <= bills[b].total - bills[b].paid
<1>1. /\ payments[c].amount \in Nat /\ payments[c].lines \in Seq(Nat)
      /\ Len(payments[c].lines) <= Len(bills) /\ Len(bills) \in Nat
  BY RowFacts, TypedRows
<1>2. PostedLines(c) \in Seq(Nat) /\ Len(PostedLines(c)) <= Len(bills)
  BY <1>1, FifoTyped DEF PostedLines
<1>3. ASSUME NEW b \in 1..Len(bills)
      PROVE  /\ LineOf(PostedLines(c), b) \in Nat
             /\ LineOf(PostedLines(c), b) # 0 =>
                   /\ bills[b].status \in {"POSTED", "PAID"}
                   /\ LineOf(PostedLines(c), b) <= bills[b].total - bills[b].paid
  <2>1. b <= Len(PostedLines(c)) => b \in 1..Len(PostedLines(c))
    BY <1>1, <1>2
  <2>2. LineOf(PostedLines(c), b) \in Nat
    BY <1>2, <2>1, ElementOfSeq DEF LineOf
  <2>3. ASSUME LineOf(PostedLines(c), b) # 0
        PROVE  /\ bills[b].status \in {"POSTED", "PAID"}
               /\ LineOf(PostedLines(c), b) <= bills[b].total - bills[b].paid
    <3>1. /\ b \in 1..Len(PostedLines(c)) /\ PostedLines(c)[b] # 0 /\ PostedLines(c)[b] \in Nat
          /\ LineOf(PostedLines(c), b) = PostedLines(c)[b]
      BY <2>1, <2>2, <2>3 DEF LineOf
    <3>2. CASE payments[c].method = "AUTO"
      <4>1. PostedLines(c) = Fifo(payments[c].amount)
        BY <3>2 DEF PostedLines
      <4>2. QED
        BY <1>1, <3>1, <4>1, FifoTyped
    <3>3. CASE payments[c].method # "AUTO"
      <4>1. payments[c] \in Payment
        BY RowFacts
      <4>2. payments[c].method = "MANUAL" /\ PostedLines(c) = payments[c].lines
        BY <3>3, <4>1 DEF Payment, PostedLines
      <4>3. ManualAllowed(payments[c].lines, payments[c].amount)
        BY <3>3, <4>2 DEF PostPayment
      <4>4. payments[c].lines[b] > 0
        BY <3>1, <4>2
      <4>5. QED
        BY <3>1, <4>2, <4>3, <4>4 DEF ManualAllowed
    <3>4. QED
      BY <3>2, <3>3
  <2>4. QED
    BY <2>2, <2>3
<1>4. QED
  BY <1>2, <1>3

\* What giving a bill got, or taking it back when got is negative, makes of it.
Settles(b, got) ==
    /\ bills'[b].total = bills[b].total
    /\ bills'[b].paid = bills[b].paid + got
    /\ bills'[b].status =
          IF got > 0 /\ bills[b].paid + got >= bills[b].total THEN "PAID"
          ELSE IF got < 0 /\ bills[b].status = "PAID" THEN "POSTED"
          ELSE bills[b].status

\* A bill with another amount paid and another status.
BillStatuses == {"DRAFT", "POSTED", "PAID", "CANCELLED"}
Changed(i, v, t) == [i EXCEPT !.paid = v, !.status = t]

\* It is one.
LEMMA BillChanged ==
  ASSUME NEW i \in Bill, NEW v \in Int, NEW t \in BillStatuses
  PROVE  /\ Changed(i, v, t) \in Bill /\ Changed(i, v, t).total = i.total
         /\ Changed(i, v, t).paid = v /\ Changed(i, v, t).status = t
<1> DEFINE x == Changed(i, v, t)
           y == [i EXCEPT !.paid = v]
<1>1. y = [total |-> i.total, gates |-> i.gates, paid |-> v, due |-> i.due, status |-> i.status]
  BY DEF Bill
<1>2. i.total \in Nat /\ i.gates \in SUBSET Gates /\ i.due \in Nat
  BY DEF Bill
<1>3. x = [y EXCEPT !.status = t]
  BY DEF Changed
<1> HIDE DEF y
<1>4. x = [total |-> i.total, gates |-> i.gates, paid |-> v, due |-> i.due, status |-> t]
  BY <1>1, <1>3
<1> HIDE DEF x
<1>5. x \in Bill /\ x.total = i.total /\ x.paid = v /\ x.status = t
  BY <1>2, <1>4 DEF Bill, BillStatuses
<1>6. QED
  BY <1>5 DEF x

\* The bill after it was given something, and after that was taken back.
LEMMA PaidTyped ==
  ASSUME NEW i \in Bill, NEW got \in Nat
  PROVE  /\ Paid(i, got) \in Bill /\ Paid(i, got).total = i.total
         /\ Paid(i, got).paid = i.paid + got
         /\ Paid(i, got).status =
               IF got > 0 /\ i.paid + got >= i.total THEN "PAID" ELSE i.status
         /\ Unpaid(i, got) \in Bill /\ Unpaid(i, got).total = i.total
         /\ Unpaid(i, got).paid = i.paid - got
         /\ Unpaid(i, got).status =
               IF got > 0 /\ i.status = "PAID" THEN "POSTED" ELSE i.status
<1> DEFINE t == IF i.paid + got >= i.total THEN "PAID" ELSE i.status
           u == IF i.status = "PAID" THEN "POSTED" ELSE i.status
           v == i.paid + got
           w == i.paid - got
           x == Changed(i, v, t)
           y == Changed(i, w, u)
<1>1. /\ i.paid \in Int /\ v \in Int /\ w \in Int
      /\ t \in BillStatuses /\ u \in BillStatuses
  BY DEF Bill, BillStatuses
<1>2. CASE got = 0
  <2>1. Paid(i, got) = i /\ Unpaid(i, got) = i
    BY <1>2 DEF Paid, Unpaid
  <2>2. QED
    BY <1>1, <1>2, <2>1
<1>3. CASE got # 0
  <2>1. Paid(i, got) = x /\ Unpaid(i, got) = y
    <3>1. Paid(i, got) = x
      BY <1>3 DEF Paid, Changed
    <3>2. Unpaid(i, got) = y
      BY <1>3 DEF Unpaid, Changed
    <3>3. QED
      BY <3>1, <3>2
  <2>2. /\ x \in Bill /\ x.total = i.total /\ x.paid = v /\ x.status = t
        /\ y \in Bill /\ y.total = i.total /\ y.paid = w /\ y.status = u
    <3> HIDE DEF t, u, v, w
    <3>1. QED
      BY <1>1, BillChanged
  <2> HIDE DEF x, y
  <2>3. got > 0
    BY <1>3
  <2>4. QED
    BY <2>1, <2>2, <2>3
<1>4. QED
  BY <1>2, <1>3

\* Posting a payment gives every bill its line and books the whole amount.
LEMMA PostPaymentEffect ==
  ASSUME TypeInv, NEW c \in 1..Len(payments), PostPayment(c)
  PROVE  /\ payments[c].status = "DRAFT"
         /\ Len(bills') = Len(bills)
         /\ \A b \in 1..Len(bills) : Settles(b, LineOf(PostedLines(c), b))
         /\ Put(payments, payments', c, [amount |-> payments[c].amount,
                 method |-> payments[c].method, lines |-> PostedLines(c), status |-> "POSTED"])
         /\ Published(MoneyEntry(<<"payment", c>>, -payments[c].amount))
         /\ UNCHANGED <<orders, receipts, returns, policy>>
         /\ TypeInv' /\ Moves(0)
<1> DEFINE pay == payments[c]
           lines == PostedLines(c)
           r == [amount |-> pay.amount, method |-> pay.method, lines |-> lines, status |-> "POSTED"]
           a == [pay EXCEPT !.status = "POSTED"]
           h == [payments EXCEPT ![c] = a]
<1>1. /\ pay \in Payment /\ pay.amount \in Nat \ {0} /\ Len(bills) \in Nat /\ c \in DOMAIN payments
  BY RowFacts, TypedRows, LenProperties
<1>2. /\ lines \in Seq(Nat) /\ Len(lines) <= Len(bills)
      /\ \A b \in 1..Len(bills) : LineOf(lines, b) \in Nat
  BY PostedLinesTyped
<1>3. /\ pay.status = "DRAFT"
      /\ bills' = [b \in 1..Len(bills) |-> Paid(bills[b], LineOf(lines, b))]
      /\ payments' = [h EXCEPT ![c] = [h[c] EXCEPT !.lines = lines]]
      /\ Published(MoneyEntry(<<"payment", c>>, -pay.amount))
      /\ UNCHANGED <<orders, receipts, returns, policy, stock>>
  BY DEF PostPayment, PostedLines, Ordering
<1> HIDE DEF lines
<1>4. r \in Payment /\ [a EXCEPT !.lines = lines] = r /\ r.lines = lines
  <2>1. pay \in Payment
    BY <1>1
  <2>2. r \in Payment
    BY <1>2, <2>1 DEF Payment
  <2>3. a = [amount |-> pay.amount, method |-> pay.method, lines |-> pay.lines, status |-> "POSTED"]
    BY <2>1 DEF Payment
  <2> HIDE DEF a
  <2>4. [a EXCEPT !.lines = lines] = r
    BY <2>3
  <2>5. QED
    BY <2>2, <2>4
<1> HIDE DEF r, a
<1>5. payments' = [payments EXCEPT ![c] = r]
  <2>1. h[c] = a
    BY <1>1
  <2>2. payments' = [h EXCEPT ![c] = r]
    BY <1>3, <1>4, <2>1
  <2>3. QED
    BY <1>1, <2>2, PutTwice
<1>6. payments' \in Seq(Payment) /\ Len(payments) \in Nat /\ Put(payments, payments', c, r)
  BY <1>4, <1>5, TypedRows, RowsPut
<1>7. ASSUME NEW b \in 1..Len(bills)
      PROVE  bills'[b] \in Bill /\ Settles(b, LineOf(lines, b))
  <2> DEFINE got == LineOf(lines, b)
             i == bills[b]
  <2>1. i \in Bill /\ got \in Nat /\ bills'[b] = Paid(i, got)
    BY <1>2, <1>3, RowFacts
  <2> HIDE DEF got
  <2>2. /\ Paid(i, got) \in Bill /\ Paid(i, got).total = i.total
        /\ Paid(i, got).paid = i.paid + got
        /\ Paid(i, got).status = IF got > 0 /\ i.paid + got >= i.total THEN "PAID" ELSE i.status
    BY <2>1, PaidTyped
  <2>3. ~(got < 0)
    BY <2>1
  <2>4. bills'[b] \in Bill /\ Settles(b, got)
    BY <2>1, <2>2, <2>3 DEF Settles
  <2>5. QED
    BY <2>4 DEF got
<1>8. bills' \in Seq(Bill) /\ Len(bills') = Len(bills)
  <2>1. bills' = [b \in 1..Len(bills) |-> bills'[b]]
    BY <1>3
  <2>2. QED
    BY <1>1, <1>7, <2>1
<1>9. Moves(0) /\ BooksTyped'
  <2>1. -pay.amount \in Int
    BY <1>1
  <2>2. BooksTyped'
    BY <1>3, <2>1, MoneyTyped, PublishedTyped
  <2>3. QED
    BY <1>3, <2>2, StockStays DEF TypeInv
<1>10. \A k \in 1..Len(payments') : Len(payments'[k].lines) <= Len(bills')
  BY <1>2, <1>4, <1>6, <1>8, TypedRows DEF Put
<1>11. TypeInv'
  BY <1>3, <1>6, <1>8, <1>9, <1>10, PayingKept
<1>12. QED
  BY <1>3, <1>6, <1>7, <1>8, <1>9, <1>11 DEF r, lines

\* Cancelling one takes the lines and the entry of a posted one back.
LEMMA CancelPaymentEffect ==
  ASSUME TypeInv, NEW c \in 1..Len(payments), CancelPayment(c)
  PROVE  /\ \/ /\ payments[c].status = "DRAFT"
               /\ Put(payments, payments', c, [payments[c] EXCEPT !.status = "VOID"])
               /\ bills' = bills /\ books' = books
            \/ /\ payments[c].status = "POSTED"
               /\ Put(payments, payments', c, [payments[c] EXCEPT !.status = "CANCELLED"])
               /\ Len(bills') = Len(bills)
               /\ \A b \in 1..Len(bills) : Settles(b, -LineOf(payments[c].lines, b))
               /\ Unpublished(<<"payment", c>>)
         /\ UNCHANGED <<orders, receipts, returns, policy>>
         /\ TypeInv' /\ Moves(0)
<1> DEFINE pay == payments[c]
           void == [pay EXCEPT !.status = "VOID"]
           gone == [pay EXCEPT !.status = "CANCELLED"]
<1>1. pay \in Payment /\ Len(bills) \in Nat /\ Len(payments) \in Nat
  BY RowFacts, TypedRows
<1>2. /\ void \in Payment /\ void.lines = pay.lines
      /\ gone \in Payment /\ gone.lines = pay.lines
  <2>1. pay \in Payment
    BY <1>1
  <2>2. QED
    BY <2>1 DEF Payment
<1>3. UNCHANGED <<orders, receipts, returns, policy, stock>>
  BY DEF CancelPayment, Ordering
<1>4. Moves(0)
  BY <1>3, StockStays DEF TypeInv
<1>5. CASE pay.status = "DRAFT"
  <2>1. payments' = [payments EXCEPT ![c] = void] /\ bills' = bills /\ books' = books
    BY <1>5 DEF CancelPayment
  <2> HIDE DEF void
  <2>2. payments' \in Seq(Payment) /\ Put(payments, payments', c, void)
    BY <1>2, <2>1, RowsPut
  <2>3. BooksTyped' /\ \A k \in 1..Len(payments') : Len(payments'[k].lines) <= Len(bills')
    BY <1>2, <2>1, <2>2, TypedRows DEF Put, BooksTyped
  <2>4. TypeInv'
    BY <1>3, <1>4, <2>1, <2>2, <2>3, TypedRows, PayingKept
  <2>5. QED
    BY <1>3, <1>4, <1>5, <2>1, <2>2, <2>4 DEF void
<1>6. CASE pay.status = "POSTED"
  <2>1. /\ payments' = [payments EXCEPT ![c] = gone]
        /\ bills' = [b \in 1..Len(bills) |-> Unpaid(bills[b], LineOf(pay.lines, b))]
        /\ Unpublished(<<"payment", c>>)
    BY <1>6 DEF CancelPayment
  <2> HIDE DEF gone
  <2>2. payments' \in Seq(Payment) /\ Put(payments, payments', c, gone)
    BY <1>2, <2>1, RowsPut
  <2>3. ASSUME NEW b \in 1..Len(bills)
        PROVE  bills'[b] \in Bill /\ Settles(b, -LineOf(pay.lines, b))
    <3> DEFINE got == LineOf(pay.lines, b)
               i == bills[b]
    <3>1. i \in Bill /\ i.paid \in Int /\ got \in Nat /\ bills'[b] = Unpaid(i, got)
      <4>1. b \in Nat \ {0}
        BY TypedRows
      <4>2. i \in Bill /\ i.paid \in Int /\ got \in Nat
        BY <4>1, RowFacts
      <4>3. QED
        BY <2>1, <4>2
    <3> HIDE DEF got
    <3>2. i.paid - got = i.paid + (-got) /\ (got > 0 <=> -got < 0) /\ ~(-got > 0)
      BY <3>1
    <3>3. /\ Unpaid(i, got) \in Bill /\ Unpaid(i, got).total = i.total
          /\ Unpaid(i, got).paid = i.paid - got
          /\ Unpaid(i, got).status = IF got > 0 /\ i.status = "PAID" THEN "POSTED" ELSE i.status
      BY <3>1, PaidTyped
    <3>4. bills'[b] \in Bill /\ Settles(b, -got)
      BY <3>1, <3>2, <3>3 DEF Settles
    <3>5. QED
      BY <3>4 DEF got
  <2>4. bills' \in Seq(Bill) /\ Len(bills') = Len(bills)
    <3>1. bills' = [b \in 1..Len(bills) |-> bills'[b]]
      BY <2>1
    <3>2. QED
      BY <1>1, <2>3, <3>1
  <2>5. BooksTyped'
    BY <2>1, UnpublishedTyped
  <2>6. \A k \in 1..Len(payments') : Len(payments'[k].lines) <= Len(bills')
    BY <1>2, <2>2, <2>4, TypedRows DEF Put
  <2>7. TypeInv'
    BY <1>3, <1>4, <2>2, <2>4, <2>5, <2>6, PayingKept
  <2>8. QED
    BY <1>3, <1>4, <1>6, <2>1, <2>2, <2>3, <2>4, <2>7 DEF gone
<1>7. QED
  BY <1>5, <1>6 DEF CancelPayment

\* Every step keeps the types.
LEMMA StepTyped ==
  ASSUME TypeInv, [Next]_vars
  PROVE  TypeInv'
<1>1. CASE UNCHANGED vars
  <2>1. UNCHANGED <<orders, receipts, returns, bills, payments, books, policy, stock>>
    BY <1>1 DEF vars, stock
  <2>2. Moves(0) /\ BooksTyped'
    BY <2>1, QuietBooks
  <2>3. QED
    BY <2>1, <2>2, TypedRows, PayingKept
<1>2. CASE Next
  <2>1. ASSUME NEW line \in OrderPayloads, CreateOrder(line) PROVE TypeInv'
    BY <2>1, CreateOrderEffect
  <2>2. ASSUME NEW p \in 1..Len(orders), ApproveOrder(p) PROVE TypeInv'
    BY <2>2, ApproveOrderEffect
  <2>3. ASSUME NEW p \in 1..Len(orders), CancelOrder(p) PROVE TypeInv'
    BY <2>3, CancelOrderEffect
  <2>4. ASSUME NEW line \in ReceiptPayloads, NEW p \in 0..Len(orders), NEW q \in 0..Len(orders),
               CreateReceipt(line, p, q)
        PROVE  TypeInv'
    BY <2>4, CreateReceiptEffect
  <2>5. ASSUME NEW g \in 1..Len(receipts), PostReceipt(g) PROVE TypeInv'
    BY <2>5, PostReceiptEffect
  <2>6. ASSUME NEW g \in 1..Len(receipts), CancelReceipt(g) PROVE TypeInv'
    BY <2>6, CancelReceiptEffect
  <2>7. ASSUME NEW g \in 1..Len(receipts), NEW q \in Quantities, CreateReturn(g, q) PROVE TypeInv'
    BY <2>7, CreateReturnEffect
  <2>8. ASSUME NEW m \in 1..Len(returns), PostReturn(m) PROVE TypeInv'
    BY <2>8, PostReturnEffect
  <2>9. ASSUME NEW payload \in BillPayloads, CreateBill(payload) PROVE TypeInv'
    BY <2>9, CreateBillEffect
  <2>10. ASSUME NEW b \in 1..Len(bills), NEW due \in DueDates, PostBill(b, due) PROVE TypeInv'
    BY <2>10, PostBillEffect
  <2>11. ASSUME NEW b \in 1..Len(bills), CancelBill(b) PROVE TypeInv'
    BY <2>11, CancelBillEffect
  <2>12. ASSUME NEW amount \in Amounts, NEW method \in {"AUTO", "MANUAL"},
                NEW lines \in {<<>>} \cup [1..Len(bills) -> Amounts \cup {0}],
                CreatePayment(amount, method, lines)
         PROVE  TypeInv'
    BY <2>12, CreatePaymentEffect
  <2>13. ASSUME NEW c \in 1..Len(payments), PostPayment(c) PROVE TypeInv'
    BY <2>13, PostPaymentEffect
  <2>14. ASSUME NEW c \in 1..Len(payments), CancelPayment(c) PROVE TypeInv'
    BY <2>14, CancelPaymentEffect
  <2>15. ASSUME NEW gate, NEW kind, NEW n, Approve(gate, kind, n) PROVE TypeInv'
    BY <2>15, ApproveEffect
  <2>16. ASSUME NEW s \in Slots, NEW q \in Quantities, Sell(s, q) PROVE TypeInv'
    BY <2>16, SellEffect
  <2>17. QED
    BY <1>2, <2>1, <2>2, <2>3, <2>4, <2>5, <2>6, <2>7, <2>8, <2>9, <2>10, <2>11, <2>12, <2>13,
       <2>14, <2>15, <2>16 DEF Next
<1>3. QED
  BY <1>1, <1>2

\* The rows are typed at first.
LEMMA InitTyped == Init => TypeInv
<1> SUFFICES ASSUME Init PROVE TypeInv
  OBVIOUS
<1>1. /\ orders = <<>> /\ receipts = <<>> /\ returns = <<>> /\ bills = <<>> /\ payments = <<>>
      /\ books = <<>> /\ policy \in Policies
      /\ movements = <<>> /\ balances = [s \in Slots |-> Stock!NoRow]
      /\ allowNegative = policy.allowNegative
  BY DEF Init
<1>2. /\ Len(receipts) = 0 /\ Len(returns) = 0 /\ Len(payments) = 0
      /\ 1..0 = {} /\ DOMAIN books = {}
  BY <1>1, EmptySeq, SMT
<1>3. Ledger!PricedInv
  <2>1. allowNegative \in BOOLEAN
    BY <1>1, PoliciesAssumption
  <2>2. balances = [s \in Ledger!Slots |-> Ledger!NoRow]
    BY <1>1, SameShort DEF Stock!NoRow, Ledger!NoRow
  <2>3. QED
    BY <1>1, <2>1, <2>2, Ledger!EmptyPriced, StockAssumption
<1>4. Stock!TypeOK
  BY <1>3, SameShort DEF Ledger!PricedInv, Ledger!AverageInv, Ledger!IInv
<1>5. TypeOK
  BY <1>1, <1>2, <1>4, EmptySeq DEF TypeOK
<1>6. QED
  BY <1>1, <1>2, <1>3, <1>5 DEF TypeInv, BooksTyped, ReceiptsInv, LinesInv

\* The rows are always typed, whatever happens.
LEMMA SpecTyped == Spec => []TypeInv
BY InitTyped, StepTyped, PTL DEF Spec

-----------------------------------------------------------------------------
(* What was paid                                                           *)

\* What the standing payments give bill b, by payment.
Applied(b) ==
    [c \in 1..Len(payments) |->
        IF payments[c].status = "POSTED" THEN LineOf(payments[c].lines, b) ELSE 0]

\* Where bill b stands: its status says whether what it was paid is all of it, and a draft
\* was given nothing.
Standing(b) ==
    /\ bills[b].paid <= bills[b].total
    /\ bills[b].status \in {"POSTED", "PAID"} /\ bills[b].total > 0 =>
          (bills[b].status = "PAID" <=> bills[b].paid = bills[b].total)

\* What it was paid is what payments give it.
BillFine(b) ==
    /\ bills[b].paid = Total(Applied(b), Len(payments))
    /\ Standing(b)
    /\ bills[b].status = "DRAFT" => \A c \in 1..Len(payments) : Applied(b)[c] = 0

\* That is so of every bill.
PaidInv == \A b \in 1..Len(bills) : BillFine(b)

\* What payments give a bill are integers, so they can be added up.
LEMMA AppliedTyped ==
  ASSUME TypeInv, NEW b \in Nat \ {0}
  PROVE  /\ Applied(b) \in [1..Len(payments) -> Int] /\ Len(payments) \in Nat
         /\ Total(Applied(b), Len(payments)) \in Int
<1>1. Applied(b) \in [1..Len(payments) -> Int] /\ Len(payments) \in Nat
  BY RowFacts, TypedRows DEF Applied
<1>2. QED
  BY <1>1, TotalType

\* Where no payment changes, a bill keeps what it was paid; it can be cancelled, or posted
\* while nothing was.
LEMMA BillStays ==
  ASSUME TypeInv, NEW b \in 1..Len(bills), BillFine(b), UNCHANGED payments,
         bills'[b].total = bills[b].total, bills'[b].paid = bills[b].paid,
         \/ bills'[b].status = bills[b].status
         \/ bills'[b].status = "CANCELLED"
         \/ bills[b].status = "DRAFT" /\ bills'[b].status = "POSTED"
  PROVE  BillFine(b)'
<1>1. Applied(b)' = Applied(b) /\ Len(payments') = Len(payments)
  BY DEF Applied
<1>2. /\ bills[b].total \in Nat /\ b \in Nat \ {0}
      /\ Applied(b) \in [1..Len(payments) -> Int] /\ Len(payments) \in Nat
  BY RowFacts, TypedRows, AppliedTyped
<1>3. bills[b].status = "DRAFT" => bills[b].paid = 0
  <2>1. SUFFICES ASSUME bills[b].status = "DRAFT" PROVE Total(Applied(b), Len(payments)) = 0
    BY DEF BillFine
  <2>2. \A c \in 1..Len(payments) : Applied(b)[c] = 0
    BY <2>1 DEF BillFine
  <2>3. QED
    BY <1>2, <2>2, TotalZero
<1>4. Standing(b)'
  BY <1>2, <1>3 DEF BillFine, Standing
<1>5. bills'[b].status = "DRAFT" => \A c \in 1..Len(payments) : Applied(b)[c] = 0
  BY DEF BillFine
<1>6. bills'[b].paid = Total(Applied(b), Len(payments))
  BY DEF BillFine
<1>7. QED
  BY <1>1, <1>4, <1>5, <1>6 DEF BillFine

\* A new bill is named by no payment.
LEMMA NoneApplied ==
  ASSUME TypeInv
  PROVE  /\ \A c \in 1..Len(payments) : Applied(Len(bills) + 1)[c] = 0
         /\ Total(Applied(Len(bills) + 1), Len(payments)) = 0
<1> DEFINE n == Len(bills) + 1
<1>1. n \in Nat \ {0} /\ Len(bills) \in Nat
  BY TypedRows
<1>2. ASSUME NEW c \in 1..Len(payments) PROVE Applied(n)[c] = 0
  <2>1. Len(payments[c].lines) <= Len(bills) /\ Len(payments[c].lines) \in Nat
    BY TypedRows, RowFacts
  <2>2. ~(n <= Len(payments[c].lines))
    BY <1>1, <2>1
  <2>3. QED
    BY <2>2 DEF Applied, LineOf
<1> HIDE DEF n
<1>3. Applied(n) \in [1..Len(payments) -> Int] /\ Len(payments) \in Nat
  BY <1>1, AppliedTyped
<1>4. Total(Applied(n), Len(payments)) = 0
  BY <1>2, <1>3, TotalZero
<1>5. QED
  BY <1>2, <1>4 DEF n

\* A payment that is posted or cancelled moves what the bills were paid by its line.
LEMMA AppliedMoves ==
  ASSUME TypeInv, NEW c \in 1..Len(payments), NEW b \in 1..Len(bills),
         Len(payments') = Len(payments),
         \A k \in 1..Len(payments) : k # c => payments'[k] = payments[k],
         NEW got \in Int, Applied(b)'[c] = Applied(b)[c] + got,
         BillFine(b), Settles(b, got), Standing(b)',
         bills'[b].status = "DRAFT" => bills[b].status = "DRAFT" /\ got = 0
  PROVE  BillFine(b)'
<1> DEFINE N == Len(payments)
           f == Applied(b)
           g == Applied(b)'
<1>1. N \in Nat /\ f \in [1..N -> Int] /\ Total(f, N) \in Int
  <2>1. b \in Nat \ {0}
    BY TypedRows
  <2>2. QED
    BY <2>1, AppliedTyped
<1>2. g = [k \in 1..N |-> g[k]]
  BY DEF Applied
<1>3. \A k \in 1..N : k # c => g[k] = f[k]
  BY DEF Applied
<1>4. c \in 1..N /\ g[c] = f[c] + got
  BY <1>1
<1>5. bills'[b].paid = bills[b].paid + got /\ bills[b].paid = Total(f, N)
  BY DEF Settles, BillFine
<1>6. Total(Applied(b), Len(payments))' = Total(g, N)
  OBVIOUS
<1>7. bills[b].status = "DRAFT" => \A k \in 1..N : f[k] = 0
  BY DEF BillFine
<1>8. /\ g = Applied(b)' /\ N = Len(payments')
  OBVIOUS
<1> HIDE DEF f, g, N
<1>9. Total(g, N) = Total(f, N) + got
  BY <1>1, <1>2, <1>3, <1>4, TotalMoves
<1>10. ASSUME bills'[b].status = "DRAFT" PROVE \A k \in 1..N : g[k] = 0
  <2>1. got = 0 /\ \A k \in 1..N : f[k] = 0
    BY <1>7, <1>10
  <2>2. g[c] = 0
    BY <1>4, <2>1
  <2>3. QED
    BY <1>3, <2>1, <2>2
<1>11. bills'[b].status = "DRAFT" => \A k \in 1..Len(payments') : Applied(b)'[k] = 0
  BY <1>8, <1>10
<1>12. QED
  BY <1>5, <1>6, <1>9, <1>11 DEF BillFine

\* A bill that is given no more than it owes, or whose line is taken back, still stands.
LEMMA StandingMoves ==
  ASSUME TypeInv, NEW b \in 1..Len(bills), BillFine(b), NEW got \in Int, Settles(b, got),
         \/ got <= 0
         \/ bills[b].status \in {"POSTED", "PAID"} /\ got <= bills[b].total - bills[b].paid
  PROVE  Standing(b)'
<1> DEFINE t == bills[b].total
           p == bills[b].paid
           s == bills[b].status
           v == bills'[b].paid
           u == bills'[b].status
<1>1. t \in Nat /\ p \in Int
  BY RowFacts
<1>2. p <= t /\ (s \in {"POSTED", "PAID"} /\ t > 0 => (s = "PAID" <=> p = t))
  BY DEF BillFine, Standing
<1>3. /\ v = p + got /\ bills'[b].total = t
      /\ u = IF got > 0 /\ p + got >= t THEN "PAID"
             ELSE IF got < 0 /\ s = "PAID" THEN "POSTED" ELSE s
  BY DEF Settles
<1>4. got <= 0 \/ (s \in {"POSTED", "PAID"} /\ got <= t - p)
  OBVIOUS
<1>5. v <= t /\ (u \in {"POSTED", "PAID"} /\ t > 0 => (u = "PAID" <=> v = t))
  <2> HIDE DEF t, p, s, v, u
  <2>1. CASE got = 0
    BY <1>1, <1>2, <1>3, <2>1
  <2>2. CASE got < 0
    <3>1. v < t
      BY <1>1, <1>2, <1>3, <2>2
    <3>2. u \in {"POSTED", "PAID"} => u # "PAID"
      BY <1>3, <2>2
    <3>3. QED
      BY <1>1, <1>3, <3>1, <3>2
  <2>3. CASE got > 0
    <3>1. s \in {"POSTED", "PAID"} /\ v <= t
      BY <1>1, <1>3, <1>4, <2>3
    <3>2. ASSUME t > 0 PROVE u = "PAID" <=> v = t
      <4>1. s # "PAID"
        <5>1. p # t
          BY <1>1, <1>4, <2>3
        <5>2. QED
          BY <1>2, <3>1, <3>2, <5>1
      <4>2. CASE v = t
        BY <1>1, <1>3, <2>3, <4>2
      <4>3. CASE v # t
        <5>1. ~(p + got >= t)
          BY <1>1, <1>3, <3>1, <4>3
        <5>2. u = s
          BY <1>3, <2>3, <5>1
        <5>3. QED
          BY <4>1, <4>3, <5>2
      <4>4. QED
        BY <4>2, <4>3
    <3>3. QED
      BY <3>1, <3>2
  <2>4. QED
    BY <2>1, <2>2, <2>3
<1>6. QED
  BY <1>3, <1>5 DEF Standing

\* Every step keeps what the bills were paid.
LEMMA StepPaid ==
  ASSUME TypeInv, PaidInv, [Next]_vars
  PROVE  PaidInv'
<1>1. ASSUME UNCHANGED payments, Len(bills') = Len(bills),
             \A b \in 1..Len(bills) :
                /\ bills'[b].total = bills[b].total /\ bills'[b].paid = bills[b].paid
                /\ \/ bills'[b].status = bills[b].status
                   \/ bills'[b].status = "CANCELLED"
                   \/ bills[b].status = "DRAFT" /\ bills'[b].status = "POSTED"
      PROVE  PaidInv'
  BY <1>1, BillStays DEF PaidInv
<1>2. ASSUME UNCHANGED <<payments, bills>> PROVE PaidInv'
  BY <1>1, <1>2
<1>3. CASE UNCHANGED vars
  BY <1>2, <1>3 DEF vars
<1>4. CASE Next
  <2>1. ASSUME NEW line \in OrderPayloads, CreateOrder(line) PROVE PaidInv'
    BY <1>2, <2>1, CreateOrderEffect
  <2>2. ASSUME NEW p \in 1..Len(orders), ApproveOrder(p) PROVE PaidInv'
    BY <1>2, <2>2, ApproveOrderEffect
  <2>3. ASSUME NEW p \in 1..Len(orders), CancelOrder(p) PROVE PaidInv'
    BY <1>2, <2>3, CancelOrderEffect
  <2>4. ASSUME NEW line \in ReceiptPayloads, NEW p \in 0..Len(orders), NEW q \in 0..Len(orders),
               CreateReceipt(line, p, q)
        PROVE  PaidInv'
    BY <1>2, <2>4, CreateReceiptEffect
  <2>5. ASSUME NEW g \in 1..Len(receipts), PostReceipt(g) PROVE PaidInv'
    BY <1>2, <2>5, PostReceiptEffect
  <2>6. ASSUME NEW g \in 1..Len(receipts), CancelReceipt(g) PROVE PaidInv'
    BY <1>2, <2>6, CancelReceiptEffect
  <2>7. ASSUME NEW g \in 1..Len(receipts), NEW q \in Quantities, CreateReturn(g, q) PROVE PaidInv'
    BY <1>2, <2>7, CreateReturnEffect
  <2>8. ASSUME NEW m \in 1..Len(returns), PostReturn(m) PROVE PaidInv'
    BY <1>2, <2>8, PostReturnEffect
  <2>9. ASSUME NEW payload \in BillPayloads, CreateBill(payload) PROVE PaidInv'
    <3> DEFINE N == Len(bills) + 1
    <3>1. /\ Len(bills') = N /\ Len(bills) \in Nat /\ UNCHANGED payments
          /\ \A k \in 1..Len(bills) : bills'[k] = bills[k]
          /\ bills'[N].paid = 0 /\ bills'[N].status = "DRAFT"
          /\ bills'[N].total = payload.total
      <4>1. /\ Grown(bills, bills', [total |-> payload.total, gates |-> payload.gates,
                                     paid |-> 0, due |-> 0, status |-> "DRAFT"])
            /\ UNCHANGED payments /\ Len(bills) \in Nat
        BY <2>9, CreateBillEffect, TypedRows
      <4>2. QED
        BY <4>1 DEF Grown
    <3>2. payload.total \in Nat
      <4>1. payload \in BillPayload
        BY PayloadsAssumption
      <4>2. QED
        BY <4>1, Zenon DEF BillPayload
    <3>3. ASSUME NEW n \in 1..N PROVE BillFine(n)'
      <4>1. CASE n \in 1..Len(bills)
        BY <3>1, <4>1, BillStays DEF PaidInv
      <4>2. CASE n = N
        <5>1. Applied(n)' = Applied(n) /\ Len(payments') = Len(payments)
          BY <3>1 DEF Applied
        <5>2. Standing(n)'
          BY <3>1, <3>2, <4>2 DEF Standing
        <5>3. /\ \A c \in 1..Len(payments) : Applied(n)[c] = 0
              /\ Total(Applied(n), Len(payments)) = 0
          BY <4>2, NoneApplied
        <5>4. QED
          BY <3>1, <4>2, <5>1, <5>2, <5>3 DEF BillFine
      <4>3. QED
        BY <3>1, <4>1, <4>2
    <3>4. QED
      BY <3>1, <3>3 DEF PaidInv
  <2>10. ASSUME NEW b \in 1..Len(bills), NEW due \in DueDates, PostBill(b, due) PROVE PaidInv'
    <3>1. /\ bills[b].status = "DRAFT" /\ UNCHANGED payments
          /\ Len(bills') = Len(bills)
          /\ bills'[b].total = bills[b].total /\ bills'[b].paid = bills[b].paid
          /\ bills'[b].status = "POSTED"
          /\ \A k \in 1..Len(bills) : k # b => bills'[k] = bills[k]
      <4>1. /\ bills[b].status = "DRAFT" /\ UNCHANGED payments
            /\ Put(bills, bills', b, [total |-> bills[b].total, gates |-> bills[b].gates,
                                      paid |-> bills[b].paid, due |-> due, status |-> "POSTED"])
        BY <2>10, PostBillEffect
      <4>2. QED
        BY <4>1 DEF Put
    <3>2. QED
      BY <1>1, <3>1
  <2>11. ASSUME NEW b \in 1..Len(bills), CancelBill(b) PROVE PaidInv'
    <3>1. bills[b] \in Bill
      BY RowFacts
    <3>2. LET i == [bills[b] EXCEPT !.status = "CANCELLED"]
          IN  i.total = bills[b].total /\ i.paid = bills[b].paid /\ i.status = "CANCELLED"
      BY <3>1 DEF Bill
    <3>3. /\ Len(bills') = Len(bills) /\ UNCHANGED payments
          /\ bills'[b] = [bills[b] EXCEPT !.status = "CANCELLED"]
          /\ \A k \in 1..Len(bills) : k # b => bills'[k] = bills[k]
      <4>1. /\ UNCHANGED payments
            /\ Put(bills, bills', b, [bills[b] EXCEPT !.status = "CANCELLED"])
        BY <2>11, CancelBillEffect
      <4>2. QED
        BY <4>1 DEF Put
    <3>4. QED
      BY <1>1, <3>2, <3>3
  <2>12. ASSUME NEW amount \in Amounts, NEW method \in {"AUTO", "MANUAL"},
                NEW lines \in {<<>>} \cup [1..Len(bills) -> Amounts \cup {0}],
                CreatePayment(amount, method, lines)
         PROVE  PaidInv'
    <3>1. /\ Len(payments') = Len(payments) + 1 /\ UNCHANGED bills
          /\ \A c \in 1..Len(payments) : payments'[c] = payments[c]
          /\ payments'[Len(payments) + 1].status = "DRAFT"
      <4>1. /\ UNCHANGED bills
            /\ Grown(payments, payments', [amount |-> amount, method |-> method,
                                           lines |-> lines, status |-> "DRAFT"])
        BY <2>12, CreatePaymentEffect
      <4>2. QED
        BY <4>1 DEF Grown
    <3>2. ASSUME NEW b \in 1..Len(bills) PROVE BillFine(b)'
      <4> DEFINE N == Len(payments)
                 f == Applied(b)
                 g == Applied(b)'
      <4>1. N \in Nat /\ f \in [1..N -> Int]
        <5>1. b \in Nat \ {0}
          BY TypedRows
        <5>2. QED
          BY <5>1, AppliedTyped
      <4>2. g = [k \in 1..(N+1) |-> g[k]]
        BY <3>1 DEF Applied
      <4>3. \A k \in 1..N : g[k] = f[k]
        BY <3>1, <4>1 DEF Applied
      <4>4. g[N+1] = 0
        BY <3>1, <4>1 DEF Applied
      <4>5. Total(Applied(b), Len(payments))' = Total(g, N+1)
        BY <3>1
      <4>6. BillFine(b) /\ Len(payments') = N + 1
        BY <3>1 DEF PaidInv
      <4>7. /\ bills[b].paid = Total(f, N)
            /\ bills[b].status = "DRAFT" => \A k \in 1..N : f[k] = 0
        BY <4>6 DEF BillFine
      <4>8. g = Applied(b)'
        OBVIOUS
      <4> HIDE DEF f, g, N
      <4>9. Total(g, N+1) = Total(f, N)
        BY <4>1, <4>2, <4>3, <4>4, TotalPadOne
      <4>10. bills[b].status = "DRAFT" => \A k \in 1..(N+1) : g[k] = 0
        BY <4>1, <4>3, <4>4, <4>7
      <4>11. Standing(b)'
        BY <3>1, <4>6 DEF BillFine, Standing
      <4>12. bills'[b].status = "DRAFT" => \A k \in 1..Len(payments') : Applied(b)'[k] = 0
        BY <3>1, <4>6, <4>8, <4>10
      <4>13. bills'[b].paid = Total(Applied(b), Len(payments))'
        BY <3>1, <4>5, <4>7, <4>9
      <4>14. QED
        BY <4>11, <4>12, <4>13 DEF BillFine
    <3>3. QED
      BY <3>1, <3>2 DEF PaidInv
  <2>13. ASSUME NEW c \in 1..Len(payments), PostPayment(c) PROVE PaidInv'
    <3>1. /\ payments[c].status = "DRAFT" /\ Len(bills') = Len(bills)
          /\ \A b \in 1..Len(bills) : Settles(b, LineOf(PostedLines(c), b))
          /\ Len(payments') = Len(payments)
          /\ payments'[c].status = "POSTED" /\ payments'[c].lines = PostedLines(c)
          /\ \A k \in 1..Len(payments) : k # c => payments'[k] = payments[k]
      <4>1. /\ payments[c].status = "DRAFT" /\ Len(bills') = Len(bills)
            /\ \A b \in 1..Len(bills) : Settles(b, LineOf(PostedLines(c), b))
            /\ Put(payments, payments', c, [amount |-> payments[c].amount,
                   method |-> payments[c].method, lines |-> PostedLines(c), status |-> "POSTED"])
        BY <2>13, PostPaymentEffect
      <4>2. QED
        BY <4>1 DEF Put
    <3>2. ASSUME NEW b \in 1..Len(bills) PROVE BillFine(b)'
      <4> DEFINE got == LineOf(PostedLines(c), b)
      <4>1. /\ got \in Nat
            /\ got # 0 => /\ bills[b].status \in {"POSTED", "PAID"}
                          /\ got <= bills[b].total - bills[b].paid
        BY <2>13, PostedLinesTyped
      <4>2. Applied(b)[c] = 0 /\ Applied(b)'[c] = got
        BY <3>1 DEF Applied
      <4>3. Settles(b, got) /\ BillFine(b)
        BY <3>1 DEF PaidInv
      <4> HIDE DEF got
      <4>4. Standing(b)'
        BY <4>1, <4>3, StandingMoves
      <4>5. bills'[b].status = "DRAFT" => bills[b].status = "DRAFT" /\ got = 0
        BY <4>1, <4>3 DEF Settles
      <4>6. got \in Int /\ Applied(b)'[c] = Applied(b)[c] + got
        BY <4>1, <4>2
      <4>7. QED
        BY <3>1, <4>3, <4>4, <4>5, <4>6, AppliedMoves
    <3>3. QED
      BY <3>1, <3>2 DEF PaidInv
  <2>14. ASSUME NEW c \in 1..Len(payments), CancelPayment(c) PROVE PaidInv'
    <3>1. payments[c] \in Payment
      BY RowFacts
    <3>2. /\ [payments[c] EXCEPT !.status = "VOID"].status = "VOID"
          /\ [payments[c] EXCEPT !.status = "CANCELLED"].status = "CANCELLED"
      BY <3>1 DEF Payment
    <3>3. /\ \/ /\ payments[c].status = "DRAFT"
                /\ payments'[c].status = "VOID" /\ bills' = bills
             \/ /\ payments[c].status = "POSTED"
                /\ payments'[c].status = "CANCELLED"
                /\ \A b \in 1..Len(bills) : Settles(b, -LineOf(payments[c].lines, b))
          /\ Len(bills') = Len(bills) /\ Len(payments') = Len(payments)
          /\ \A k \in 1..Len(payments) : k # c => payments'[k] = payments[k]
      BY <2>14, <3>2, CancelPaymentEffect DEF Put
    <3>4. ASSUME NEW b \in 1..Len(bills) PROVE BillFine(b)'
      <4> DEFINE line == LineOf(payments[c].lines, b)
      <4>1. line \in Nat /\ bills[b].paid \in Int /\ BillFine(b)
        <5>1. b \in Nat \ {0} /\ BillFine(b)
          BY TypedRows DEF PaidInv
        <5>2. QED
          BY <5>1, RowFacts
      <4>2. CASE payments[c].status = "POSTED"
        <5> DEFINE got == -line
        <5>1. Applied(b)[c] = line /\ Applied(b)'[c] = 0
          BY <3>3, <4>2 DEF Applied
        <5>2. Settles(b, -line)
          BY <3>3, <4>2
        <5>3. bills[b].status = "DRAFT" => line = 0
          BY <4>1, <5>1 DEF BillFine
        <5> HIDE DEF line
        <5>4. got \in Int /\ got <= 0 /\ Applied(b)'[c] = Applied(b)[c] + got /\ Settles(b, got)
          BY <4>1, <5>1, <5>2
        <5>5. bills'[b].status = "DRAFT" => bills[b].status = "DRAFT" /\ got = 0
          BY <4>1, <5>2, <5>3 DEF Settles
        <5> HIDE DEF got
        <5>6. Standing(b)'
          BY <4>1, <5>4, StandingMoves
        <5>7. QED
          BY <3>3, <4>1, <5>4, <5>5, <5>6, AppliedMoves
      <4>3. CASE payments[c].status = "DRAFT"
        <5> DEFINE got == 0
        <5>1. Applied(b)[c] = 0 /\ Applied(b)'[c] = 0
          BY <3>3, <4>3 DEF Applied
        <5>2. Settles(b, got)
          BY <3>3, <4>1, <4>3 DEF Settles
        <5>3. /\ got \in Int /\ got <= 0 /\ Applied(b)'[c] = Applied(b)[c] + got
              /\ bills'[b].status = "DRAFT" => bills[b].status = "DRAFT" /\ got = 0
          BY <3>3, <4>3, <5>1
        <5> HIDE DEF got
        <5>4. Standing(b)'
          BY <4>1, <5>2, <5>3, StandingMoves
        <5>5. QED
          BY <3>3, <4>1, <5>2, <5>3, <5>4, AppliedMoves
      <4>4. QED
        BY <3>3, <4>2, <4>3
    <3>5. QED
      BY <3>3, <3>4 DEF PaidInv
  <2>15. ASSUME NEW gate \in AllGates, NEW kind \in {"receipt", "return", "bill"},
                NEW n \in 1..MaxDocuments, Approve(gate, kind, n)
         PROVE  PaidInv'
    BY <1>2, <2>15, ApproveEffect
  <2>16. ASSUME NEW s \in Slots, NEW q \in Quantities, Sell(s, q) PROVE PaidInv'
    BY <1>2, <2>16, SellEffect
  <2>17. QED
    BY <1>4, <2>1, <2>2, <2>3, <2>4, <2>5, <2>6, <2>7, <2>8, <2>9, <2>10, <2>11, <2>12, <2>13,
       <2>14, <2>15, <2>16 DEF Next
<1>5. QED
  BY <1>3, <1>4

\* What a bill was paid is always what the payments that stand give it, and never more than
\* its total, for every number of bills and payments, posted and cancelled in any order.
LEMMA SpecPaid == Spec => []PaidInv
<1>1. Init => PaidInv
  <2>1. Init => Len(bills) = 0 /\ 1..0 = {}
    BY EmptySeq, SMT DEF Init
  <2>2. QED
    BY <2>1 DEF PaidInv
<1>2. TypeInv /\ PaidInv /\ [Next]_vars => PaidInv'
  BY StepPaid
<1>3. QED
  BY <1>1, <1>2, SpecTyped, PTL DEF Spec

\* So what the run checks of the bills holds however many there are: PAID says exactly that
\* a bill is paid in full, and no sequence of payments and cancellations pays more.
THEOREM PurchasingPaidApplied == Spec => []PaidIsApplied
<1>1. TypeInv /\ PaidInv => PaidIsApplied
  BY DEF TypeInv, PaidInv, BillFine, Standing, PaidIsApplied, Applied
<1>2. QED
  BY <1>1, SpecTyped, SpecPaid, PTL

-----------------------------------------------------------------------------
(* Orders and what was received on them                                    *)

\* A receipt of another order, or of none, counted its goods on order p.
Strayed(p) == \E g \in 1..Len(receipts) : receipts[g].orderLine = p /\ receipts[g].order # p

\* An order that is APPROVED, or on which goods came, was approved, unless they strayed; its
\* status says how much came.
OrderFine(p) ==
    /\ orders[p].status = "APPROVED" => orders[p].approvedOnce
    /\ orders[p].received > 0 => orders[p].approvedOnce \/ Strayed(p)
    /\ orders[p].status # "CANCELLED" =>
          (orders[p].status = "FULLY_RECEIVED" <=> orders[p].received >= orders[p].line.qty)

\* A receipt's order was approved when the receipt was created.
Allowed(g) == receipts[g].order # 0 => orders[receipts[g].order].approvedOnce

\* Both hold of every order and receipt.
OrdersInv ==
    /\ \A p \in 1..Len(orders) : OrderFine(p)
    /\ \A g \in 1..Len(receipts) : Allowed(g)

\* What a step leaves of orders and receipts: every receipt names what it named, and an
\* order that was approved was.
NamesKept ==
    /\ Len(receipts') \in Nat /\ Len(receipts') >= Len(receipts)
    /\ \A g \in 1..Len(receipts) :
          receipts'[g].order = receipts[g].order /\ receipts'[g].orderLine = receipts[g].orderLine
    /\ \A p \in 1..Len(orders) : orders[p].approvedOnce => orders'[p].approvedOnce

\* So a receipt stays allowed, and goods that strayed stay astray.
LEMMA NamesStay ==
  ASSUME TypeInv, NamesKept
  PROVE  /\ \A g \in 1..Len(receipts) : Allowed(g) => Allowed(g)'
         /\ \A p : Strayed(p) => Strayed(p)'
<1>1. /\ Len(receipts) \in Nat /\ Len(orders) \in Nat
      /\ \A g \in 1..Len(receipts) : receipts[g].order \in 0..Len(orders)
  BY TypedRows
<1>2. ASSUME NEW g \in 1..Len(receipts), Allowed(g) PROVE Allowed(g)'
  <2>1. receipts[g].order # 0 => receipts[g].order \in 1..Len(orders)
    BY <1>1
  <2>2. QED
    BY <1>2, <2>1 DEF Allowed, NamesKept
<1>3. ASSUME NEW p, Strayed(p) PROVE Strayed(p)'
  <2>1. PICK g \in 1..Len(receipts) : receipts[g].orderLine = p /\ receipts[g].order # p
    BY <1>3 DEF Strayed
  <2>2. g \in 1..Len(receipts')
    BY <1>1 DEF NamesKept
  <2>3. receipts'[g].orderLine = p /\ receipts'[g].order # p
    BY <2>1 DEF NamesKept
  <2>4. QED
    BY <2>2, <2>3 DEF Strayed
<1>4. QED
  BY <1>2, <1>3

\* An order that does not change stays as it is.
LEMMA OrderStays ==
  ASSUME TypeInv, NamesKept, NEW p, OrderFine(p), orders'[p] = orders[p]
  PROVE  OrderFine(p)'
<1>1. Strayed(p) => Strayed(p)'
  BY NamesStay
<1>2. QED
  BY <1>1 DEF OrderFine

\* Where no order and no receipt changes.
LEMMA OrdersStay ==
  ASSUME TypeInv, OrdersInv, UNCHANGED <<orders, receipts>>
  PROVE  OrdersInv'
<1>1. NamesKept
  BY TypedRows DEF NamesKept
<1>2. \A p \in 1..Len(orders) : OrderFine(p)'
  BY <1>1, OrderStays DEF OrdersInv
<1>3. \A g \in 1..Len(receipts) : Allowed(g)'
  BY <1>1, NamesStay DEF OrdersInv
<1>4. QED
  BY <1>2, <1>3 DEF OrdersInv

\* Where one order changes.
LEMMA OneOrder ==
  ASSUME TypeInv, OrdersInv, NamesKept, NEW p \in 1..Len(orders), Len(orders') = Len(orders),
         \A k \in 1..Len(orders) : k # p => orders'[k] = orders[k],
         Len(receipts') = Len(receipts), OrderFine(p)'
  PROVE  OrdersInv'
<1>1. ASSUME NEW k \in 1..Len(orders) PROVE OrderFine(k)'
  <2>1. CASE k = p
    BY <2>1
  <2>2. CASE k # p
    BY <2>2, OrderStays DEF OrdersInv
  <2>3. QED
    BY <2>1, <2>2
<1>2. \A g \in 1..Len(receipts) : Allowed(g)'
  BY NamesStay DEF OrdersInv
<1>3. QED
  BY <1>1, <1>2 DEF OrdersInv

\* A new order has received nothing.
LEMMA CreateOrderFine ==
  ASSUME TypeInv, OrdersInv, NEW line \in OrderPayloads, CreateOrder(line)
  PROVE  OrdersInv'
<1> DEFINE N == Len(orders) + 1
<1>1. /\ Grown(orders, orders', [line |-> line, received |-> 0, status |-> "DRAFT",
                                 approvedOnce |-> FALSE])
      /\ UNCHANGED receipts /\ Len(orders) \in Nat /\ Len(receipts) \in Nat
  BY CreateOrderEffect, TypedRows
<1>2. /\ Len(orders') = N /\ \A k \in 1..Len(orders) : orders'[k] = orders[k]
      /\ orders'[N].line = line /\ orders'[N].received = 0 /\ orders'[N].status = "DRAFT"
  BY <1>1 DEF Grown
<1>3. line.qty \in Nat \ {0}
  <2>1. line \in OrderPayload
    BY PayloadsAssumption
  <2>2. QED
    BY <2>1, Zenon DEF OrderPayload
<1>4. NamesKept
  BY <1>1, <1>2 DEF NamesKept
<1>5. ASSUME NEW p \in 1..N PROVE OrderFine(p)'
  <2>1. CASE p \in 1..Len(orders)
    BY <1>2, <1>4, <2>1, OrderStays DEF OrdersInv
  <2>2. CASE p = N
    BY <1>2, <1>3, <2>2 DEF OrderFine
  <2>3. QED
    BY <1>1, <2>1, <2>2
<1>6. \A g \in 1..Len(receipts) : Allowed(g)'
  BY <1>4, NamesStay DEF OrdersInv
<1>7. QED
  BY <1>1, <1>2, <1>5, <1>6 DEF OrdersInv

\* An order that is approved was approved.
LEMMA ApproveOrderFine ==
  ASSUME TypeInv, OrdersInv, NEW p \in 1..Len(orders), ApproveOrder(p)
  PROVE  OrdersInv'
<1>1. /\ Put(orders, orders', p, [line |-> orders[p].line, received |-> orders[p].received,
                                  status |-> "APPROVED", approvedOnce |-> TRUE])
      /\ orders[p].status = "DRAFT"
      /\ UNCHANGED receipts /\ Len(receipts) \in Nat
  BY ApproveOrderEffect, TypedRows
<1>2. /\ Len(orders') = Len(orders)
      /\ \A k \in 1..Len(orders) : k # p => orders'[k] = orders[k]
      /\ orders'[p].line = orders[p].line /\ orders'[p].received = orders[p].received
      /\ orders'[p].status = "APPROVED" /\ orders'[p].approvedOnce
  BY <1>1 DEF Put
<1>3. NamesKept
  <2>1. \A k \in 1..Len(orders) : orders[k].approvedOnce => orders'[k].approvedOnce
    BY <1>2
  <2>2. QED
    BY <1>1, <2>1 DEF NamesKept
<1>4. OrderFine(p)'
  <2>1. OrderFine(p)
    BY DEF OrdersInv
  <2>2. orders[p].received \in Nat /\ orders[p].line.qty \in Nat
    BY RowFacts
  <2>3. QED
    BY <1>1, <1>2, <2>1, <2>2 DEF OrderFine
<1>5. QED
  BY <1>1, <1>2, <1>3, <1>4, OneOrder

\* One that is cancelled says nothing of what came.
LEMMA CancelOrderFine ==
  ASSUME TypeInv, OrdersInv, NEW p \in 1..Len(orders), CancelOrder(p)
  PROVE  OrdersInv'
<1>1. /\ Put(orders, orders', p, [orders[p] EXCEPT !.status = "CANCELLED"])
      /\ UNCHANGED receipts /\ Len(receipts) \in Nat /\ orders[p] \in Order
  BY CancelOrderEffect, TypedRows, RowFacts
<1>2. LET o == [orders[p] EXCEPT !.status = "CANCELLED"]
      IN  /\ o.line = orders[p].line /\ o.received = orders[p].received
          /\ o.approvedOnce = orders[p].approvedOnce /\ o.status = "CANCELLED"
  BY <1>1 DEF Order
<1>3. /\ Len(orders') = Len(orders)
      /\ \A k \in 1..Len(orders) : k # p => orders'[k] = orders[k]
      /\ orders'[p].received = orders[p].received
      /\ orders'[p].approvedOnce = orders[p].approvedOnce /\ orders'[p].status = "CANCELLED"
  BY <1>1, <1>2 DEF Put
<1>4. NamesKept
  <2>1. \A k \in 1..Len(orders) : orders[k].approvedOnce => orders'[k].approvedOnce
    BY <1>3
  <2>2. QED
    BY <1>1, <2>1 DEF NamesKept
<1>5. OrderFine(p)'
  <2>1. OrderFine(p) /\ (Strayed(p) => Strayed(p)')
    BY <1>4, NamesStay DEF OrdersInv
  <2>2. QED
    BY <1>3, <2>1 DEF OrderFine
<1>6. QED
  BY <1>1, <1>3, <1>4, <1>5, OneOrder

\* A new receipt is on an order that is approved.
LEMMA CreateReceiptFine ==
  ASSUME TypeInv, OrdersInv, NEW line \in ReceiptPayloads, NEW p \in 0..Len(orders),
         NEW q \in 0..Len(orders), CreateReceipt(line, p, q)
  PROVE  OrdersInv'
<1> DEFINE N == Len(receipts) + 1
<1>1. /\ Grown(receipts, receipts', [line |-> line, order |-> p, orderLine |-> q,
                                     receipt |-> 0, status |-> "DRAFT"])
      /\ p # 0 => orders[p].status = "APPROVED"
      /\ UNCHANGED orders /\ Len(orders) \in Nat /\ Len(receipts) \in Nat
  BY CreateReceiptEffect, TypedRows
<1>2. /\ Len(receipts') = N /\ \A k \in 1..Len(receipts) : receipts'[k] = receipts[k]
      /\ receipts'[N].order = p
  BY <1>1 DEF Grown
<1>3. NamesKept
  BY <1>1, <1>2 DEF NamesKept
<1>4. \A k \in 1..Len(orders) : OrderFine(k)'
  BY <1>1, <1>3, OrderStays DEF OrdersInv
<1>5. ASSUME NEW g \in 1..N PROVE Allowed(g)'
  <2>1. CASE g \in 1..Len(receipts)
    BY <1>3, <2>1, NamesStay DEF OrdersInv
  <2>2. CASE g = N
    <3>1. p # 0 => p \in 1..Len(orders)
      BY <1>1
    <3>2. p # 0 => orders[p].approvedOnce
      BY <1>1, <3>1 DEF OrdersInv, OrderFine
    <3>3. QED
      BY <1>1, <1>2, <2>2, <3>2 DEF Allowed
  <2>3. QED
    BY <1>1, <2>1, <2>2
<1>6. QED
  BY <1>1, <1>2, <1>4, <1>5 DEF OrdersInv

\* Goods that come on an order q by a receipt of it were allowed, by another they strayed,
\* and the order's status follows what came.
LEMMA CountedFine ==
  ASSUME TypeInv, OrdersInv, NEW g \in 1..Len(receipts), NEW q \in 1..Len(orders), q # 0,
         receipts[g].orderLine = q, NEW n \in Nat \ {0},
         Put(orders, orders', q, Received(orders[q], n)),
         Len(receipts') = Len(receipts),
         \A k \in 1..Len(receipts) :
            receipts'[k].order = receipts[k].order /\ receipts'[k].orderLine = receipts[k].orderLine
  PROVE  OrdersInv'
<1> DEFINE o == orders[q]
           u == orders'[q]
<1>1. /\ o \in Order /\ o.received \in Nat /\ o.line.qty \in Nat \ {0} /\ n \in Nat
      /\ Len(receipts) \in Nat
  BY RowFacts, TypedRows
<1>2. /\ Len(orders') = Len(orders) /\ u = Received(o, n)
      /\ \A k \in 1..Len(orders) : k # q => orders'[k] = orders[k]
  BY DEF Put
<1>3. /\ u.line = o.line /\ u.approvedOnce = o.approvedOnce
      /\ u.received = o.received + n
      /\ u.status = IF o.status = "CANCELLED" THEN "CANCELLED"
                    ELSE IF o.received + n >= o.line.qty THEN "FULLY_RECEIVED"
                    ELSE IF o.received + n > 0 THEN "PARTIALLY_RECEIVED" ELSE o.status
  <2> HIDE DEF o, u
  <2>1. /\ Received(o, n).line = o.line /\ Received(o, n).approvedOnce = o.approvedOnce
        /\ Received(o, n).received = o.received + n
        /\ Received(o, n).status =
              IF o.status = "CANCELLED" THEN "CANCELLED"
              ELSE IF o.received + n >= o.line.qty THEN "FULLY_RECEIVED"
              ELSE IF o.received + n > 0 THEN "PARTIALLY_RECEIVED" ELSE o.status
    BY <1>1, ReceivedTyped
  <2>2. QED
    BY <1>2, <2>1
<1>4. NamesKept
  <2>1. \A k \in 1..Len(orders) : orders[k].approvedOnce => orders'[k].approvedOnce
    BY <1>2, <1>3
  <2>2. QED
    BY <1>1, <2>1 DEF NamesKept
<1>5. u.approvedOnce \/ Strayed(q)'
  <2>1. CASE receipts[g].order = q
    BY <1>3, <2>1 DEF OrdersInv, Allowed
  <2>2. CASE receipts[g].order # q
    BY <2>2 DEF Strayed
  <2>3. QED
    BY <2>1, <2>2
<1>6. u.status # "APPROVED" /\
      (u.status # "CANCELLED" => (u.status = "FULLY_RECEIVED" <=> u.received >= u.line.qty))
  <2>1. o.received + n > 0
    BY <1>1
  <2>2. QED
    BY <1>3, <2>1
<1>7. OrderFine(q)'
  BY <1>5, <1>6 DEF OrderFine
<1>8. QED
  BY <1>2, <1>4, <1>7, OneOrder

\* What a posted receipt counts on an order is counted so.
LEMMA PostReceiptFine ==
  ASSUME TypeInv, OrdersInv, NEW g \in 1..Len(receipts), PostReceipt(g)
  PROVE  OrdersInv'
<1> DEFINE r == receipts[g]
<1>1. /\ Put(receipts, receipts', g, [line |-> r.line, order |-> r.order,
                orderLine |-> r.orderLine, receipt |-> Len(movements) + 1, status |-> "POSTED"])
      /\ r.orderLine = 0 => orders' = orders
      /\ r.orderLine # 0 =>
            /\ r.orderLine \in 1..Len(orders)
            /\ Put(orders, orders', r.orderLine, Received(orders[r.orderLine], r.line.qty))
      /\ Len(receipts) \in Nat /\ r.line.qty \in Nat \ {0}
  BY PostReceiptEffect, TypedRows, RowFacts
<1>2. /\ Len(receipts') = Len(receipts)
      /\ \A k \in 1..Len(receipts) :
            receipts'[k].order = receipts[k].order /\ receipts'[k].orderLine = receipts[k].orderLine
  <2>1. /\ Len(receipts') = Len(receipts)
        /\ \A k \in 1..Len(receipts) : k # g => receipts'[k] = receipts[k]
        /\ receipts'[g].order = r.order /\ receipts'[g].orderLine = r.orderLine
    BY <1>1 DEF Put
  <2>2. QED
    BY <2>1
<1>3. CASE r.orderLine = 0
  <2>1. NamesKept
    BY <1>1, <1>2, <1>3 DEF NamesKept
  <2>2. \A p \in 1..Len(orders) : OrderFine(p)'
    BY <1>1, <1>3, <2>1, OrderStays DEF OrdersInv
  <2>3. \A k \in 1..Len(receipts) : Allowed(k)'
    BY <2>1, NamesStay DEF OrdersInv
  <2>4. QED
    BY <1>1, <1>2, <1>3, <2>2, <2>3 DEF OrdersInv
<1>4. CASE r.orderLine # 0
  <2>1. PICK q : q = r.orderLine
    OBVIOUS
  <2>2. PICK n : n = r.line.qty
    OBVIOUS
  <2>3. /\ q \in 1..Len(orders) /\ q # 0 /\ receipts[g].orderLine = q /\ n \in Nat \ {0}
        /\ Put(orders, orders', q, Received(orders[q], n))
    BY <1>1, <1>4, <2>1, <2>2
  <2>4. QED
    BY <1>2, <2>3, CountedFine
<1>5. QED
  BY <1>3, <1>4

\* Every step keeps what is said of orders.
LEMMA StepOrders ==
  ASSUME TypeInv, OrdersInv, [Next]_vars
  PROVE  OrdersInv'
<1>1. CASE UNCHANGED vars
  BY <1>1, OrdersStay DEF vars
<1>2. CASE Next
  <2>1. ASSUME NEW line \in OrderPayloads, CreateOrder(line) PROVE OrdersInv'
    BY <2>1, CreateOrderFine
  <2>2. ASSUME NEW p \in 1..Len(orders), ApproveOrder(p) PROVE OrdersInv'
    BY <2>2, ApproveOrderFine
  <2>3. ASSUME NEW p \in 1..Len(orders), CancelOrder(p) PROVE OrdersInv'
    BY <2>3, CancelOrderFine
  <2>4. ASSUME NEW line \in ReceiptPayloads, NEW p \in 0..Len(orders), NEW q \in 0..Len(orders),
               CreateReceipt(line, p, q)
        PROVE  OrdersInv'
    BY <2>4, CreateReceiptFine
  <2>5. ASSUME NEW g \in 1..Len(receipts), PostReceipt(g) PROVE OrdersInv'
    BY <2>5, PostReceiptFine
  <2>6. ASSUME NEW g \in 1..Len(receipts), CancelReceipt(g) PROVE OrdersInv'
    <3>1. /\ Put(receipts, receipts', g, [receipts[g] EXCEPT !.status = "CANCELLED"])
          /\ UNCHANGED orders /\ receipts[g] \in Receipt /\ Len(receipts) \in Nat
      BY <2>6, CancelReceiptEffect, RowFacts, TypedRows
    <3>2. LET n == [receipts[g] EXCEPT !.status = "CANCELLED"]
          IN  n.order = receipts[g].order /\ n.orderLine = receipts[g].orderLine
      BY <3>1 DEF Receipt
    <3>3. /\ Len(receipts') = Len(receipts)
          /\ \A k \in 1..Len(receipts) : k # g => receipts'[k] = receipts[k]
          /\ receipts'[g].order = receipts[g].order
          /\ receipts'[g].orderLine = receipts[g].orderLine
      BY <3>1, <3>2 DEF Put
    <3>4. NamesKept
      BY <3>1, <3>3 DEF NamesKept
    <3>5. \A p \in 1..Len(orders) : OrderFine(p)'
      BY <3>1, <3>4, OrderStays DEF OrdersInv
    <3>6. \A k \in 1..Len(receipts) : Allowed(k)'
      BY <3>4, NamesStay DEF OrdersInv
    <3>7. QED
      BY <3>1, <3>3, <3>5, <3>6 DEF OrdersInv
  <2>7. ASSUME NEW g \in 1..Len(receipts), NEW q \in Quantities, CreateReturn(g, q)
        PROVE  OrdersInv'
    BY <2>7, CreateReturnEffect, OrdersStay
  <2>8. ASSUME NEW m \in 1..Len(returns), PostReturn(m) PROVE OrdersInv'
    BY <2>8, PostReturnEffect, OrdersStay
  <2>9. ASSUME NEW payload \in BillPayloads, CreateBill(payload) PROVE OrdersInv'
    BY <2>9, CreateBillEffect, OrdersStay
  <2>10. ASSUME NEW b \in 1..Len(bills), NEW due \in DueDates, PostBill(b, due) PROVE OrdersInv'
    BY <2>10, PostBillEffect, OrdersStay
  <2>11. ASSUME NEW b \in 1..Len(bills), CancelBill(b) PROVE OrdersInv'
    BY <2>11, CancelBillEffect, OrdersStay
  <2>12. ASSUME NEW amount \in Amounts, NEW method \in {"AUTO", "MANUAL"},
                NEW lines \in {<<>>} \cup [1..Len(bills) -> Amounts \cup {0}],
                CreatePayment(amount, method, lines)
         PROVE  OrdersInv'
    BY <2>12, CreatePaymentEffect, OrdersStay
  <2>13. ASSUME NEW c \in 1..Len(payments), PostPayment(c) PROVE OrdersInv'
    BY <2>13, PostPaymentEffect, OrdersStay
  <2>14. ASSUME NEW c \in 1..Len(payments), CancelPayment(c) PROVE OrdersInv'
    BY <2>14, CancelPaymentEffect, OrdersStay
  <2>15. ASSUME NEW gate \in AllGates, NEW kind \in {"receipt", "return", "bill"},
                NEW n \in 1..MaxDocuments, Approve(gate, kind, n)
         PROVE  OrdersInv'
    BY <2>15, ApproveEffect, OrdersStay
  <2>16. ASSUME NEW s \in Slots, NEW q \in Quantities, Sell(s, q) PROVE OrdersInv'
    BY <2>16, SellEffect, OrdersStay
  <2>17. QED
    BY <1>2, <2>1, <2>2, <2>3, <2>4, <2>5, <2>6, <2>7, <2>8, <2>9, <2>10, <2>11, <2>12, <2>13,
       <2>14, <2>15, <2>16 DEF Next
<1>3. QED
  BY <1>1, <1>2

\* However many orders and receipts there are, goods are received on an order that was never
\* approved only where a receipt's line names an order that the receipt itself does not,
\* and an order that is not cancelled is FULLY_RECEIVED exactly when all of it came.
THEOREM PurchasingOrdersApproved == Spec => []OrdersApprovedFirst
<1>1. Init => OrdersInv
  <2>1. Init => Len(orders) = 0 /\ Len(receipts) = 0 /\ 1..0 = {}
    BY EmptySeq, SMT DEF Init
  <2>2. QED
    BY <2>1 DEF OrdersInv
<1>2. TypeInv /\ OrdersInv /\ [Next]_vars => OrdersInv'
  BY StepOrders
<1>3. OrdersInv => OrdersApprovedFirst
  BY DEF OrdersInv, OrderFine, Strayed, OrdersApprovedFirst
<1>4. QED
  BY <1>1, <1>2, <1>3, SpecTyped, PTL DEF Spec

-----------------------------------------------------------------------------
(* What goes back                                                          *)

\* What the returns of receipt n ask, and what the POSTED ones returned, by return.
Asked(n) == [m \in 1..Len(returns) |-> IF returns[m].receipt = n THEN returns[m].qty ELSE 0]
Returned(n) ==
    [m \in 1..Len(returns) |->
        IF returns[m].receipt = n /\ returns[m].status = "POSTED" THEN returns[m].qty ELSE 0]

\* A return of receipt n was created while another one was a draft.
Overlapped(n) == \E m \in 1..Len(returns) : returns[m].receipt = n /\ returns[m].overlapped

\* Unless they overlap, drafts and POSTED returns together ask no more than was received.
AskedFine(n) == Overlapped(n) \/ Total(Asked(n), Len(returns)) <= receipts[n].line.qty

\* That is so of every receipt.
AskedInv == \A n \in 1..Len(receipts) : AskedFine(n)

\* What is asked and returned are totals of naturals, and nothing goes back unasked.
LEMMA AskedTyped ==
  ASSUME TypeInv, NEW n
  PROVE  /\ Len(returns) \in Nat
         /\ Asked(n) \in [1..Len(returns) -> Int] /\ Returned(n) \in [1..Len(returns) -> Int]
         /\ Total(Asked(n), Len(returns)) \in Int /\ Total(Returned(n), Len(returns)) \in Int
         /\ Total(Returned(n), Len(returns)) <= Total(Asked(n), Len(returns))
<1>1. Len(returns) \in Nat /\ \A m \in 1..Len(returns) : returns[m].qty \in Nat
  BY RowFacts, TypedRows
<1>2. /\ Asked(n) \in [1..Len(returns) -> Int] /\ Returned(n) \in [1..Len(returns) -> Int]
      /\ \A m \in 1..Len(returns) : Returned(n)[m] <= Asked(n)[m]
  BY <1>1 DEF Asked, Returned
<1>3. QED
  BY <1>1, <1>2, TotalType, TotalMonotone

\* Where no return is about another receipt, asks another quantity or is created, what is
\* asked stays.
LEMMA AskedStays ==
  ASSUME TypeInv, NEW n, AskedFine(n), receipts'[n].line = receipts[n].line,
         Len(returns') = Len(returns),
         \A m \in 1..Len(returns) :
            /\ returns'[m].receipt = returns[m].receipt /\ returns'[m].qty = returns[m].qty
            /\ returns'[m].overlapped = returns[m].overlapped
  PROVE  AskedFine(n)'
<1>1. Asked(n)' = Asked(n)
  BY DEF Asked
<1>2. Overlapped(n) => Overlapped(n)'
  BY DEF Overlapped
<1>3. QED
  BY <1>1, <1>2 DEF AskedFine

\* A new receipt was asked nothing.
LEMMA NoneAsked ==
  ASSUME TypeInv
  PROVE  Total(Asked(Len(receipts) + 1), Len(returns)) = 0
<1> DEFINE n == Len(receipts) + 1
<1>1. Len(receipts) \in Nat /\ \A m \in 1..Len(returns) : returns[m].receipt \in 1..Len(receipts)
  BY RowFacts, TypedRows
<1>2. \A m \in 1..Len(returns) : returns[m].receipt # n
  BY <1>1
<1> HIDE DEF n
<1>3. \A m \in 1..Len(returns) : Asked(n)[m] = 0
  BY <1>2 DEF Asked
<1>4. Total(Asked(n), Len(returns)) = 0
  BY <1>3, AskedTyped, TotalZero
<1>5. QED
  BY <1>4 DEF n

\* A return asks no more than is left, unless it overlaps.
LEMMA ReturnAsked ==
  ASSUME TypeInv, AskedInv, NEW n \in 1..Len(receipts), NEW q \in Quantities, CreateReturn(n, q),
         NEW k \in 1..Len(receipts)
  PROVE  AskedFine(k)'
<1> DEFINE N == Len(returns)
           f == Asked(k)
           g == Asked(k)'
           Last == returns'[N + 1]
<1>1. /\ Len(returns') = N + 1 /\ \A m \in 1..N : returns'[m] = returns[m]
      /\ Last.receipt = n /\ Last.qty = q
      /\ Last.overlapped <=> \E m \in 1..N : returns[m].receipt = n /\ returns[m].status = "DRAFT"
  BY CreateReturnEffect
<1>2. N \in Nat /\ f \in [1..N -> Int] /\ Total(f, N) \in Int /\ q \in Int
  BY AskedTyped, StockAssumption
<1>3. receipts' = receipts /\ receipts[k].line.qty \in Nat
  BY RowFacts, CreateReturnEffect
<1>4. /\ g = [m \in 1..(N + 1) |-> IF returns'[m].receipt = k THEN returns'[m].qty ELSE 0]
      /\ Total(Asked(k), Len(returns))' = Total(g, N + 1)
  BY <1>1 DEF Asked
<1>5. /\ g = [m \in 1..(N + 1) |-> g[m]] /\ \A m \in 1..N : g[m] = f[m]
      /\ g[N + 1] = IF k = n THEN q ELSE 0
  BY <1>1, <1>2, <1>4 DEF Asked
<1>6. Overlapped(k) => Overlapped(k)'
  BY <1>1, <1>2 DEF Overlapped
<1>7. Total(g, N + 1) = Total(f, N) + g[N + 1]
  <2> HIDE DEF f, g, N
  <2>1. ASSUME NEW m \in 1..(N + 1) PROVE g[m] \in Int
    <3>1. CASE m \in 1..N
      BY <3>1, <1>2, <1>5
    <3>2. CASE m \notin 1..N
      <4>1. m = N + 1
        BY <1>2, <3>2
      <4>2. QED
        BY <4>1, <1>2, <1>5
    <3>3. QED
      BY <3>1, <3>2
  <2>2. g \in [1..(N + 1) -> Int]
    BY <2>1, <1>5, Zenon
  <2>3. QED
    BY ONLY <1>2, <1>5, <2>2, TotalStep
<1>8. CASE k # n
  <2>1. AskedFine(k) /\ g[N + 1] = 0
    BY <1>5, <1>8 DEF AskedInv
  <2> HIDE DEF f, g
  <2>2. Total(g, N + 1) = Total(f, N)
    BY <1>2, <1>7, <2>1
  <2>3. QED
    BY <1>3, <1>4, <1>6, <2>1, <2>2 DEF AskedFine, f
<1>9. CASE k = n /\ Last.overlapped
  <2>1. N + 1 \in 1..Len(returns')
    BY <1>1, <1>2
  <2>2. Overlapped(k)'
    BY <1>1, <1>9, <2>1 DEF Overlapped
  <2>3. QED
    BY <2>2 DEF AskedFine
<1>10. CASE k = n /\ ~Last.overlapped
  <2>1. \A m \in 1..N : returns[m].receipt = k => returns[m].status = "POSTED"
    <3>1. \A m \in 1..N : returns[m].status \in {"DRAFT", "POSTED"}
      BY RowFacts DEF Return
    <3>2. QED
      BY <1>1, <1>10, <3>1
  <2>2. Asked(k) = Returned(k)
    BY <2>1 DEF Asked, Returned
  <2>3. TotalReturned(k) = Total(f, N)
    BY <2>2 DEF TotalReturned, Returned
  <2>4. TotalReturned(k) + q <= receipts[k].line.qty /\ g[N + 1] = q
    BY <1>5, <1>10 DEF CreateReturn
  <2> HIDE DEF f, g
  <2>5. Total(g, N + 1) <= receipts[k].line.qty
    BY <1>2, <1>7, <2>3, <2>4
  <2>6. QED
    BY <1>3, <1>4, <2>5 DEF AskedFine
<1>11. QED
  BY <1>8, <1>9, <1>10

\* Every step keeps what is asked within what was received.
LEMMA StepAsked ==
  ASSUME TypeInv, AskedInv, [Next]_vars
  PROVE  AskedInv'
<1>1. ASSUME UNCHANGED returns, Len(receipts') = Len(receipts),
             \A n \in 1..Len(receipts) : receipts'[n].line = receipts[n].line
      PROVE  AskedInv'
  BY <1>1, AskedStays DEF AskedInv
<1>2. ASSUME UNCHANGED <<returns, receipts>> PROVE AskedInv'
  BY <1>1, <1>2
<1>3. CASE UNCHANGED vars
  BY <1>2, <1>3 DEF vars
<1>4. CASE Next
  <2>1. ASSUME NEW line \in OrderPayloads, CreateOrder(line) PROVE AskedInv'
    BY <1>2, <2>1, CreateOrderEffect
  <2>2. ASSUME NEW p \in 1..Len(orders), ApproveOrder(p) PROVE AskedInv'
    BY <1>2, <2>2, ApproveOrderEffect
  <2>3. ASSUME NEW p \in 1..Len(orders), CancelOrder(p) PROVE AskedInv'
    BY <1>2, <2>3, CancelOrderEffect
  <2>4. ASSUME NEW line \in ReceiptPayloads, NEW p \in 0..Len(orders), NEW q \in 0..Len(orders),
               CreateReceipt(line, p, q)
        PROVE  AskedInv'
    <3> DEFINE N == Len(receipts) + 1
    <3>1. /\ Grown(receipts, receipts', [line |-> line, order |-> p, orderLine |-> q,
                                         receipt |-> 0, status |-> "DRAFT"])
          /\ UNCHANGED returns /\ Len(receipts) \in Nat
      BY <2>4, CreateReceiptEffect, TypedRows
    <3>2. /\ Len(receipts') = N /\ \A k \in 1..Len(receipts) : receipts'[k] = receipts[k]
          /\ receipts'[N].line = line
      BY <3>1 DEF Grown
    <3>3. line.qty \in Nat
      <4>1. line \in ReceiptPayload
        BY PayloadsAssumption
      <4>2. QED
        BY <4>1, Zenon DEF ReceiptPayload
    <3>4. ASSUME NEW n \in 1..N PROVE AskedFine(n)'
      <4>1. CASE n \in 1..Len(receipts)
        BY <3>1, <3>2, <4>1, AskedStays DEF AskedInv
      <4>2. CASE n = N
        <5>1. Asked(n)' = Asked(n)
          BY <3>1 DEF Asked
        <5>2. Total(Asked(n), Len(returns)) = 0
          BY <4>2, NoneAsked
        <5>3. QED
          BY <3>1, <3>2, <3>3, <4>2, <5>1, <5>2 DEF AskedFine
      <4>3. QED
        BY <3>1, <4>1, <4>2
    <3>5. QED
      BY <3>2, <3>4 DEF AskedInv
  <2>5. ASSUME NEW g \in 1..Len(receipts), PostReceipt(g) PROVE AskedInv'
    <3>1. /\ Put(receipts, receipts', g, [line |-> receipts[g].line, order |-> receipts[g].order,
                   orderLine |-> receipts[g].orderLine, receipt |-> Len(movements) + 1,
                   status |-> "POSTED"])
          /\ UNCHANGED returns
      BY <2>5, PostReceiptEffect
    <3>2. /\ Len(receipts') = Len(receipts) /\ receipts'[g].line = receipts[g].line
          /\ \A k \in 1..Len(receipts) : k # g => receipts'[k] = receipts[k]
      BY <3>1 DEF Put
    <3>3. QED
      BY <1>1, <3>1, <3>2
  <2>6. ASSUME NEW g \in 1..Len(receipts), CancelReceipt(g) PROVE AskedInv'
    <3>1. /\ Put(receipts, receipts', g, [receipts[g] EXCEPT !.status = "CANCELLED"])
          /\ UNCHANGED returns /\ receipts[g] \in Receipt
      BY <2>6, CancelReceiptEffect, RowFacts
    <3>2. [receipts[g] EXCEPT !.status = "CANCELLED"].line = receipts[g].line
      BY <3>1 DEF Receipt
    <3>3. /\ Len(receipts') = Len(receipts) /\ receipts'[g].line = receipts[g].line
          /\ \A k \in 1..Len(receipts) : k # g => receipts'[k] = receipts[k]
      BY <3>1, <3>2 DEF Put
    <3>4. QED
      BY <1>1, <3>1, <3>3
  <2>7. ASSUME NEW g \in 1..Len(receipts), NEW q \in Quantities, CreateReturn(g, q)
        PROVE  AskedInv'
    BY <2>7, CreateReturnEffect, ReturnAsked DEF AskedInv
  <2>8. ASSUME NEW m \in 1..Len(returns), PostReturn(m) PROVE AskedInv'
    <3>1. /\ receipts' = receipts /\ returns[m] \in Return
          /\ Put(returns, returns', m, [returns[m] EXCEPT !.status = "POSTED"])
      BY <2>8, PostReturnEffect, RowFacts
    <3>2. LET r == [returns[m] EXCEPT !.status = "POSTED"]
          IN  /\ r.receipt = returns[m].receipt /\ r.qty = returns[m].qty
              /\ r.overlapped = returns[m].overlapped
      BY <3>1 DEF Return
    <3>3. /\ Len(returns') = Len(returns)
          /\ \A k \in 1..Len(returns) : k # m => returns'[k] = returns[k]
          /\ returns'[m].receipt = returns[m].receipt /\ returns'[m].qty = returns[m].qty
          /\ returns'[m].overlapped = returns[m].overlapped
      BY <3>1, <3>2 DEF Put
    <3>4. \A k \in 1..Len(returns) :
             /\ returns'[k].receipt = returns[k].receipt /\ returns'[k].qty = returns[k].qty
             /\ returns'[k].overlapped = returns[k].overlapped
      BY <3>3
    <3>5. QED
      BY <3>1, <3>3, <3>4, AskedStays DEF AskedInv
  <2>9. ASSUME NEW payload \in BillPayloads, CreateBill(payload) PROVE AskedInv'
    BY <1>2, <2>9, CreateBillEffect
  <2>10. ASSUME NEW b \in 1..Len(bills), NEW due \in DueDates, PostBill(b, due) PROVE AskedInv'
    BY <1>2, <2>10, PostBillEffect
  <2>11. ASSUME NEW b \in 1..Len(bills), CancelBill(b) PROVE AskedInv'
    BY <1>2, <2>11, CancelBillEffect
  <2>12. ASSUME NEW amount \in Amounts, NEW method \in {"AUTO", "MANUAL"},
                NEW lines \in {<<>>} \cup [1..Len(bills) -> Amounts \cup {0}],
                CreatePayment(amount, method, lines)
         PROVE  AskedInv'
    BY <1>2, <2>12, CreatePaymentEffect
  <2>13. ASSUME NEW c \in 1..Len(payments), PostPayment(c) PROVE AskedInv'
    BY <1>2, <2>13, PostPaymentEffect
  <2>14. ASSUME NEW c \in 1..Len(payments), CancelPayment(c) PROVE AskedInv'
    BY <1>2, <2>14, CancelPaymentEffect
  <2>15. ASSUME NEW gate \in AllGates, NEW kind \in {"receipt", "return", "bill"},
                NEW n \in 1..MaxDocuments, Approve(gate, kind, n)
         PROVE  AskedInv'
    BY <1>2, <2>15, ApproveEffect
  <2>16. ASSUME NEW s \in Slots, NEW q \in Quantities, Sell(s, q) PROVE AskedInv'
    BY <1>2, <2>16, SellEffect
  <2>17. QED
    BY <1>4, <2>1, <2>2, <2>3, <2>4, <2>5, <2>6, <2>7, <2>8, <2>9, <2>10, <2>11, <2>12, <2>13,
       <2>14, <2>15, <2>16 DEF Next
<1>5. QED
  BY <1>3, <1>4

\* However many returns a receipt has, no more of it goes back than came, unless one was
\* created while another one was a draft: as for sales, counting the POSTED returns when one
\* is created is enough as long as every return is posted before the next.
THEOREM PurchasingReturnsWithinReceived == Spec => []ReturnsWithinReceived
<1>1. Init => AskedInv
  <2>1. Init => Len(receipts) = 0 /\ 1..0 = {}
    BY EmptySeq, SMT DEF Init
  <2>2. QED
    BY <2>1 DEF AskedInv
<1>2. TypeInv /\ AskedInv /\ [Next]_vars => AskedInv'
  BY StepAsked
<1>3. TypeInv /\ AskedInv => ReturnsWithinReceived
  <2> SUFFICES ASSUME TypeInv, AskedInv, NEW n \in 1..Len(receipts),
                      TotalReturned(n) > receipts[n].line.qty
               PROVE  Overlapped(n)
    BY DEF ReturnsWithinReceived, Overlapped
  <2>1. TotalReturned(n) = Total(Returned(n), Len(returns))
    BY DEF TotalReturned, Returned
  <2>2. receipts[n].line.qty \in Nat /\ AskedFine(n)
    BY RowFacts DEF AskedInv
  <2>3. /\ Total(Asked(n), Len(returns)) \in Int /\ Total(Returned(n), Len(returns)) \in Int
        /\ Total(Returned(n), Len(returns)) <= Total(Asked(n), Len(returns))
    BY AskedTyped
  <2>4. QED
    BY <2>1, <2>2, <2>3 DEF AskedFine
<1>4. QED
  BY <1>1, <1>2, <1>3, SpecTyped, PTL DEF Spec

-----------------------------------------------------------------------------
(* The entries in the books                                                *)

\* The documents, and the sales, that can have an entry.
Stands(kind, n) ==
    \/ kind = "receipt" /\ n \in 1..Len(receipts) /\ receipts[n].status = "POSTED"
    \/ kind = "return" /\ n \in 1..Len(returns) /\ returns[n].status = "POSTED"
    \/ kind = "bill" /\ n \in 1..Len(bills) /\ bills[n].status \in {"POSTED", "PAID"}
    \/ kind = "payment" /\ n \in 1..Len(payments) /\ payments[n].status = "POSTED"
    \/ kind = "sale" /\ n \in 1..Len(movements)

\* What a document that can be cancelled posted: goods worth i, and v on the payable account.
Worth(kind, n, i, v) ==
    \/ /\ kind = "receipt" /\ n \in 1..Len(receipts) /\ receipts[n].status = "POSTED"
       /\ i = receipts[n].line.qty * receipts[n].line.cost /\ v = 0
    \/ /\ kind = "bill" /\ n \in 1..Len(bills) /\ bills[n].status \in {"POSTED", "PAID"}
       /\ i = 0 /\ v = bills[n].total
    \/ /\ kind = "payment" /\ n \in 1..Len(payments) /\ payments[n].status = "POSTED"
       /\ i = 0 /\ v = -payments[n].amount

\* What is found in the books under key k; a document whose goods cost nothing has no entry.
Entered(k, i, v) ==
    IF k \in DOMAIN books THEN books[k].worth = i /\ books[k].payable = v ELSE i = 0 /\ v = 0

\* Every entry is that of a document that stands, and cancelling a document finds what
\* posting it put there.
KeysInv ==
    IsFiniteSet(DOMAIN books) /\ \A k \in DOMAIN books : k = <<k[1], k[2]>> /\ Stands(k[1], k[2])
BookedInv == \A kind, n, i, v : Worth(kind, n, i, v) => Entered(<<kind, n>>, i, v)

\* Both columns of the books can be summed.
LEMMA BooksSummable ==
  ASSUME TypeInv, IsFiniteSet(DOMAIN books)
  PROVE  /\ Summable(books, "payable", DOMAIN books)
         /\ Summable(books, "worth", DOMAIN books)
         /\ SumOf(books, "payable") \in Int /\ SumOf(books, "worth") \in Int
         /\ \A k \in DOMAIN books : books[k].payable \in Int /\ books[k].worth \in Int
<1>1. \A k \in DOMAIN books : books[k].payable \in Int /\ books[k].worth \in Int
  BY TypedRows DEF BooksTyped, Entry
<1>2. Summable(books, "payable", DOMAIN books) /\ Summable(books, "worth", DOMAIN books)
  BY <1>1 DEF Summable
<1>3. QED
  BY <1>1, <1>2, SumOfType

\* The books stay in order, and move by goods worth i and by v on the payable account.
Posts(i, v) ==
    /\ KeysInv' /\ BookedInv'
    /\ SumOf(books', "worth") = SumOf(books, "worth") + i
    /\ SumOf(books', "payable") = SumOf(books, "payable") + v

\* Entries e are those of the document with key x, and hold goods worth i and v payable.
EntryOf(e, x, i, v) ==
    /\ DOMAIN e \subseteq {x}
    /\ x \in DOMAIN e => e[x].worth = i /\ e[x].payable = v
    /\ x \notin DOMAIN e => i = 0 /\ v = 0

\* That is what the entries of documents are.
LEMMA EntriesOf ==
  ASSUME NEW k, NEW c \in Int
  PROVE  /\ EntryOf(MoneyEntry(k, c), k, 0, c)
         /\ EntryOf(GoodsEntry(k, c, 1), k, IF c > 0 THEN c ELSE 0, 0)
         /\ EntryOf(GoodsEntry(k, c, -1), k, IF c > 0 THEN -c ELSE 0, 0)
<1>1. EntryOf(MoneyEntry(k, c), k, 0, c)
  BY DEF EntryOf, MoneyEntry, Booking
<1>2. 1 * c = c /\ (-1) * c = -c
  BY SMT
<1>3. ASSUME NEW w \in Int, NEW i, i = IF c > 0 THEN w * c ELSE 0
      PROVE  EntryOf(GoodsEntry(k, c, w), k, i, 0)
  <2> DEFINE z == w * c
  <2>1. GoodsEntry(k, c, w) = [j \in IF c > 0 THEN {k} ELSE {} |-> Booking(z, 0)]
    BY DEF GoodsEntry
  <2>2. i = IF c > 0 THEN z ELSE 0
    BY <1>3
  <2> HIDE DEF z
  <2>3. CASE c > 0
    BY <2>1, <2>2, <2>3 DEF EntryOf, Booking
  <2>4. CASE ~(c > 0)
    BY <2>1, <2>2, <2>4 DEF EntryOf, Booking
  <2>5. QED
    BY <2>3, <2>4
<1>4. /\ EntryOf(GoodsEntry(k, c, 1), k, IF c > 0 THEN 1 * c ELSE 0, 0)
      /\ EntryOf(GoodsEntry(k, c, -1), k, IF c > 0 THEN (-1) * c ELSE 0, 0)
  BY <1>3
<1>5. QED
  BY <1>1, <1>2, <1>4

\* Books with the same entries have the same sums.
LEMMA SumOfSame ==
  ASSUME NEW b, NEW a, Summable(b, a, DOMAIN b), NEW c, DOMAIN c = DOMAIN b,
         \A k \in DOMAIN b : c[k][a] = b[k][a]
  PROVE  SumOf(c, a) = SumOf(b, a)
<1>1. Summable(c, a, DOMAIN c)
  BY DEF Summable
<1>2. PICK g : SumsUp(b, a, g, DOMAIN b) /\ SumOf(b, a) = g[DOMAIN b]
  BY SumOfDef
<1>3. PICK h : SumsUp(c, a, h, DOMAIN c) /\ SumOf(c, a) = h[DOMAIN c]
  BY <1>1, SumOfDef
<1>4. \A s \in SUBSET DOMAIN b : h[s] = Sum1(c, a, h, s)
  BY <1>3 DEF SumsUp
<1>5. \A s \in SUBSET DOMAIN b : h[s] = g[s]
  BY <1>2, <1>4, SumsAgree
<1>6. QED
  BY <1>2, <1>3, <1>5

\* A document that comes to stand adds its entry to those there are.
LEMMA EntryBooked ==
  ASSUME TypeInv, KeysInv, BookedInv, policy.autoPosting, NEW kind, NEW n, NEW i \in Int, NEW v \in Int,
         NEW e, EntryOf(e, <<kind, n>>, i, v), Published(e),
         ~Stands(kind, n), Stands(kind, n)',
         \A l, m : Stands(l, m) => Stands(l, m)',
         \A l, m, j, u : Worth(l, m, j, u)' =>
            \/ l = kind /\ m = n /\ j = i /\ u = v
            \/ ~(l = kind /\ m = n) /\ Worth(l, m, j, u)
  PROVE  Posts(i, v)
<1> DEFINE x == <<kind, n>>
<1>1. /\ DOMAIN e \subseteq {x}
      /\ x \in DOMAIN e => e[x].worth = i /\ e[x].payable = v
      /\ x \notin DOMAIN e => i = 0 /\ v = 0
  BY DEF EntryOf
<1>2. x[1] = kind /\ x[2] = n /\ \A l, m : <<l, m>> = x => l = kind /\ m = n
  OBVIOUS
<1>3. x \notin DOMAIN books
  BY <1>2 DEF KeysInv
<1>4. books' = [k \in DOMAIN books \cup DOMAIN e |-> IF k \in DOMAIN e THEN e[k] ELSE books[k]]
  BY DEF Published
<1> HIDE DEF x
<1>5. /\ DOMAIN books' = DOMAIN books \cup DOMAIN e
      /\ \A k \in DOMAIN books : books'[k] = books[k]
      /\ \A k \in DOMAIN e : books'[k] = e[k]
  BY <1>1, <1>3, <1>4
<1>6. /\ Summable(books, "payable", DOMAIN books) /\ SumOf(books, "payable") \in Int
      /\ Summable(books, "worth", DOMAIN books) /\ SumOf(books, "worth") \in Int
  BY BooksSummable DEF KeysInv
<1>7. KeysInv'
  <2>1. IsFiniteSet(DOMAIN books')
    <3>1. IsFiniteSet(DOMAIN books) /\ IsFiniteSet(DOMAIN books \cup {x})
      BY FS_AddElement DEF KeysInv
    <3>2. DOMAIN books' \subseteq DOMAIN books \cup {x}
      BY <1>1, <1>5
    <3>3. QED
      BY <3>1, <3>2, FS_Subset
  <2>2. ASSUME NEW k \in DOMAIN books' PROVE k = <<k[1], k[2]>> /\ Stands(k[1], k[2])'
    <3>1. CASE k \in DOMAIN books
      BY <3>1 DEF KeysInv
    <3>2. CASE k = x
      BY <1>2, <3>2 DEF x
    <3>3. QED
      BY <1>1, <1>5, <3>1, <3>2
  <2>3. QED
    BY <2>1, <2>2 DEF KeysInv
<1>8. BookedInv'
  <2> SUFFICES ASSUME NEW l, NEW m, NEW j, NEW u, Worth(l, m, j, u)' PROVE Entered(<<l, m>>, j, u)'
    BY DEF BookedInv
  <2>1. CASE l = kind /\ m = n /\ j = i /\ u = v
    <3>1. <<l, m>> = x
      BY <2>1 DEF x
    <3>2. QED
      BY <1>1, <1>3, <1>5, <2>1, <3>1 DEF Entered
  <2>2. CASE ~(l = kind /\ m = n) /\ Worth(l, m, j, u)
    <3>1. <<l, m>> # x
      BY <1>2, <2>2
    <3>2. Entered(<<l, m>>, j, u)
      BY <2>2 DEF BookedInv
    <3>3. QED
      BY <1>1, <1>5, <3>1, <3>2 DEF Entered
  <2>3. QED
    BY <2>1, <2>2
<1>9. CASE x \notin DOMAIN e
  <2>1. DOMAIN e = {} /\ i = 0 /\ v = 0
    BY <1>1, <1>9
  <2>2. /\ DOMAIN books' = DOMAIN books
        /\ \A k \in DOMAIN books : books'[k].payable = books[k].payable
        /\ \A k \in DOMAIN books : books'[k].worth = books[k].worth
    BY <1>5, <2>1
  <2>3. /\ SumOf(books', "payable") = SumOf(books, "payable")
        /\ SumOf(books', "worth") = SumOf(books, "worth")
    BY ONLY <1>6, <2>2, SumOfSame
  <2>4. QED
    BY <1>6, <1>7, <1>8, <2>1, <2>3 DEF Posts
<1>10. CASE x \in DOMAIN e
  <2>1. /\ DOMAIN books' = DOMAIN books \cup {x}
        /\ books'[x].worth = i /\ books'[x].payable = v
    BY <1>1, <1>5, <1>10
  <2>2. /\ \A k \in DOMAIN books : books'[k].payable = books[k].payable
        /\ \A k \in DOMAIN books : books'[k].worth = books[k].worth
        /\ books'[x].worth \in Int /\ books'[x].payable \in Int
    BY <1>5, <2>1
  <2>3. /\ SumOf(books', "payable") = SumOf(books, "payable") + books'[x].payable
        /\ SumOf(books', "worth") = SumOf(books, "worth") + books'[x].worth
    BY ONLY <1>3, <1>6, <2>1, <2>2, SumOfAdd
  <2>4. QED
    BY <1>7, <1>8, <2>1, <2>3 DEF Posts
<1>11. QED
  BY <1>9, <1>10

\* Taking a document's entry back takes back what it posted.
LEMMA Unbooked ==
  ASSUME TypeInv, KeysInv, BookedInv, policy.autoPosting, NEW kind, NEW n, NEW i \in Int, NEW v \in Int,
         Worth(kind, n, i, v), Unpublished(<<kind, n>>),
         \A l, m : Stands(l, m) /\ ~(l = kind /\ m = n) => Stands(l, m)',
         \A l, m, j, u : Worth(l, m, j, u)' => ~(l = kind /\ m = n) /\ Worth(l, m, j, u)
  PROVE  Posts(-i, -v)
<1> DEFINE x == <<kind, n>>
<1>1. Entered(x, i, v)
  BY DEF BookedInv
<1>2. x[1] = kind /\ x[2] = n /\ \A l, m : <<l, m>> = x => l = kind /\ m = n
  OBVIOUS
<1>3. books' = [k \in DOMAIN books \ {x} |-> books[k]]
  BY DEF Unpublished
<1>4. \A k : k[1] = kind /\ k[2] = n /\ k = <<k[1], k[2]>> => k = x
  BY Zenon
<1> HIDE DEF x
<1>5. DOMAIN books' = DOMAIN books \ {x} /\ \A k \in DOMAIN books' : books'[k] = books[k]
  BY <1>3
<1>6. /\ Summable(books, "payable", DOMAIN books) /\ SumOf(books, "payable") \in Int
      /\ Summable(books, "worth", DOMAIN books) /\ SumOf(books, "worth") \in Int
      /\ \A k \in DOMAIN books : books[k].payable \in Int /\ books[k].worth \in Int
  BY BooksSummable DEF KeysInv
<1>7. KeysInv'
  <2>1. IsFiniteSet(DOMAIN books')
    BY <1>5, FS_Subset DEF KeysInv
  <2>2. ASSUME NEW k \in DOMAIN books' PROVE k = <<k[1], k[2]>> /\ Stands(k[1], k[2])'
    <3>1. k = <<k[1], k[2]>> /\ Stands(k[1], k[2]) /\ k # x
      BY <1>5 DEF KeysInv
    <3>2. ~(k[1] = kind /\ k[2] = n)
      BY <1>4, <3>1
    <3>3. QED
      BY <3>1, <3>2
  <2>3. QED
    BY <2>1, <2>2 DEF KeysInv
<1>8. BookedInv'
  <2> SUFFICES ASSUME NEW l, NEW m, NEW j, NEW u, Worth(l, m, j, u)' PROVE Entered(<<l, m>>, j, u)'
    BY DEF BookedInv
  <2>1. Worth(l, m, j, u) /\ <<l, m>> # x
    BY <1>2
  <2>2. Entered(<<l, m>>, j, u)
    BY <2>1 DEF BookedInv
  <2>3. QED
    BY <1>5, <2>1, <2>2 DEF Entered
<1>9. CASE x \notin DOMAIN books
  <2>1. i = 0 /\ v = 0
    BY <1>1, <1>9 DEF Entered
  <2>2. /\ DOMAIN books' = DOMAIN books
        /\ \A k \in DOMAIN books : books'[k].payable = books[k].payable
        /\ \A k \in DOMAIN books : books'[k].worth = books[k].worth
    BY <1>5, <1>9
  <2>3. /\ SumOf(books', "payable") = SumOf(books, "payable")
        /\ SumOf(books', "worth") = SumOf(books, "worth")
    BY ONLY <1>6, <2>2, SumOfSame
  <2>4. SumOf(books, "payable") + (-v) = SumOf(books, "payable")
        /\ SumOf(books, "worth") + (-i) = SumOf(books, "worth")
    BY <1>6, <2>1
  <2>5. QED
    BY <1>6, <1>7, <1>8, <2>3, <2>4 DEF Posts
<1>10. CASE x \in DOMAIN books
  <2>1. books[x].worth = i /\ books[x].payable = v
    BY <1>1, <1>10 DEF Entered
  <2>2. /\ DOMAIN books = DOMAIN books' \cup {x} /\ x \notin DOMAIN books'
        /\ \A k \in DOMAIN books' : books[k].payable = books'[k].payable
        /\ \A k \in DOMAIN books' : books[k].worth = books'[k].worth
        /\ books[x].worth \in Int /\ books[x].payable \in Int
    BY <1>5, <1>10, <2>1
  <2>3. Summable(books', "payable", DOMAIN books') /\ Summable(books', "worth", DOMAIN books')
    BY <1>5, <1>6, <1>7 DEF Summable, KeysInv
  <2>4. SumOf(books', "payable") \in Int /\ SumOf(books', "worth") \in Int
    BY <2>3, SumOfType
  <2>5. /\ SumOf(books, "payable") = SumOf(books', "payable") + books[x].payable
        /\ SumOf(books, "worth") = SumOf(books', "worth") + books[x].worth
    BY ONLY <2>2, <2>3, SumOfAdd
  <2>6. /\ SumOf(books', "payable") = SumOf(books, "payable") + (-v)
        /\ SumOf(books', "worth") = SumOf(books, "worth") + (-i)
    BY <2>1, <2>4, <2>5
  <2>7. QED
    BY <1>7, <1>8, <2>6 DEF Posts
<1>11. QED
  BY <1>9, <1>10

\* Nothing is posted.
LEMMA BooksStay ==
  ASSUME TypeInv, KeysInv, BookedInv, UNCHANGED books,
         \A l, m : Stands(l, m) => Stands(l, m)',
         \A l, m, j, u : Worth(l, m, j, u)' => Worth(l, m, j, u)
  PROVE  Posts(0, 0)
<1>1. KeysInv'
  BY DEF KeysInv
<1>2. BookedInv'
  BY DEF BookedInv, Entered
<1>3. SumOf(books, "payable") \in Int /\ SumOf(books, "worth") \in Int
  BY BooksSummable DEF KeysInv
<1>4. QED
  BY <1>1, <1>2, <1>3 DEF Posts

-----------------------------------------------------------------------------
(* What every operation books                                              *)

\* But for row n, the rows of f whose status is in S are those of g.
Rest(f, g, S, n) ==
    /\ Len(f) \in Nat /\ Len(g) \in Nat /\ Len(g) >= Len(f)
    /\ \A k \in 1..Len(g) : k # n /\ g[k].status \in S =>
          k \in 1..Len(f) /\ f[k].status \in S /\ g[k] = f[k]
    /\ \A k \in 1..Len(f) : k # n /\ f[k].status \in S => g[k].status \in S

\* That is so where rows stay.
LEMMA RestStays ==
  ASSUME NEW f, Len(f) \in Nat, NEW S, NEW n
  PROVE  Rest(f, f, S, n)
BY DEF Rest

\* Where row n is assigned, or any row that does not count before or after.
LEMMA RestPut ==
  ASSUME NEW f, Len(f) \in Nat, NEW S, NEW n, NEW g, NEW r, Put(f, g, n, r)
  PROVE  /\ Rest(f, g, S, n)
         /\ f[n].status \notin S /\ r.status \notin S => Rest(f, g, S, 0)
BY DEF Rest, Put

\* And where a row that does not count is added.
LEMMA RestGrown ==
  ASSUME NEW f, Len(f) \in Nat, NEW S, NEW n, NEW g, NEW r, Grown(f, g, r), r.status \notin S
  PROVE  Rest(f, g, S, n)
<1>1. /\ Len(g) \in Nat /\ Len(g) >= Len(f)
      /\ \A k \in 1..Len(g) : k \in 1..Len(f) \/ k = Len(f) + 1
  BY DEF Grown
<1>2. g[Len(f) + 1] = r /\ \A k \in 1..Len(f) : g[k] = f[k]
  BY DEF Grown
<1>3. QED
  BY <1>1, <1>2 DEF Rest

\* The statuses of a bill that has an entry.
Open == {"POSTED", "PAID"}

\* But for bill n, the bills that have an entry are those that had one, for the same amount.
BillsRest(n) ==
    /\ Len(bills) \in Nat /\ Len(bills') \in Nat /\ Len(bills') >= Len(bills)
    /\ \A k \in 1..Len(bills') : k # n /\ bills'[k].status \in Open =>
          k \in 1..Len(bills) /\ bills[k].status \in Open /\ bills'[k].total = bills[k].total
    /\ \A k \in 1..Len(bills) : k # n /\ bills[k].status \in Open => bills'[k].status \in Open

\* That is so of bills that stay as they are.
LEMMA BillsRestSame ==
  ASSUME NEW n, Rest(bills, bills', Open, n)
  PROVE  BillsRest(n)
BY DEF Rest, BillsRest

\* And of bills that are given money, or from which it is taken back.
LEMMA BillsSettle ==
  ASSUME TypeInv, Len(bills') = Len(bills), NEW got,
         \A b \in 1..Len(bills) :
            /\ got[b] \in Int /\ Settles(b, got[b])
            /\ got[b] > 0 => bills[b].status \in Open
  PROVE  BillsRest(0)
<1>1. Len(bills) \in Nat
  BY TypedRows
<1>2. ASSUME NEW k \in 1..Len(bills)
      PROVE  /\ bills'[k].total = bills[k].total
             /\ bills'[k].status \in Open <=> bills[k].status \in Open
  BY DEF Settles, Open
<1>3. QED
  BY <1>1, <1>2 DEF BillsRest

\* Only document n of kind changes whether it stands, or what for.
Kept(kind, n) ==
    /\ Rest(receipts, receipts', {"POSTED"}, IF kind = "receipt" THEN n ELSE 0)
    /\ Rest(returns, returns', {"POSTED"}, IF kind = "return" THEN n ELSE 0)
    /\ BillsRest(IF kind = "bill" THEN n ELSE 0)
    /\ Rest(payments, payments', {"POSTED"}, IF kind = "payment" THEN n ELSE 0)

\* Then every other one stands as it did.
LEMMA OthersStand ==
  ASSUME TypeInv, NEW d, Moves(d), NEW kind, NEW n, Kept(kind, n)
  PROVE  /\ \A l, m : Stands(l, m) /\ ~(l = kind /\ m = n) => Stands(l, m)'
         /\ \A l, m, j, u : Worth(l, m, j, u)' => (l = kind /\ m = n) \/ Worth(l, m, j, u)
<1>1. ASSUME NEW l, NEW m, Stands(l, m), ~(l = kind /\ m = n) PROVE Stands(l, m)'
  <2>1. CASE l = "receipt"
    <3>1. m \in 1..Len(receipts) /\ receipts[m].status = "POSTED"
      BY <1>1, <2>1 DEF Stands
    <3>2. m \in 1..Len(receipts') /\ receipts'[m].status = "POSTED"
      BY <1>1, <2>1, <3>1 DEF Kept, Rest
    <3>3. QED
      BY <2>1, <3>2 DEF Stands
  <2>2. CASE l = "return"
    <3>1. m \in 1..Len(returns) /\ returns[m].status = "POSTED"
      BY <1>1, <2>2 DEF Stands
    <3>2. m \in 1..Len(returns') /\ returns'[m].status = "POSTED"
      BY <1>1, <2>2, <3>1 DEF Kept, Rest
    <3>3. QED
      BY <2>2, <3>2 DEF Stands
  <2>3. CASE l = "bill"
    <3>1. m \in 1..Len(bills) /\ bills[m].status \in Open
      BY <1>1, <2>3 DEF Stands, Open
    <3>2. m \in 1..Len(bills') /\ bills'[m].status \in Open
      BY <1>1, <2>3, <3>1 DEF Kept, BillsRest
    <3>3. QED
      BY <2>3, <3>2 DEF Stands, Open
  <2>4. CASE l = "payment"
    <3>1. m \in 1..Len(payments) /\ payments[m].status = "POSTED"
      BY <1>1, <2>4 DEF Stands
    <3>2. m \in 1..Len(payments') /\ payments'[m].status = "POSTED"
      BY <1>1, <2>4, <3>1 DEF Kept, Rest
    <3>3. QED
      BY <2>4, <3>2 DEF Stands
  <2>5. CASE l = "sale"
    <3>1. m \in 1..Len(movements) /\ Len(movements) \in Nat
      BY <1>1, <2>5, LedgerState DEF Stands, TypeInv
    <3>2. m \in 1..Len(movements')
      BY <3>1 DEF Moves
    <3>3. QED
      BY <2>5, <3>2 DEF Stands
  <2>6. QED
    BY <1>1, <2>1, <2>2, <2>3, <2>4, <2>5 DEF Stands
<1>2. ASSUME NEW l, NEW m, NEW j, NEW u, Worth(l, m, j, u)', ~(l = kind /\ m = n)
      PROVE  Worth(l, m, j, u)
  <2>1. CASE l = "receipt"
    <3>1. /\ m \in 1..Len(receipts') /\ receipts'[m].status = "POSTED"
          /\ j = receipts'[m].line.qty * receipts'[m].line.cost /\ u = 0
      BY <1>2, <2>1 DEF Worth
    <3>2. /\ m \in 1..Len(receipts) /\ receipts[m].status = "POSTED"
          /\ receipts'[m] = receipts[m]
      BY <1>2, <2>1, <3>1 DEF Kept, Rest
    <3>3. j = receipts[m].line.qty * receipts[m].line.cost
      BY <3>1, <3>2, Zenon
    <3>4. QED
      BY <2>1, <3>1, <3>2, <3>3 DEF Worth
  <2>2. CASE l = "bill"
    <3>1. /\ m \in 1..Len(bills') /\ bills'[m].status \in Open
          /\ j = 0 /\ u = bills'[m].total
      BY <1>2, <2>2 DEF Worth, Open
    <3>2. /\ m \in 1..Len(bills) /\ bills[m].status \in Open
          /\ bills'[m].total = bills[m].total
      BY <1>2, <2>2, <3>1 DEF Kept, BillsRest
    <3>3. QED
      BY <2>2, <3>1, <3>2 DEF Worth, Open
  <2>3. CASE l = "payment"
    <3>1. /\ m \in 1..Len(payments') /\ payments'[m].status = "POSTED"
          /\ j = 0 /\ u = -payments'[m].amount
      BY <1>2, <2>3 DEF Worth
    <3>2. /\ m \in 1..Len(payments) /\ payments[m].status = "POSTED"
          /\ payments'[m] = payments[m]
      BY <1>2, <2>3, <3>1 DEF Kept, Rest
    <3>3. QED
      BY <2>3, <3>1, <3>2 DEF Worth
  <2>4. QED
    BY <1>2, <2>1, <2>2, <2>3 DEF Worth
<1>3. QED
  BY <1>1, <1>2

\* The books stay in order, the payable account moves by v, and the worth of the goods in them
\* by what the stock comes to be worth more, as long as no slot is short.
Accounts(v) ==
    /\ KeysInv' /\ BookedInv'
    /\ SumOf(books', "payable") = SumOf(books, "payable") + v
    /\ Ledger!NeverShort' =>
          /\ Ledger!NeverShort
          /\ \E i \in Int : /\ SumOf(books', "worth") = SumOf(books, "worth") + i
                          /\ Ledger!Value(movements') = Ledger!Value(movements) + i

\* That is so when what is posted is what the rows are worth.
LEMMA AccountsMove ==
  ASSUME NEW i \in Int, NEW v, NEW d \in Int, Moves(d), Posts(i, v), Ledger!NeverShort => i = d
  PROVE  Accounts(v)
<1>1. ASSUME Ledger!NeverShort'
      PROVE  /\ Ledger!NeverShort
             /\ SumOf(books', "worth") = SumOf(books, "worth") + i
             /\ Ledger!Value(movements') = Ledger!Value(movements) + i
  BY <1>1 DEF Moves, Posts
<1>2. QED
  BY <1>1 DEF Accounts, Posts

\* A document that comes to stand books what it moves.
LEMMA DocumentBooked ==
  ASSUME TypeInv, KeysInv, BookedInv, policy.autoPosting, NEW kind, NEW n,
         NEW i \in Int, NEW v \in Int, NEW d \in Int, Moves(d), Ledger!NeverShort => i = d,
         NEW e, EntryOf(e, <<kind, n>>, i, v), Published(e), Kept(kind, n),
         ~Stands(kind, n), Stands(kind, n)',
         \A j, u : Worth(kind, n, j, u)' => j = i /\ u = v
  PROVE  Accounts(v)
<1>1. \A l, m : Stands(l, m) => Stands(l, m)'
  BY OthersStand
<1>2. ASSUME NEW l, NEW m, NEW j, NEW u, Worth(l, m, j, u)'
      PROVE  \/ l = kind /\ m = n /\ j = i /\ u = v
             \/ ~(l = kind /\ m = n) /\ Worth(l, m, j, u)
  <2>1. CASE l = kind /\ m = n
    BY <1>2, <2>1
  <2>2. CASE ~(l = kind /\ m = n)
    BY <1>2, <2>2, OthersStand
  <2>3. QED
    BY <2>1, <2>2
<1>3. Posts(i, v)
  BY <1>1, <1>2, EntryBooked
<1>4. QED
  BY <1>3, AccountsMove

\* Amounts that cancel out.
Opposite(i, d) == i \in Int /\ d \in Int /\ i + d = 0

\* One that no longer stands takes back what it booked.
LEMMA DocumentUnbooked ==
  ASSUME TypeInv, KeysInv, BookedInv, policy.autoPosting, NEW kind, NEW n,
         NEW i, NEW v, Worth(kind, n, i, v),
         NEW d, NEW w, Opposite(i, d), Opposite(v, w), Moves(d),
         Unpublished(<<kind, n>>), Kept(kind, n), \A j, u : ~Worth(kind, n, j, u)'
  PROVE  Accounts(w)
<1>1. \A l, m : Stands(l, m) /\ ~(l = kind /\ m = n) => Stands(l, m)'
  BY OthersStand
<1>2. \A l, m, j, u : Worth(l, m, j, u)' => ~(l = kind /\ m = n) /\ Worth(l, m, j, u)
  BY OthersStand
<1>3. Posts(d, w) /\ d \in Int
  <2>1. i \in Int /\ v \in Int /\ d \in Int /\ d = -i /\ w = -v
    BY SMT DEF Opposite
  <2>2. QED
    BY <1>1, <1>2, <2>1, Unbooked
<1>4. QED
  BY <1>3, AccountsMove

\* Where no document changes whether it stands and nothing moves, nothing is booked.
LEMMA NothingBooked ==
  ASSUME TypeInv, KeysInv, BookedInv, UNCHANGED books, Moves(0), Kept("none", 0)
  PROVE  Accounts(0)
<1>1. /\ \A l, m : Stands(l, m) /\ ~(l = "none" /\ m = 0) => Stands(l, m)'
      /\ \A l, m, j, u : Worth(l, m, j, u)' => (l = "none" /\ m = 0) \/ Worth(l, m, j, u)
  BY OthersStand
<1>2. \A m : ~Stands("none", m) /\ \A j, u : ~Worth("none", m, j, u)'
  BY DEF Stands, Worth
<1>3. Posts(0, 0)
  BY <1>1, <1>2, BooksStay
<1>4. QED
  BY <1>3, AccountsMove

\* Rows that stay.
LEMMA RowsRest ==
  ASSUME TypeInv
  PROVE  /\ UNCHANGED receipts => Rest(receipts, receipts', {"POSTED"}, 0)
         /\ UNCHANGED returns => Rest(returns, returns', {"POSTED"}, 0)
         /\ UNCHANGED bills => BillsRest(0)
         /\ UNCHANGED payments => Rest(payments, payments', {"POSTED"}, 0)
<1>1. /\ Len(receipts) \in Nat /\ Len(returns) \in Nat /\ Len(bills) \in Nat
      /\ Len(payments) \in Nat
  BY TypedRows
<1>2. UNCHANGED bills => Rest(bills, bills', Open, 0)
  BY <1>1, RestStays
<1>3. QED
  BY <1>1, <1>2, RestStays, BillsRestSame

-----------------------------------------------------------------------------
(* What every operation books, one by one                                  *)

\* Where no row that has an entry changes.
LEMMA StillBooks ==
  ASSUME TypeInv, KeysInv, BookedInv, UNCHANGED <<receipts, returns, bills, payments, books>>, Moves(0)
  PROVE  Accounts(0)
<1>1. Kept("none", 0)
  BY RowsRest DEF Kept
<1>2. QED
  BY <1>1, NothingBooked

\* A new receipt is a draft.
LEMMA CreateReceiptBooks ==
  ASSUME TypeInv, KeysInv, BookedInv, NEW line \in ReceiptPayloads, NEW p \in 0..Len(orders),
         NEW q \in 0..Len(orders), CreateReceipt(line, p, q)
  PROVE  Accounts(0)
<1> DEFINE r == [line |-> line, order |-> p, orderLine |-> q, receipt |-> 0, status |-> "DRAFT"]
<1>1. /\ Grown(receipts, receipts', r) /\ Moves(0)
      /\ UNCHANGED <<returns, bills, payments, books>>
  BY CreateReceiptEffect
<1>2. r.status \notin {"POSTED"} /\ Len(receipts) \in Nat
  BY TypedRows
<1> HIDE DEF r
<1>3. Rest(receipts, receipts', {"POSTED"}, 0)
  BY <1>1, <1>2, RestGrown
<1>4. Kept("none", 0)
  BY <1>1, <1>3, RowsRest DEF Kept
<1>5. QED
  BY <1>1, <1>4, NothingBooked

\* A posted one books what its goods cost.
LEMMA PostReceiptBooks ==
  ASSUME TypeInv, KeysInv, BookedInv, policy.autoPosting, NEW g \in 1..Len(receipts), PostReceipt(g)
  PROVE  Accounts(0)
<1> DEFINE o == receipts[g]
           i == o.line.qty * o.line.cost
           r == [line |-> o.line, order |-> o.order, orderLine |-> o.orderLine,
                 receipt |-> Len(movements) + 1, status |-> "POSTED"]
           e == GoodsEntry(<<"receipt", g>>, i, 1)
<1>1. /\ o.status = "DRAFT" /\ Put(receipts, receipts', g, r)
      /\ Published(e) /\ i \in Nat /\ Moves(i)
      /\ UNCHANGED <<returns, bills, payments>>
  BY PostReceiptEffect
<1>2. r.line = o.line /\ r.status = "POSTED" /\ Len(receipts) \in Nat
  BY TypedRows
<1> HIDE DEF r
<1>3. Kept("receipt", g)
  <2>1. Rest(receipts, receipts', {"POSTED"}, g)
    BY <1>1, <1>2, RestPut
  <2>2. QED
    BY <1>1, <2>1, RowsRest DEF Kept
<1>4. /\ g \in 1..Len(receipts') /\ receipts'[g] = r
  BY <1>1 DEF Put
<1>5. ~Stands("receipt", g) /\ Stands("receipt", g)'
  BY <1>1, <1>2, <1>4 DEF Stands
<1>6. \A j, u : Worth("receipt", g, j, u)' => j = i /\ u = 0
  BY <1>2, <1>4, Zenon DEF Worth
<1>7. EntryOf(e, <<"receipt", g>>, i, 0)
  <2> HIDE DEF i
  <2>1. EntryOf(e, <<"receipt", g>>, IF i > 0 THEN i ELSE 0, 0)
    BY <1>1, EntriesOf
  <2>2. (IF i > 0 THEN i ELSE 0) = i
    BY <1>1
  <2>3. QED
    BY <2>1, <2>2
<1> HIDE DEF i, e
<1>8. i \in Int
  BY <1>1
<1>9. QED
  BY <1>1, <1>3, <1>5, <1>6, <1>7, <1>8, DocumentBooked

\* A cancelled one takes that back.
LEMMA CancelReceiptBooks ==
  ASSUME TypeInv, KeysInv, BookedInv, policy.autoPosting, NEW g \in 1..Len(receipts), CancelReceipt(g)
  PROVE  Accounts(0)
<1> DEFINE o == receipts[g]
           i == o.line.qty * o.line.cost
           r == [o EXCEPT !.status = "CANCELLED"]
<1>1. /\ Put(receipts, receipts', g, r)
      /\ \/ o.status = "DRAFT" /\ Moves(0) /\ books' = books
         \/ o.status = "POSTED" /\ Moves(-i) /\ Unpublished(<<"receipt", g>>)
      /\ UNCHANGED <<returns, bills, payments>>
  BY CancelReceiptEffect
<1>2. r.status = "CANCELLED" /\ Len(receipts) \in Nat /\ i \in Int
  <2>1. o \in Receipt /\ o.line.qty \in Nat /\ o.line.cost \in Nat /\ Len(receipts) \in Nat
    BY RowFacts, TypedRows
  <2>2. r.status = "CANCELLED"
    BY <2>1 DEF Receipt
  <2>3. \A x, y \in Nat : x * y \in Int
    BY SMT
  <2>4. QED
    BY <2>1, <2>2, <2>3
<1> HIDE DEF r, i
<1>3. CASE o.status = "DRAFT"
  <2>1. Rest(receipts, receipts', {"POSTED"}, 0)
    BY <1>1, <1>2, <1>3, RestPut
  <2>2. Kept("none", 0)
    BY <1>1, <2>1, RowsRest DEF Kept
  <2>3. QED
    BY <1>1, <1>3, <2>2, NothingBooked
<1>4. CASE o.status = "POSTED"
  <2>1. Kept("receipt", g)
    <3>1. Rest(receipts, receipts', {"POSTED"}, g)
      BY <1>1, <1>2, RestPut
    <3>2. QED
      BY <1>1, <3>1, RowsRest DEF Kept
  <2>2. Worth("receipt", g, i, 0)
    BY <1>4 DEF Worth, i
  <2>3. receipts'[g].status = "CANCELLED"
    BY <1>1, <1>2 DEF Put
  <2>4. \A j, u : ~Worth("receipt", g, j, u)'
    BY <2>3 DEF Worth
  <2> DEFINE d == -i
  <2>5. Moves(d) /\ Unpublished(<<"receipt", g>>)
    BY <1>1, <1>2, <1>4
  <2>6. Opposite(i, d) /\ Opposite(0, 0)
    BY <1>2 DEF Opposite
  <2> HIDE DEF d
  <2>7. QED
    BY <1>2, <2>1, <2>2, <2>4, <2>5, <2>6, DocumentUnbooked
<1>5. QED
  BY <1>1, <1>3, <1>4

\* A new return is a draft.
LEMMA CreateReturnBooks ==
  ASSUME TypeInv, KeysInv, BookedInv, NEW g \in 1..Len(receipts), NEW q \in Quantities,
         CreateReturn(g, q)
  PROVE  Accounts(0)
<1> DEFINE r == returns'[Len(returns) + 1]
<1>1. /\ Len(returns') = Len(returns) + 1
      /\ \A m \in 1..Len(returns) : returns'[m] = returns[m]
      /\ r.status = "DRAFT" /\ Moves(0)
      /\ UNCHANGED <<receipts, bills, payments, books>>
  BY CreateReturnEffect
<1>2. Grown(returns, returns', r) /\ r.status \notin {"POSTED"} /\ Len(returns) \in Nat
  BY <1>1, TypedRows DEF Grown
<1> HIDE DEF r
<1>3. Rest(returns, returns', {"POSTED"}, 0)
  BY <1>2, RestGrown
<1>4. Kept("none", 0)
  BY <1>1, <1>3, RowsRest DEF Kept
<1>5. QED
  BY <1>1, <1>4, NothingBooked

\* What leaves at its average is booked at that, when it cost anything.
LEMMA LeavesBooked ==
  ASSUME TypeInv, KeysInv, BookedInv, policy.autoPosting, NEW kind \in {"return", "sale"}, NEW n,
         NEW c \in Int, Moves(-c), Ledger!NeverShort => c >= 0,
         Published(GoodsEntry(<<kind, n>>, c, -1)), Kept(kind, n),
         ~Stands(kind, n), Stands(kind, n)'
  PROVE  Accounts(0)
<1> DEFINE e == GoodsEntry(<<kind, n>>, c, -1)
           i == IF c > 0 THEN -c ELSE 0
<1>1. EntryOf(e, <<kind, n>>, i, 0) /\ Published(e)
  BY EntriesOf
<1>2. i \in Int /\ -c \in Int /\ (Ledger!NeverShort => i = -c)
  OBVIOUS
<1>3. \A j, u : ~Worth(kind, n, j, u)'
  BY DEF Worth
<1> HIDE DEF e, i
<1>4. QED
  BY <1>1, <1>2, <1>3, DocumentBooked

\* So a posted return does.
LEMMA PostReturnBooks ==
  ASSUME TypeInv, KeysInv, BookedInv, policy.autoPosting, NEW m \in 1..Len(returns), PostReturn(m)
  PROVE  Accounts(0)
<1> DEFINE c == returns[m].qty * balances[receipts[returns[m].receipt].line.slot].avg
           r == [returns[m] EXCEPT !.status = "POSTED"]
<1>1. /\ returns[m].status = "DRAFT" /\ Put(returns, returns', m, r)
      /\ Published(GoodsEntry(<<"return", m>>, c, -1))
      /\ c \in Int /\ (Ledger!NeverShort => c >= 0) /\ Moves(-c)
      /\ UNCHANGED <<receipts, bills, payments>>
  BY PostReturnEffect
<1> HIDE DEF c
<1>2. r.status = "POSTED" /\ Len(returns) \in Nat
  <2>1. returns[m] \in Return /\ Len(returns) \in Nat
    BY RowFacts, TypedRows
  <2>2. QED
    BY <2>1 DEF Return
<1> HIDE DEF r
<1>3. Kept("return", m)
  <2>1. Rest(returns, returns', {"POSTED"}, m)
    BY <1>1, <1>2, RestPut
  <2>2. QED
    BY <1>1, <2>1, RowsRest DEF Kept
<1>4. m \in 1..Len(returns') /\ returns'[m].status = "POSTED"
  BY <1>1, <1>2 DEF Put
<1>5. ~Stands("return", m) /\ Stands("return", m)'
  BY <1>1, <1>4 DEF Stands
<1>6. QED
  BY <1>1, <1>3, <1>5, LeavesBooked

\* And a sale.
LEMMA SellBooks ==
  ASSUME TypeInv, KeysInv, BookedInv, policy.autoPosting, NEW s \in Slots, NEW q \in Quantities,
         Sell(s, q)
  PROVE  Accounts(0)
<1> SUFFICES ASSUME NEW n, n = Len(movements) + 1 PROVE Accounts(0)
  OBVIOUS
<1> DEFINE c == q * balances[s].avg
<1>1. /\ Published(GoodsEntry(<<"sale", n>>, c, -1))
      /\ c \in Int /\ (Ledger!NeverShort => c >= 0) /\ Moves(-c)
      /\ Len(movements') = n
      /\ UNCHANGED <<receipts, returns, bills, payments>>
  BY SellEffect
<1> HIDE DEF c
<1>2. Len(movements) \in Nat
  BY LedgerState DEF TypeInv
<1>3. Kept("sale", n)
  BY <1>1, RowsRest DEF Kept
<1>4. ~Stands("sale", n) /\ Stands("sale", n)'
  BY <1>1, <1>2 DEF Stands
<1>5. QED
  BY <1>1, <1>3, <1>4, LeavesBooked

\* A new bill is a draft.
LEMMA CreateBillBooks ==
  ASSUME TypeInv, KeysInv, BookedInv, NEW payload \in BillPayloads, CreateBill(payload)
  PROVE  Accounts(0)
<1> DEFINE r == [total |-> payload.total, gates |-> payload.gates, paid |-> 0, due |-> 0,
                 status |-> "DRAFT"]
<1>1. /\ Grown(bills, bills', r) /\ Moves(0) /\ UNCHANGED <<receipts, returns, payments, books>>
  BY CreateBillEffect
<1>2. r.status \notin Open /\ Len(bills) \in Nat
  BY TypedRows DEF Open
<1> HIDE DEF r
<1>3. BillsRest(0)
  BY <1>1, <1>2, RestGrown, BillsRestSame
<1>4. Kept("none", 0)
  BY <1>1, <1>3, RowsRest DEF Kept
<1>5. QED
  BY <1>1, <1>4, NothingBooked

\* A posted one books its total.
LEMMA PostBillBooks ==
  ASSUME TypeInv, KeysInv, BookedInv, policy.autoPosting, NEW b \in 1..Len(bills),
         NEW due \in DueDates, PostBill(b, due)
  PROVE  Accounts(bills[b].total)
<1> DEFINE v == bills[b].total
           r == [total |-> bills[b].total, gates |-> bills[b].gates, paid |-> bills[b].paid,
                 due |-> due, status |-> "POSTED"]
           e == MoneyEntry(<<"bill", b>>, v)
<1>1. /\ bills[b].status = "DRAFT" /\ Put(bills, bills', b, r) /\ Published(e) /\ Moves(0)
      /\ UNCHANGED <<receipts, returns, payments>>
  BY PostBillEffect
<1>2. r.status = "POSTED" /\ r.total = v /\ Len(bills) \in Nat /\ v \in Int
  BY TypedRows, RowFacts
<1> HIDE DEF r
<1>3. Kept("bill", b)
  <2>1. BillsRest(b)
    BY <1>1, <1>2, RestPut, BillsRestSame
  <2>2. QED
    BY <1>1, <2>1, RowsRest DEF Kept
<1>4. b \in 1..Len(bills') /\ bills'[b] = r
  BY <1>1 DEF Put
<1>5. ~Stands("bill", b) /\ Stands("bill", b)'
  BY <1>1, <1>2, <1>4 DEF Stands
<1>6. \A j, u : Worth("bill", b, j, u)' => j = 0 /\ u = v
  BY <1>2, <1>4 DEF Worth
<1>7. EntryOf(e, <<"bill", b>>, 0, v)
  BY <1>2, EntriesOf
<1> HIDE DEF v, e
<1>8. Accounts(v)
  BY <1>1, <1>2, <1>3, <1>5, <1>6, <1>7, DocumentBooked
<1>9. QED
  BY <1>8 DEF v

\* A cancelled one takes that back, when it was posted.
LEMMA CancelBillBooks ==
  ASSUME TypeInv, KeysInv, BookedInv, policy.autoPosting, NEW b \in 1..Len(bills), CancelBill(b)
  PROVE  \/ bills[b].status = "DRAFT" /\ Accounts(0)
         \/ bills[b].status = "POSTED" /\ Accounts(-bills[b].total)
<1> DEFINE v == bills[b].total
           r == [bills[b] EXCEPT !.status = "CANCELLED"]
<1>1. /\ Put(bills, bills', b, r)
      /\ \/ bills[b].status = "DRAFT" /\ books' = books
         \/ bills[b].status = "POSTED" /\ Unpublished(<<"bill", b>>)
      /\ Moves(0) /\ UNCHANGED <<receipts, returns, payments>>
  BY CancelBillEffect
<1>2. r.status = "CANCELLED" /\ Len(bills) \in Nat /\ v \in Int
  <2>1. bills[b] \in Bill /\ Len(bills) \in Nat /\ v \in Int
    BY RowFacts, TypedRows
  <2>2. QED
    BY <2>1 DEF Bill
<1> HIDE DEF r
<1>3. CASE bills[b].status = "DRAFT"
  <2>1. BillsRest(0)
    <3>1. bills[b].status \notin Open /\ r.status \notin Open
      BY <1>2, <1>3 DEF Open
    <3>2. QED
      BY <1>1, <1>2, <3>1, RestPut, BillsRestSame
  <2>2. Kept("none", 0)
    BY <1>1, <2>1, RowsRest DEF Kept
  <2>3. QED
    BY <1>1, <1>3, <2>2, NothingBooked
<1>4. CASE bills[b].status = "POSTED"
  <2>1. Kept("bill", b)
    <3>1. BillsRest(b)
      BY <1>1, <1>2, RestPut, BillsRestSame
    <3>2. QED
      BY <1>1, <3>1, RowsRest DEF Kept
  <2>2. Worth("bill", b, 0, v)
    BY <1>4 DEF Worth
  <2>3. bills'[b].status = "CANCELLED"
    BY <1>1, <1>2 DEF Put
  <2>4. \A j, u : ~Worth("bill", b, j, u)'
    BY <2>3 DEF Worth
  <2> DEFINE w == -v
  <2>5. Moves(0) /\ Unpublished(<<"bill", b>>) /\ Opposite(v, w) /\ Opposite(0, 0)
    BY <1>1, <1>2, <1>4 DEF Opposite
  <2> HIDE DEF v, w
  <2>6. Accounts(w)
    BY <1>2, <2>1, <2>2, <2>4, <2>5, DocumentUnbooked
  <2>7. QED
    BY <1>4, <2>6 DEF w, v
<1>5. QED
  BY <1>1, <1>3, <1>4

\* A new payment is a draft.
LEMMA CreatePaymentBooks ==
  ASSUME TypeInv, KeysInv, BookedInv, NEW amount \in Amounts, NEW method \in {"AUTO", "MANUAL"},
         NEW lines \in {<<>>} \cup [1..Len(bills) -> Amounts \cup {0}],
         CreatePayment(amount, method, lines)
  PROVE  Accounts(0)
<1> DEFINE r == [amount |-> amount, method |-> method, lines |-> lines, status |-> "DRAFT"]
<1>1. /\ Grown(payments, payments', r) /\ Moves(0) /\ UNCHANGED <<receipts, returns, bills, books>>
  BY CreatePaymentEffect
<1>2. r.status \notin {"POSTED"} /\ Len(payments) \in Nat
  BY TypedRows
<1> HIDE DEF r
<1>3. Rest(payments, payments', {"POSTED"}, 0)
  BY <1>1, <1>2, RestGrown
<1>4. Kept("none", 0)
  BY <1>1, <1>3, RowsRest DEF Kept
<1>5. QED
  BY <1>1, <1>4, NothingBooked

\* A posted one books its whole amount.
LEMMA PostPaymentBooks ==
  ASSUME TypeInv, KeysInv, BookedInv, policy.autoPosting, NEW c \in 1..Len(payments), PostPayment(c)
  PROVE  Accounts(-payments[c].amount)
<1> DEFINE v == -payments[c].amount
           r == [amount |-> payments[c].amount, method |-> payments[c].method,
                 lines |-> PostedLines(c), status |-> "POSTED"]
           e == MoneyEntry(<<"payment", c>>, v)
           got == [b \in 1..Len(bills) |-> LineOf(PostedLines(c), b)]
<1>1. /\ payments[c].status = "DRAFT" /\ Put(payments, payments', c, r) /\ Published(e) /\ Moves(0)
      /\ Len(bills') = Len(bills) /\ \A b \in 1..Len(bills) : Settles(b, LineOf(PostedLines(c), b))
      /\ UNCHANGED <<receipts, returns>>
  BY PostPaymentEffect
<1>2. r.status = "POSTED" /\ v = -r.amount /\ Len(payments) \in Nat /\ v \in Int
  BY TypedRows, RowFacts
<1> HIDE DEF r
<1>3. \A b \in 1..Len(bills) :
         /\ got[b] \in Int /\ Settles(b, got[b])
         /\ got[b] > 0 => bills[b].status \in Open
  BY <1>1, PostedLinesTyped DEF Open
<1> HIDE DEF got
<1>4. Kept("payment", c)
  <2>1. Rest(payments, payments', {"POSTED"}, c)
    BY <1>1, <1>2, RestPut
  <2>2. BillsRest(0)
    BY <1>1, <1>3, BillsSettle
  <2>3. QED
    BY <1>1, <2>1, <2>2, RowsRest DEF Kept
<1>5. c \in 1..Len(payments') /\ payments'[c] = r
  BY <1>1 DEF Put
<1>6. ~Stands("payment", c) /\ Stands("payment", c)'
  BY <1>1, <1>2, <1>5 DEF Stands
<1>7. \A j, u : Worth("payment", c, j, u)' => j = 0 /\ u = v
  BY <1>2, <1>5 DEF Worth
<1>8. EntryOf(e, <<"payment", c>>, 0, v)
  BY <1>2, EntriesOf
<1> HIDE DEF v, e
<1>9. Accounts(v)
  BY <1>1, <1>2, <1>4, <1>6, <1>7, <1>8, DocumentBooked
<1>10. QED
  BY <1>9 DEF v

\* A cancelled one takes that back, when it was posted.
LEMMA CancelPaymentBooks ==
  ASSUME TypeInv, KeysInv, BookedInv, policy.autoPosting, NEW c \in 1..Len(payments), CancelPayment(c)
  PROVE  \/ payments[c].status = "DRAFT" /\ Accounts(0)
         \/ payments[c].status = "POSTED" /\ Accounts(payments[c].amount)
<1>1. payments[c] \in Payment /\ payments[c].amount \in Nat /\ Len(payments) \in Nat
  BY RowFacts, TypedRows
<1>2. CASE payments[c].status = "DRAFT"
  <2> DEFINE r == [payments[c] EXCEPT !.status = "VOID"]
  <2>1. /\ Put(payments, payments', c, r) /\ Moves(0)
        /\ UNCHANGED <<receipts, returns, bills, books>>
    BY <1>2, CancelPaymentEffect
  <2>2. r.status = "VOID"
    BY <1>1 DEF Payment
  <2> HIDE DEF r
  <2>3. Rest(payments, payments', {"POSTED"}, 0)
    BY <1>1, <1>2, <2>1, <2>2, RestPut
  <2>4. Kept("none", 0)
    BY <2>1, <2>3, RowsRest DEF Kept
  <2>5. QED
    BY <1>2, <2>1, <2>4, NothingBooked
<1>3. CASE payments[c].status = "POSTED"
  <2> DEFINE v == -payments[c].amount
             r == [payments[c] EXCEPT !.status = "CANCELLED"]
             got == [b \in 1..Len(bills) |-> -LineOf(payments[c].lines, b)]
  <2>1. /\ Put(payments, payments', c, r) /\ Moves(0) /\ Unpublished(<<"payment", c>>)
        /\ Len(bills') = Len(bills)
        /\ \A b \in 1..Len(bills) : Settles(b, -LineOf(payments[c].lines, b))
        /\ UNCHANGED <<receipts, returns>>
    BY <1>3, CancelPaymentEffect
  <2>2. r.status = "CANCELLED" /\ v \in Int /\ -v = payments[c].amount
    BY <1>1 DEF Payment
  <2> HIDE DEF r
  <2>3. ASSUME NEW b \in 1..Len(bills)
        PROVE  got[b] \in Int /\ Settles(b, got[b]) /\ ~(got[b] > 0)
    <3>1. b \in Nat \ {0}
      BY TypedRows
    <3>2. LineOf(payments[c].lines, b) \in Nat
      BY <3>1, RowFacts
    <3>3. QED
      BY <2>1, <3>2
  <2> HIDE DEF got
  <2>4. Kept("payment", c)
    <3>1. Rest(payments, payments', {"POSTED"}, c)
      BY <1>1, <2>1, <2>2, RestPut
    <3>2. BillsRest(0)
      BY <2>1, <2>3, BillsSettle
    <3>3. QED
      BY <2>1, <3>1, <3>2, RowsRest DEF Kept
  <2>5. Worth("payment", c, 0, v)
    BY <1>3 DEF Worth
  <2>6. payments'[c].status = "CANCELLED"
    BY <2>1, <2>2 DEF Put
  <2>7. \A j, u : ~Worth("payment", c, j, u)'
    BY <2>6 DEF Worth
  <2> HIDE DEF v
  <2> DEFINE w == payments[c].amount
  <2>8. Opposite(v, w) /\ Opposite(0, 0)
    BY <1>1, <2>2 DEF Opposite
  <2> HIDE DEF w
  <2>9. Accounts(w)
    BY <2>1, <2>2, <2>4, <2>5, <2>7, <2>8, DocumentUnbooked
  <2>10. QED
    BY <1>3, <2>9 DEF w
<1>4. QED
  BY <1>2, <1>3, CancelPaymentEffect

-----------------------------------------------------------------------------
(* What the documents make of the payable account                          *)

\* What is still owed for bill b, and the money of payment c that no bill shows.
Claim(b) == (IF bills[b].status \in Open THEN bills[b].total ELSE 0) - bills[b].paid
Spare(c) == IF payments[c].status = "POSTED" THEN payments[c].amount - LineSum(payments[c].lines) ELSE 0

\* The same, by bill and by payment.
Claims == [b \in 1..Len(bills) |-> Claim(b)]
Spares == [c \in 1..Len(payments) |-> Spare(c)]

\* Their totals.
Claimed == Total(Claims, Len(bills))
Unapplied == Total(Spares, Len(payments))

\* The documents' account.
Net == Claimed - Unapplied

\* Its parts are integers.
LEMMA NetTyped ==
  ASSUME TypeInv
  PROVE  /\ Len(bills) \in Nat /\ Len(payments) \in Nat
         /\ \A b \in 1..Len(bills) : Claim(b) \in Int
         /\ \A c \in 1..Len(payments) : Spare(c) \in Int /\ LineSum(payments[c].lines) \in Int
         /\ Claims \in [1..Len(bills) -> Int] /\ Spares \in [1..Len(payments) -> Int]
         /\ Claimed \in Int /\ Unapplied \in Int /\ Net \in Int
<1>1. Len(bills) \in Nat /\ Len(payments) \in Nat
  BY TypedRows
<1>2. \A b \in 1..Len(bills) : Claim(b) \in Int
  BY RowFacts DEF Claim
<1>3. ASSUME NEW c \in 1..Len(payments)
      PROVE  Spare(c) \in Int /\ LineSum(payments[c].lines) \in Int
  <2>1. payments[c].lines \in Seq(Nat) /\ payments[c].amount \in Int
    BY RowFacts
  <2> DEFINE ls == payments[c].lines
             N == Len(ls)
  <2>2. N \in Nat /\ ls \in [1..N -> Int]
    BY <2>1
  <2> HIDE DEF ls, N
  <2>3. Total(ls, N) \in Int
    BY <2>2, TotalType
  <2>4. LineSum(payments[c].lines) \in Int
    BY <2>3 DEF LineSum, ls, N
  <2>5. QED
    BY <2>1, <2>4 DEF Spare
<1>4. Claims \in [1..Len(bills) -> Int] /\ Spares \in [1..Len(payments) -> Int]
  BY <1>2, <1>3 DEF Claims, Spares
<1>5. Claimed \in Int /\ Unapplied \in Int
  BY <1>1, <1>4, TotalType DEF Claimed, Unapplied
<1>6. QED
  BY <1>1, <1>2, <1>3, <1>4, <1>5 DEF Net

\* Bills, and payments, that stay leave their part as it is.
LEMMA NetStays ==
  /\ UNCHANGED bills => Claimed' = Claimed
  /\ UNCHANGED payments => Unapplied' = Unapplied
<1>1. ASSUME UNCHANGED bills PROVE Claimed' = Claimed
  BY <1>1 DEF Claimed, Claims, Claim
<1>2. ASSUME UNCHANGED payments PROVE Unapplied' = Unapplied
  BY <1>2 DEF Unapplied, Spares, Spare, LineSum
<1>3. QED
  BY <1>1, <1>2

\* A bill that is owed d more adds d to what is owed.
LEMMA ClaimedMoves ==
  ASSUME TypeInv, NEW b \in 1..Len(bills), Len(bills') = Len(bills), NEW d \in Int,
         Claim(b)' = Claim(b) + d,
         \A k \in 1..Len(bills) : k # b => bills'[k] = bills[k]
  PROVE  Claimed' = Claimed + d
<1> DEFINE N == Len(bills)
           f == Claims
           g == Claims'
<1>1. N \in Nat /\ f \in [1..N -> Int] /\ b \in 1..N
  BY NetTyped
<1>2. g = [k \in 1..N |-> g[k]] /\ g[b] = f[b] + d
  BY DEF Claims
<1>3. \A k \in 1..N : k # b => g[k] = f[k]
  BY DEF Claims, Claim
<1>4. Claimed' = Total(g, N) /\ Claimed = Total(f, N)
  BY DEF Claimed
<1> HIDE DEF f, g, N
<1>5. QED
  BY <1>1, <1>2, <1>3, <1>4, TotalMoves

\* A payment that holds d more adds d to the money no bill shows.
LEMMA UnappliedMoves ==
  ASSUME TypeInv, NEW c \in 1..Len(payments), Len(payments') = Len(payments), NEW d \in Int,
         Spare(c)' = Spare(c) + d,
         \A k \in 1..Len(payments) : k # c => payments'[k] = payments[k]
  PROVE  Unapplied' = Unapplied + d
<1> DEFINE N == Len(payments)
           f == Spares
           g == Spares'
<1>1. N \in Nat /\ f \in [1..N -> Int] /\ c \in 1..N
  BY NetTyped
<1>2. g = [k \in 1..N |-> g[k]] /\ g[c] = f[c] + d
  BY DEF Spares
<1>3. \A k \in 1..N : k # c => g[k] = f[k]
  BY DEF Spares, Spare, LineSum
<1>4. Unapplied' = Total(g, N) /\ Unapplied = Total(f, N)
  BY DEF Unapplied
<1> HIDE DEF f, g, N
<1>5. QED
  BY <1>1, <1>2, <1>3, <1>4, TotalMoves

\* A draft adds nothing.
LEMMA ClaimedPads ==
  ASSUME TypeInv, NEW r, Grown(bills, bills', r), r.status = "DRAFT", r.paid = 0
  PROVE  Claimed' = Claimed
<1> SUFFICES ASSUME NEW N, N = Len(bills) PROVE Claimed' = Claimed
  OBVIOUS
<1> DEFINE f == Claims
           g == Claims'
<1>1. N \in Nat /\ f \in [1..N -> Int]
  BY NetTyped
<1>2. Len(bills') = N + 1 /\ bills'[N + 1] = r /\ \A k \in 1..N : bills'[k] = bills[k]
  BY DEF Grown
<1>3. g = [k \in 1..(N+1) |-> g[k]] /\ \A k \in 1..N : g[k] = f[k]
  BY <1>1, <1>2 DEF Claims, Claim
<1>4. g[N+1] = 0
  <2>1. N+1 \in 1..(N+1)
    BY <1>1
  <2>2. QED
    BY <1>2, <2>1 DEF Claims, Claim, Open
<1>5. Claimed' = Total(g, N+1) /\ Claimed = Total(f, N)
  BY <1>2 DEF Claimed
<1> HIDE DEF f, g
<1>6. QED
  BY <1>1, <1>3, <1>4, <1>5, TotalPadOne

\* Nor does a draft payment.
LEMMA UnappliedPads ==
  ASSUME TypeInv, NEW r, Grown(payments, payments', r), r.status = "DRAFT"
  PROVE  Unapplied' = Unapplied
<1> SUFFICES ASSUME NEW N, N = Len(payments) PROVE Unapplied' = Unapplied
  OBVIOUS
<1> DEFINE f == Spares
           g == Spares'
<1>1. N \in Nat /\ f \in [1..N -> Int]
  BY NetTyped
<1>2. Len(payments') = N + 1 /\ payments'[N + 1] = r /\ \A k \in 1..N : payments'[k] = payments[k]
  BY DEF Grown
<1>3. g = [k \in 1..(N+1) |-> g[k]] /\ \A k \in 1..N : g[k] = f[k]
  BY <1>1, <1>2 DEF Spares, Spare, LineSum
<1>4. g[N+1] = 0
  <2>1. N+1 \in 1..(N+1)
    BY <1>1
  <2>2. QED
    BY <1>2, <2>1 DEF Spares, Spare
<1>5. Unapplied' = Total(g, N+1) /\ Unapplied = Total(f, N)
  BY <1>2 DEF Unapplied
<1> HIDE DEF f, g
<1>6. QED
  BY <1>1, <1>3, <1>4, <1>5, TotalPadOne

\* What a bill is given is taken off what is owed for it.
LEMMA ClaimSettles ==
  ASSUME TypeInv, NEW b \in 1..Len(bills), NEW got \in Int, Settles(b, got),
         got > 0 => bills[b].status \in Open
  PROVE  Claim(b)' = Claim(b) - got
<1>1. bills'[b].status \in Open <=> bills[b].status \in Open
  BY DEF Settles, Open
<1>2. bills'[b].total = bills[b].total /\ bills'[b].paid = bills[b].paid + got
  BY DEF Settles
<1>3. bills[b].total \in Int /\ bills[b].paid \in Int
  BY RowFacts
<1>4. Claim(b)' = (IF bills[b].status \in Open THEN bills[b].total ELSE 0) - (bills[b].paid + got)
  BY <1>1, <1>2 DEF Claim
<1>5. QED
  BY <1>3, <1>4 DEF Claim

\* What is taken off for every bill is taken off the total.
LEMMA ClaimedFalls ==
  ASSUME TypeInv, Len(bills') = Len(bills), NEW got, got \in [1..Len(bills) -> Int],
         \A b \in 1..Len(bills) : Claim(b)' = Claim(b) - got[b]
  PROVE  Claimed' = Claimed - Total(got, Len(bills))
<1> DEFINE N == Len(bills)
           f == Claims
           g == Claims'
<1>1. N \in Nat /\ f \in [1..N -> Int] /\ got \in [1..N -> Int]
  BY NetTyped
<1>2. g = [k \in 1..N |-> g[k]] /\ \A k \in 1..N : g[k] = f[k] - got[k]
  BY DEF Claims
<1>3. Claimed' = Total(g, N) /\ Claimed = Total(f, N)
  BY DEF Claimed
<1> HIDE DEF f, g, N
<1>4. \A k \in 1..N : g[k] \in Int /\ f[k] = g[k] + got[k]
  <2> SUFFICES ASSUME NEW k \in 1..N PROVE g[k] \in Int /\ f[k] = g[k] + got[k]
    OBVIOUS
  <2>1. f[k] \in Int /\ got[k] \in Int /\ g[k] = f[k] - got[k]
    BY <1>1, <1>2
  <2>2. QED
    BY <2>1
<1>5. g \in [1..N -> Int]
  BY <1>2, <1>4, Zenon
<1>6. Total(f, N) = Total(g, N) + Total(got, N)
  BY ONLY <1>1, <1>4, <1>5, TotalAdd
<1>7. Total(f, N) \in Int /\ Total(g, N) \in Int /\ Total(got, N) \in Int
  BY <1>1, <1>5, TotalType
<1>8. Claimed' = Claimed - Total(got, N)
  BY <1>3, <1>6, <1>7
<1>9. QED
  BY <1>8 DEF N

\* Where every bill is given its line, what is owed falls by their sum.
LEMMA LinesSettled ==
  ASSUME TypeInv, Len(bills') = Len(bills), NEW lines \in Seq(Nat), Len(lines) <= Len(bills),
         NEW w \in {-1, 1},
         \A b \in 1..Len(bills) :
            /\ LineOf(lines, b) \in Nat
            /\ w = 1 => Settles(b, LineOf(lines, b))
            /\ w = -1 => Settles(b, -LineOf(lines, b))
            /\ w = 1 /\ LineOf(lines, b) # 0 => bills[b].status \in Open
  PROVE  /\ w = 1 => Claimed' = Claimed - LineSum(lines)
         /\ w = -1 => Claimed' = Claimed + LineSum(lines)
         /\ LineSum(lines) \in Int
<1> DEFINE N == Len(bills)
           got == [b \in 1..N |-> LineOf(lines, b)]
           back == [b \in 1..N |-> -LineOf(lines, b)]
           s == LineSum(lines)
<1>1. N \in Nat /\ Claimed \in Int
  BY NetTyped
<1>2. got \in [1..N -> Int] /\ Total(got, N) = s
  <2> HIDE DEF N
  <2>1. QED
    BY <1>1, LinesSum DEF LineSum, N
<1>3. back \in [1..N -> Int] /\ \A b \in 1..N : back[b] = -got[b]
  OBVIOUS
<1>4. \A b \in 1..N : LineOf(lines, b) \in Int /\ -LineOf(lines, b) \in Int /\ ~(-LineOf(lines, b) > 0)
  OBVIOUS
<1>5. ASSUME w = 1 PROVE \A b \in 1..N : Claim(b)' = Claim(b) - got[b]
  <2> SUFFICES ASSUME NEW b \in 1..N PROVE Claim(b)' = Claim(b) - LineOf(lines, b)
    OBVIOUS
  <2>1. Settles(b, LineOf(lines, b)) /\ (LineOf(lines, b) > 0 => bills[b].status \in Open)
    BY <1>4, <1>5
  <2>2. QED
    BY <1>4, <2>1, ClaimSettles
<1>6. ASSUME w = -1 PROVE \A b \in 1..N : Claim(b)' = Claim(b) - back[b]
  <2> SUFFICES ASSUME NEW b \in 1..N PROVE Claim(b)' = Claim(b) - (-LineOf(lines, b))
    OBVIOUS
  <2>1. Settles(b, -LineOf(lines, b)) /\ (-LineOf(lines, b) > 0 => bills[b].status \in Open)
    BY <1>4, <1>6
  <2>2. QED
    BY <1>4, <2>1, ClaimSettles
<1> HIDE DEF got, back, s
<1>7. w = 1 => Claimed' = Claimed - s
  BY <1>2, <1>5, ClaimedFalls
<1>8. s \in Int /\ Total(back, N) = -s
  <2> HIDE DEF N
  <2>1. QED
    BY <1>1, <1>2, <1>3, TotalType, TotalNegate
<1>9. w = -1 => Claimed' = Claimed + s
  <2>1. w = -1 => Claimed' = Claimed - Total(back, N)
    BY <1>3, <1>6, ClaimedFalls
  <2>2. QED
    BY <1>1, <1>8, <2>1
<1>10. QED
  BY <1>7, <1>8, <1>9 DEF s

-----------------------------------------------------------------------------
(* The accounts and the documents                                          *)

\* Where bills and payments stay, so does what they make of the account.
LEMMA StillNet ==
  ASSUME TypeInv, UNCHANGED <<bills, payments>>
  PROVE  Net' = Net + 0
<1>1. Claimed' = Claimed /\ Unapplied' = Unapplied
  BY NetStays
<1>2. QED
  BY <1>1, NetTyped DEF Net

\* A new bill is owed nothing yet.
LEMMA CreateBillNet ==
  ASSUME TypeInv, NEW payload \in BillPayloads, CreateBill(payload)
  PROVE  Net' = Net + 0
<1> DEFINE r == [total |-> payload.total, gates |-> payload.gates, paid |-> 0, due |-> 0,
                 status |-> "DRAFT"]
<1>1. Grown(bills, bills', r) /\ UNCHANGED payments
  BY CreateBillEffect
<1>2. r.status = "DRAFT" /\ r.paid = 0
  OBVIOUS
<1> HIDE DEF r
<1>3. Claimed' = Claimed /\ Unapplied' = Unapplied
  BY <1>1, <1>2, ClaimedPads, NetStays
<1>4. QED
  BY <1>3, NetTyped DEF Net

\* A posted one is owed its total.
LEMMA PostBillNet ==
  ASSUME TypeInv, NEW b \in 1..Len(bills), NEW due \in DueDates, PostBill(b, due)
  PROVE  Net' = Net + bills[b].total
<1> DEFINE v == bills[b].total
           r == [total |-> bills[b].total, gates |-> bills[b].gates, paid |-> bills[b].paid,
                 due |-> due, status |-> "POSTED"]
<1>1. bills[b].status = "DRAFT" /\ Put(bills, bills', b, r) /\ UNCHANGED payments
  BY PostBillEffect
<1>2. r.status = "POSTED" /\ r.total = v /\ r.paid = bills[b].paid
  OBVIOUS
<1>3. v \in Int /\ bills[b].paid \in Int
  BY RowFacts
<1> HIDE DEF r
<1>4. /\ Len(bills') = Len(bills) /\ bills'[b] = r
      /\ \A k \in 1..Len(bills) : k # b => bills'[k] = bills[k]
  BY <1>1 DEF Put
<1>5. Claim(b)' = v - bills[b].paid /\ Claim(b) = 0 - bills[b].paid
  BY <1>1, <1>2, <1>4 DEF Claim, Open
<1> HIDE DEF v
<1>6. Claim(b)' = Claim(b) + v
  BY <1>3, <1>5
<1>7. Claimed' = Claimed + v /\ Unapplied' = Unapplied
  BY <1>1, <1>3, <1>4, <1>6, ClaimedMoves, NetStays
<1>8. Net' = Net + v
  BY <1>3, <1>7, NetTyped DEF Net
<1>9. QED
  BY <1>8 DEF v

\* A cancelled one no longer is.
LEMMA CancelBillNet ==
  ASSUME TypeInv, NEW b \in 1..Len(bills), CancelBill(b)
  PROVE  /\ bills[b].status = "DRAFT" => Net' = Net + 0
         /\ bills[b].status = "POSTED" => Net' = Net + (-bills[b].total)
<1> DEFINE v == bills[b].total
           r == [bills[b] EXCEPT !.status = "CANCELLED"]
<1>1. Put(bills, bills', b, r) /\ UNCHANGED payments
  BY CancelBillEffect
<1>2. r.status = "CANCELLED" /\ r.paid = bills[b].paid /\ v \in Int /\ bills[b].paid \in Int
  <2>1. bills[b] \in Bill /\ v \in Int /\ bills[b].paid \in Int
    BY RowFacts
  <2>2. QED
    BY <2>1 DEF Bill
<1> HIDE DEF r
<1>3. /\ Len(bills') = Len(bills) /\ bills'[b] = r
      /\ \A k \in 1..Len(bills) : k # b => bills'[k] = bills[k]
  BY <1>1 DEF Put
<1>4. /\ Claim(b)' = 0 - bills[b].paid
      /\ bills[b].status = "DRAFT" => Claim(b) = 0 - bills[b].paid
      /\ bills[b].status = "POSTED" => Claim(b) = v - bills[b].paid
  BY <1>2, <1>3 DEF Claim, Open
<1> HIDE DEF v
<1>5. /\ bills[b].status = "DRAFT" => Claim(b)' = Claim(b) + 0
      /\ bills[b].status = "POSTED" => Claim(b)' = Claim(b) + (-v)
      /\ -v \in Int
  BY <1>2, <1>4
<1>6. /\ bills[b].status = "DRAFT" => Claimed' = Claimed + 0
      /\ bills[b].status = "POSTED" => Claimed' = Claimed + (-v)
      /\ Unapplied' = Unapplied
  BY <1>1, <1>3, <1>5, ClaimedMoves, NetStays
<1>7. /\ bills[b].status = "DRAFT" => Net' = Net + 0
      /\ bills[b].status = "POSTED" => Net' = Net + (-v)
  BY <1>2, <1>6, NetTyped DEF Net
<1>8. QED
  BY <1>7 DEF v

\* A new payment pays nothing.
LEMMA CreatePaymentNet ==
  ASSUME TypeInv, NEW amount \in Amounts, NEW method \in {"AUTO", "MANUAL"},
         NEW lines \in {<<>>} \cup [1..Len(bills) -> Amounts \cup {0}],
         CreatePayment(amount, method, lines)
  PROVE  Net' = Net + 0
<1> DEFINE r == [amount |-> amount, method |-> method, lines |-> lines, status |-> "DRAFT"]
<1>1. Grown(payments, payments', r) /\ UNCHANGED bills
  BY CreatePaymentEffect
<1>2. r.status = "DRAFT"
  OBVIOUS
<1> HIDE DEF r
<1>3. Claimed' = Claimed /\ Unapplied' = Unapplied
  BY <1>1, <1>2, UnappliedPads, NetStays
<1>4. QED
  BY <1>3, NetTyped DEF Net

\* A posted one pays its amount, whether bills show it or not.
LEMMA PostPaymentNet ==
  ASSUME TypeInv, NEW c \in 1..Len(payments), PostPayment(c)
  PROVE  Net' = Net + (-payments[c].amount)
<1> DEFINE a == payments[c].amount
           lines == PostedLines(c)
           s == LineSum(lines)
           r == [amount |-> payments[c].amount, method |-> payments[c].method,
                 lines |-> PostedLines(c), status |-> "POSTED"]
<1>1. /\ payments[c].status = "DRAFT" /\ Put(payments, payments', c, r)
      /\ Len(bills') = Len(bills) /\ \A b \in 1..Len(bills) : Settles(b, LineOf(lines, b))
  BY PostPaymentEffect
<1>2. r.status = "POSTED" /\ r.lines = lines /\ r.amount = a
  OBVIOUS
<1> HIDE DEF r
<1>3. /\ Len(payments') = Len(payments) /\ payments'[c] = r
      /\ \A k \in 1..Len(payments) : k # c => payments'[k] = payments[k]
  BY <1>1 DEF Put
<1>4. /\ lines \in Seq(Nat) /\ Len(lines) <= Len(bills)
      /\ \A b \in 1..Len(bills) :
            LineOf(lines, b) \in Nat /\ (LineOf(lines, b) # 0 => bills[b].status \in Open)
  BY PostedLinesTyped DEF Open
<1> HIDE DEF lines
<1>5. Claimed' = Claimed - s /\ s \in Int
  <2>1. 1 \in {-1, 1} /\ 1 # -1
    BY SMT
  <2>2. \A b \in 1..Len(bills) :
            /\ LineOf(lines, b) \in Nat
            /\ 1 = 1 => Settles(b, LineOf(lines, b))
            /\ 1 = -1 => Settles(b, -LineOf(lines, b))
            /\ 1 = 1 /\ LineOf(lines, b) # 0 => bills[b].status \in Open
    BY <1>1, <1>4, <2>1
  <2>3. QED
    BY <1>1, <1>4, <2>1, <2>2, LinesSettled
<1>6. Spare(c)' = a - s /\ Spare(c) = 0
  BY <1>1, <1>2, <1>3 DEF Spare, LineSum
<1>7. a \in Int
  BY RowFacts
<1> HIDE DEF s, a
<1>8. Unapplied' = Unapplied + (a - s)
  <2>1. a - s \in Int /\ Spare(c)' = Spare(c) + (a - s)
    BY <1>5, <1>6, <1>7
  <2>2. QED
    BY <1>3, <2>1, UnappliedMoves
<1>9. Net' = Net + (-a)
  BY <1>5, <1>7, <1>8, NetTyped DEF Net
<1>10. QED
  BY <1>9 DEF a

\* A cancelled one no longer does.
LEMMA CancelPaymentNet ==
  ASSUME TypeInv, NEW c \in 1..Len(payments), CancelPayment(c)
  PROVE  /\ payments[c].status = "DRAFT" => Net' = Net + 0
         /\ payments[c].status = "POSTED" => Net' = Net + payments[c].amount
<1> DEFINE a == payments[c].amount
           lines == payments[c].lines
           s == LineSum(lines)
<1>1. payments[c] \in Payment /\ a \in Int /\ lines \in Seq(Nat) /\ Len(lines) <= Len(bills)
  BY RowFacts, TypedRows
<1>2. ASSUME payments[c].status = "DRAFT" PROVE Net' = Net + 0
  <2> DEFINE r == [payments[c] EXCEPT !.status = "VOID"]
  <2>1. Put(payments, payments', c, r) /\ UNCHANGED bills
    BY <1>2, CancelPaymentEffect
  <2>2. r.status = "VOID"
    BY <1>1 DEF Payment
  <2> HIDE DEF r
  <2>3. /\ Len(payments') = Len(payments) /\ payments'[c] = r
        /\ \A k \in 1..Len(payments) : k # c => payments'[k] = payments[k]
    BY <2>1 DEF Put
  <2>4. Spare(c)' = 0 /\ Spare(c) = 0
    BY <1>2, <2>2, <2>3 DEF Spare
  <2>5. Unapplied' = Unapplied + 0 /\ Claimed' = Claimed
    BY <2>1, <2>3, <2>4, UnappliedMoves, NetStays
  <2>6. QED
    BY <2>5, NetTyped DEF Net
<1>3. ASSUME payments[c].status = "POSTED" PROVE Net' = Net + a
  <2> DEFINE r == [payments[c] EXCEPT !.status = "CANCELLED"]
  <2>1. /\ Put(payments, payments', c, r)
        /\ Len(bills') = Len(bills) /\ \A b \in 1..Len(bills) : Settles(b, -LineOf(lines, b))
    BY <1>3, CancelPaymentEffect
  <2>2. r.status = "CANCELLED"
    BY <1>1 DEF Payment
  <2> HIDE DEF r
  <2>3. /\ Len(payments') = Len(payments) /\ payments'[c] = r
        /\ \A k \in 1..Len(payments) : k # c => payments'[k] = payments[k]
    BY <2>1 DEF Put
  <2>4. Spare(c)' = 0 /\ Spare(c) = a - s
    BY <1>3, <2>2, <2>3 DEF Spare
  <2>5. \A b \in 1..Len(bills) : LineOf(lines, b) \in Nat
    <3> SUFFICES ASSUME NEW b \in 1..Len(bills) PROVE LineOf(lines, b) \in Nat
      OBVIOUS
    <3>1. b \in Nat \ {0}
      BY TypedRows
    <3>2. QED
      BY <3>1, RowFacts
  <2> HIDE DEF lines
  <2>6. Claimed' = Claimed + s /\ s \in Int
    <3>1. -1 \in {-1, 1} /\ -1 # 1
      BY SMT
    <3>2. \A b \in 1..Len(bills) :
              /\ LineOf(lines, b) \in Nat
              /\ -1 = 1 => Settles(b, LineOf(lines, b))
              /\ -1 = -1 => Settles(b, -LineOf(lines, b))
              /\ -1 = 1 /\ LineOf(lines, b) # 0 => bills[b].status \in Open
      BY <2>1, <2>5, <3>1
    <3>3. QED
      BY <1>1, <2>1, <3>1, <3>2, LinesSettled
  <2> HIDE DEF s, a
  <2>7. Unapplied' = Unapplied + (s - a)
    <3>1. s - a \in Int /\ Spare(c)' = Spare(c) + (s - a)
      BY <1>1, <2>4, <2>6
    <3>2. QED
      BY <2>3, <3>1, UnappliedMoves
  <2>8. Claimed \in Int /\ Unapplied \in Int
    BY NetTyped
  <2>9. QED
    BY <1>1, <2>6, <2>7, <2>8 DEF Net
<1>4. QED
  BY <1>2, <1>3

\* With auto-posting the books are in order, the goods in them are worth what the ledger is
\* as long as no slot was short, and the payable account is what the documents make of it.
InventoryFine ==
    Ledger!NeverShort => SumOf(books, "worth") = Ledger!Value(movements)

BooksInv ==
    policy.autoPosting =>
        KeysInv /\ BookedInv /\ InventoryFine /\ SumOf(books, "payable") = Net

\* The settings stay.
LEMMA PolicyStays ==
  ASSUME [Next]_vars
  PROVE  policy' = policy
BY DEF Next, vars, CreateOrder, ApproveOrder, CancelOrder, CreateReceipt, PostReceipt,
       CancelReceipt, CreateReturn, PostReturn, CreateBill, PostBill, CancelBill,
       CreatePayment, PostPayment, CancelPayment, Approve, Sell

\* Every step books what it moves, and what it changes of the documents' account.
LEMMA StepBooks ==
  ASSUME TypeInv, BooksInv, [Next]_vars
  PROVE  BooksInv'
<1> DEFINE Done == \E v : Accounts(v) /\ Net' = Net + v
<1>1. SUFFICES ASSUME policy.autoPosting
               PROVE  /\ KeysInv' /\ BookedInv' /\ InventoryFine'
                      /\ SumOf(books', "payable") = Net'
  BY PolicyStays DEF BooksInv
<1>2. KeysInv /\ BookedInv /\ InventoryFine /\ SumOf(books, "payable") = Net
  BY <1>1 DEF BooksInv
<1>3. ASSUME Done
      PROVE  /\ KeysInv' /\ BookedInv' /\ InventoryFine'
             /\ SumOf(books', "payable") = Net'
  BY <1>2, <1>3 DEF Accounts, InventoryFine
<1>4. ASSUME UNCHANGED <<receipts, returns, bills, payments, books>>, Moves(0) PROVE Done
  BY <1>2, <1>4, StillBooks, StillNet
<1>5. CASE UNCHANGED vars
  <2>1. UNCHANGED <<receipts, returns, bills, payments, books>> /\ UNCHANGED stock
    BY <1>5 DEF vars, stock
  <2>2. Moves(0)
    BY <2>1, StockStays DEF TypeInv
  <2>3. QED
    BY <1>3, <1>4, <2>1, <2>2
<1>6. CASE Next
  <2>1. ASSUME NEW line \in OrderPayloads, CreateOrder(line) PROVE Done
    BY <1>4, <2>1, CreateOrderEffect
  <2>2. ASSUME NEW p \in 1..Len(orders), ApproveOrder(p) PROVE Done
    BY <1>4, <2>2, ApproveOrderEffect
  <2>3. ASSUME NEW p \in 1..Len(orders), CancelOrder(p) PROVE Done
    BY <1>4, <2>3, CancelOrderEffect
  <2>4. ASSUME NEW line \in ReceiptPayloads, NEW p \in 0..Len(orders), NEW q \in 0..Len(orders),
               CreateReceipt(line, p, q)
        PROVE  Done
    <3>1. UNCHANGED <<bills, payments>>
      BY <2>4, CreateReceiptEffect
    <3>2. QED
      BY <1>2, <2>4, <3>1, CreateReceiptBooks, StillNet
  <2>5. ASSUME NEW g \in 1..Len(receipts), PostReceipt(g) PROVE Done
    <3>1. UNCHANGED <<bills, payments>>
      BY <2>5, PostReceiptEffect
    <3>2. QED
      BY <1>1, <1>2, <2>5, <3>1, PostReceiptBooks, StillNet
  <2>6. ASSUME NEW g \in 1..Len(receipts), CancelReceipt(g) PROVE Done
    <3>1. UNCHANGED <<bills, payments>>
      BY <2>6, CancelReceiptEffect
    <3>2. QED
      BY <1>1, <1>2, <2>6, <3>1, CancelReceiptBooks, StillNet
  <2>7. ASSUME NEW g \in 1..Len(receipts), NEW q \in Quantities, CreateReturn(g, q) PROVE Done
    <3>1. UNCHANGED <<bills, payments>>
      BY <2>7, CreateReturnEffect
    <3>2. QED
      BY <1>2, <2>7, <3>1, CreateReturnBooks, StillNet
  <2>8. ASSUME NEW m \in 1..Len(returns), PostReturn(m) PROVE Done
    <3>1. UNCHANGED <<bills, payments>>
      BY <2>8, PostReturnEffect
    <3>2. QED
      BY <1>1, <1>2, <2>8, <3>1, PostReturnBooks, StillNet
  <2>9. ASSUME NEW payload \in BillPayloads, CreateBill(payload) PROVE Done
    BY <1>2, <2>9, CreateBillBooks, CreateBillNet
  <2>10. ASSUME NEW b \in 1..Len(bills), NEW due \in DueDates, PostBill(b, due) PROVE Done
    BY <1>1, <1>2, <2>10, PostBillBooks, PostBillNet
  <2>11. ASSUME NEW b \in 1..Len(bills), CancelBill(b) PROVE Done
    BY <1>1, <1>2, <2>11, CancelBillBooks, CancelBillNet
  <2>12. ASSUME NEW amount \in Amounts, NEW method \in {"AUTO", "MANUAL"},
                NEW lines \in {<<>>} \cup [1..Len(bills) -> Amounts \cup {0}],
                CreatePayment(amount, method, lines)
         PROVE  Done
    BY <1>2, <2>12, CreatePaymentBooks, CreatePaymentNet
  <2>13. ASSUME NEW c \in 1..Len(payments), PostPayment(c) PROVE Done
    BY <1>1, <1>2, <2>13, PostPaymentBooks, PostPaymentNet
  <2>14. ASSUME NEW c \in 1..Len(payments), CancelPayment(c) PROVE Done
    BY <1>1, <1>2, <2>14, CancelPaymentBooks, CancelPaymentNet
  <2>15. ASSUME NEW gate, NEW kind, NEW n, Approve(gate, kind, n) PROVE Done
    BY <1>4, <2>15, ApproveEffect
  <2>16. ASSUME NEW s \in Slots, NEW q \in Quantities, Sell(s, q) PROVE Done
    <3>1. UNCHANGED <<bills, payments>>
      BY <2>16, SellEffect
    <3>2. QED
      BY <1>1, <1>2, <2>16, <3>1, SellBooks, StillNet
  <2> HIDE DEF Done
  <2>17. Done
    BY <1>6, <2>1, <2>2, <2>3, <2>4, <2>5, <2>6, <2>7, <2>8, <2>9, <2>10, <2>11, <2>12,
       <2>13, <2>14, <2>15, <2>16 DEF Next
  <2>18. QED
    BY <1>3, <2>17
<1>7. QED
  BY <1>5, <1>6

\* At first there is nothing to book and nothing booked.
LEMMA InitBooks == Init => BooksInv
<1> SUFFICES ASSUME Init
             PROVE  KeysInv /\ BookedInv /\ InventoryFine /\ SumOf(books, "payable") = Net
  BY DEF BooksInv
<1>1. /\ DOMAIN books = {} /\ 1..0 = {}
      /\ Len(receipts) = 0 /\ Len(bills) = 0 /\ Len(payments) = 0
  BY EmptySeq, SMT DEF Init
<1>2. KeysInv
  BY <1>1, FS_EmptySet DEF KeysInv
<1>3. BookedInv
  BY <1>1 DEF BookedInv, Worth
<1>4. Ledger!Value(movements) = 0
  <2>1. /\ movements = <<>> /\ allowNegative \in BOOLEAN
        /\ balances = [s \in Ledger!Slots |-> Ledger!NoRow]
    BY SameShort, PoliciesAssumption DEF Init, Stock!NoRow, Ledger!NoRow
  <2>2. QED
    BY <2>1, Ledger!EmptyPriced, StockAssumption
<1>5. SumOf(books, "worth") = 0 /\ SumOf(books, "payable") = 0
  <2>1. Summable(books, "worth", DOMAIN books) /\ Summable(books, "payable", DOMAIN books)
    BY <1>1, FS_EmptySet DEF Summable
  <2>2. QED
    BY <1>1, <2>1, SumOfType
<1>6. Net = 0
  <2>1. TypeInv
    BY InitTyped
  <2>2. /\ Claims \in [1..0 -> Int] /\ Spares \in [1..0 -> Int]
        /\ Claimed = Total(Claims, 0) /\ Unapplied = Total(Spares, 0)
    BY <1>1, <2>1, NetTyped DEF Claimed, Unapplied
  <2>3. Claimed = 0 /\ Unapplied = 0
    BY <2>2, TotalEmpty
  <2>4. QED
    BY <2>3 DEF Net
<1>7. QED
  BY <1>2, <1>3, <1>4, <1>5, <1>6 DEF InventoryFine

\* So the accounts are always right.
LEMMA SpecBooks == Spec => []BooksInv
BY InitBooks, StepBooks, SpecTyped, PTL DEF Spec

\* The books differ from what their entries are worth by the rounding of the lines.
LEMMA BooksNear ==
  ASSUME TypeInv, IsFiniteSet(DOMAIN books)
  PROVE  LET gap == LineUnit * Account("inventory") - SumOf(books, "worth")
             slack == LineUnit * Cardinality({k \in DOMAIN books : books[k].inventory # 0})
         IN  -slack <= 2 * gap /\ 2 * gap <= slack
<1>1. ASSUME NEW k \in DOMAIN books
      PROVE  /\ books[k].inventory \in Int /\ books[k].worth \in Int
             /\ books[k].inventory = Stored(books[k].worth)
             /\ books[k].inventory = 0 => books[k].worth = 0
  <2>1. books[k] \in Entry
    BY DEF TypeInv, BooksTyped
  <2>2. QED
    BY <2>1 DEF Entry
<1>2. Summable(books, "inventory", DOMAIN books) /\ Summable(books, "worth", DOMAIN books)
  BY <1>1 DEF Summable
<1>3. \A k \in DOMAIN books :
         /\ -LineUnit <= 2 * (LineUnit * books[k].inventory - books[k].worth)
         /\ 2 * (LineUnit * books[k].inventory - books[k].worth) <= LineUnit
         /\ books[k].inventory = 0 => books[k].worth = 0
  BY <1>1, StoredNear
<1>4. Account("inventory") = SumOf(books, "inventory")
  BY Zenon DEF Account, SumOf
<1>5. LineUnit \in Nat
  BY LineUnitAssumption
<1>6. QED
  BY <1>2, <1>3, <1>4, <1>5, SumsNear

\* With auto-posting, and as long as no slot was ever short, the inventory account is what
\* the stock ledger is worth, but for half a unit of a line at most for every entry about
\* goods that stands: however many receipts, returns, sales and cancellations there are, in
\* every order, at whatever average the goods left.
THEOREM PurchasingInventoryReconciles == Spec => []InventoryReconciles
<1>1. TypeInv /\ BooksInv => InventoryReconciles
  <2> DEFINE value == Total([n \in 1..Len(movements) |-> movements[n].qty * movements[n].cost],
                            Len(movements))
             gap == LineUnit * Account("inventory") - value
             slack == LineUnit * Cardinality({k \in DOMAIN books : books[k].inventory # 0})
  <2> SUFFICES ASSUME TypeInv, BooksInv, policy.autoPosting, \A s \in Slots : ~Stock!EverShort(s)
               PROVE  -slack <= 2 * gap /\ 2 * gap <= slack
    BY DEF InventoryReconciles
  <2>1. SumOf(books, "worth") = Ledger!Value(movements) /\ IsFiniteSet(DOMAIN books)
    BY SameShort DEF BooksInv, InventoryFine, KeysInv
  <2>2. Ledger!Value(movements) = value
    BY SameShort DEF Ledger!Value
  <2>3. QED
    BY <2>1, <2>2, BooksNear
<1>2. QED
  BY <1>1, SpecTyped, SpecBooks, PTL

\* A draft bill was paid nothing.
LEMMA DraftUnpaid ==
  ASSUME TypeInv, PaidInv, NEW b \in 1..Len(bills), bills[b].status = "DRAFT"
  PROVE  bills[b].paid = 0
<1> DEFINE f == Applied(b)
           N == Len(payments)
<1>1. b \in Nat \ {0}
  BY TypedRows
<1>2. f \in [1..N -> Int] /\ N \in Nat
  BY <1>1, AppliedTyped
<1>3. bills[b].paid = Total(f, N) /\ \A c \in 1..N : f[c] = 0
  BY DEF PaidInv, BillFine
<1> HIDE DEF f, N
<1>4. QED
  BY <1>2, <1>3, TotalZero

\* The supplier's exposure, less what cancelled bills were paid, is what is owed.
LEMMA ExposureClaimed ==
  ASSUME TypeInv, PaidInv,
         NEW w, w = [b \in 1..Len(bills) |->
                       IF bills[b].status = "CANCELLED" THEN bills[b].paid ELSE 0]
  PROVE  /\ Exposure - Total(w, Len(bills)) = Claimed
         /\ Exposure \in Int /\ Total(w, Len(bills)) \in Int
<1> DEFINE N == Len(bills)
           f == Claims
           e == [b \in 1..N |->
                    IF bills[b].status \in {"POSTED", "PAID"}
                    THEN bills[b].total - bills[b].paid ELSE 0]
<1>1. Exposure = Total(e, N) /\ Claimed = Total(f, N) /\ N \in Nat /\ f \in [1..N -> Int]
  BY NetTyped DEF Exposure, Claimed
<1>2. ASSUME NEW b \in 1..N PROVE e[b] \in Int /\ w[b] \in Int /\ e[b] = f[b] + w[b]
  <2>1. /\ bills[b].total \in Int /\ bills[b].paid \in Int
        /\ bills[b].status \in {"DRAFT", "POSTED", "PAID", "CANCELLED"}
        /\ bills[b].status = "DRAFT" => bills[b].paid = 0
    <3>1. bills[b] \in Bill
      BY RowFacts
    <3>2. QED
      BY <3>1, DraftUnpaid DEF Bill
  <2>2. f[b] = (IF bills[b].status \in {"POSTED", "PAID"} THEN bills[b].total ELSE 0) - bills[b].paid
    BY DEF Claims, Claim, Open
  <2> HIDE DEF f
  <2>3. QED
    BY <2>1, <2>2
<1>3. e \in [1..N -> Int] /\ w \in [1..N -> Int]
  BY <1>2
<1> HIDE DEF e, f, N
<1>4. Total(e, N) = Total(f, N) + Total(w, N)
  BY ONLY <1>1, <1>2, <1>3, TotalAdd
<1>5. Total(e, N) \in Int /\ Total(f, N) \in Int /\ Total(w, N) \in Int
  BY <1>1, <1>3, TotalType
<1>6. Exposure - Total(w, N) = Claimed /\ Exposure \in Int /\ Total(w, N) \in Int
  BY <1>1, <1>4, <1>5
<1>7. QED
  BY <1>6 DEF N

\* With auto-posting the payable account is the supplier's exposure less the money of
\* standing payments that no bill shows and less what cancelled bills were paid: through
\* postings and cancellations of any number of bills and payments, in any order.
THEOREM PurchasingPayablesExplained == Spec => []PayablesExplained
<1>1. TypeInv /\ PaidInv /\ BooksInv => PayablesExplained
  <2> SUFFICES ASSUME TypeInv, PaidInv, BooksInv, policy.autoPosting PROVE PayablesExplained
    BY DEF PayablesExplained
  <2> DEFINE w == [b \in 1..Len(bills) |->
                     IF bills[b].status = "CANCELLED" THEN bills[b].paid ELSE 0]
             u == [c \in 1..Len(payments) |->
                     IF payments[c].status = "POSTED"
                     THEN payments[c].amount - LineSum(payments[c].lines) ELSE 0]
  <2>1. /\ Exposure - Total(w, Len(bills)) = Claimed
        /\ Exposure \in Int /\ Total(w, Len(bills)) \in Int
    BY ExposureClaimed
  <2>2. Unapplied = Total(u, Len(payments)) /\ Unapplied \in Int
    BY NetTyped DEF Unapplied, Spares, Spare
  <2>3. Account("payable") = SumOf(books, "payable") /\ SumOf(books, "payable") = Claimed - Unapplied
    BY Zenon DEF Account, SumOf, BooksInv, Net
  <2>4. PayablesExplained <=>
          Account("payable") = Exposure - Total(u, Len(payments)) - Total(w, Len(bills))
    BY DEF PayablesExplained
  <2> HIDE DEF u, w
  <2>5. QED
    BY <2>1, <2>2, <2>3, <2>4
<1>2. QED
  BY <1>1, SpecTyped, SpecPaid, SpecBooks, PTL

=============================================================================
