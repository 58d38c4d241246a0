----------------------------- MODULE Purchasing -----------------------------
(***************************************************************************)
(* The purchases of one company from one supplier: orders, goods receipts, *)
(* returns, bills and payments, composed with the stock ledger they move   *)
(* and with what their entries leave on the accounts.                      *)
(* Source: backend/app/modules/purchasing/service.py.                      *)
(*                                                                         *)
(* One action is one request served alone; a refused request is a          *)
(* stuttering step.  A document is abstracted to one line (a request       *)
(* handles all lines or none) in whole numbers of the product's base unit; *)
(* entries are abstracted as in Sales, and so are the units of costs and   *)
(* amounts.                                                                *)
(***************************************************************************)
EXTENDS Integers, Sequences, FiniteSets, FiniteSetsExt, Allocation

CONSTANTS
    Warehouses, Items, Quantities, Costs, MaxMovements,     \* see StockLedger
    OrderPayloads,      \* lines orders are created with
    ReceiptPayloads,    \* lines goods receipts are created with
    BillPayloads,       \* bills: their total and the exceptions their date meets
    Amounts,            \* amounts payments, and their lines, name
    DueDates,           \* due dates the supplier's terms can give a bill
    CreditLimit,        \* the supplier's
    LineUnit,           \* units of a cost in one unit of a journal line, 10^3 in the code
    MaxVariance,        \* max_price_variance_pct
    Policies,           \* the company's settings
    MaxSales,           \* bound: issues to customers
    MaxDocuments        \* bound: documents of all kinds together

Slots == Warehouses \X Items
Gates == {"BACKDATED_PURCHASE_DOC"}
Flows == {"DIRECT_RECEIPT", "PO_REQUIRED", "THREE_WAY_MATCH"}

OrderPayload == [qty: Nat \ {0}, cost: Nat]
ReceiptPayload == [slot: Slots, qty: Nat \ {0}, cost: Nat, gates: SUBSET Gates]
BillPayload == [total: Nat, gates: SUBSET Gates]

ASSUME StockAssumption ==
    Quantities \subseteq Nat \ {0} /\ Costs \subseteq Nat /\ MaxMovements \in Nat
ASSUME PayloadsAssumption ==
    /\ OrderPayloads \subseteq OrderPayload
    /\ ReceiptPayloads \subseteq ReceiptPayload
    /\ BillPayloads \subseteq BillPayload
ASSUME AmountsAssumption == Amounts \subseteq Nat \ {0} /\ DueDates \subseteq Nat
ASSUME LimitsAssumption == CreditLimit \in Nat /\ MaxVariance \in Int
ASSUME LineUnitAssumption == LineUnit \in Nat \ {0}
ASSUME PoliciesAssumption ==
    Policies \subseteq [flow: Flows, overLimit: BOOLEAN, autoPosting: BOOLEAN,
                        allowNegative: BOOLEAN]
ASSUME PurchasingBoundsAssumption == MaxSales \in Nat /\ MaxDocuments \in Nat

VARIABLES
    orders,         \* PurchaseOrder rows with their line, in id order
    receipts,       \* GoodsReceipt rows with their line
    returns,        \* PurchaseReturn rows with their line
    bills,          \* SupplierInvoice rows
    payments,       \* SupplierPayment rows with their lines
    approved,       \* APPROVED requests: <<type, document>> (see Approvals)
    books,          \* what the standing entry of every idempotency key posted
    policy,         \* the settings: purchase_flow_policy, allow_supplier_over_credit_limit,
                    \* enable_auto_posting, and allow_negative of stock
    movements, balances, allowNegative                      \* see StockLedger

stock == <<movements, balances, allowNegative>>
vars == <<orders, receipts, returns, bills, payments, approved, books, policy,
          movements, balances, allowNegative>>

Stock == INSTANCE StockLedger

OrderStatuses == {"DRAFT", "APPROVED", "PARTIALLY_RECEIVED", "FULLY_RECEIVED", "CANCELLED"}

\* approvedOnce: history, approve_po was called for it.
Order == [line: OrderPayload, received: Nat, status: OrderStatuses, approvedOnce: BOOLEAN]
\* order is the receipt's purchase order, orderLine the order its line refers to; 0 is none.
Receipt == [line: ReceiptPayload, order: Nat, orderLine: Nat, receipt: Nat,
            status: {"DRAFT", "POSTED", "CANCELLED"}]
\* overlapped: history, another return of the receipt was a draft when this was created.
Return == [receipt: Nat \ {0}, qty: Nat \ {0}, status: {"DRAFT", "POSTED"}, overlapped: BOOLEAN]
Bill == [total: Nat, gates: SUBSET Gates, paid: Int, due: Nat,
         status: {"DRAFT", "POSTED", "PAID", "CANCELLED"}]
Payment == [amount: Nat \ {0}, method: {"AUTO", "MANUAL"}, lines: Seq(Nat),
            status: {"DRAFT", "POSTED", "CANCELLED", "VOID"}]

RoomForDocument ==
    Len(orders) + Len(receipts) + Len(returns) + Len(bills) + Len(payments) < MaxDocuments

Ordering == <<orders, receipts, returns>>
Paying == <<bills, payments>>

-----------------------------------------------------------------------------
(* Entries                                                                 *)

\* A cost in a journal line's column of three places.
Stored(cost) == Stock!Rounded(cost, LineUnit)

\* What an entry leaves on the accounts.  worth: history, the cost before it was stored.
Booking(cost, payable) == [inventory |-> Stored(cost), worth |-> cost, payable |-> payable]

\* The database takes the lines of an entry for goods that cost this much: a line has a
\* side that is not zero (ck_jel_exactly_one_side).  No entry is made for goods that cost
\* nothing.
Bookable(cost) == policy.autoPosting /\ cost > 0 => Stored(cost) > 0

\* publish, for a document's entries: nothing when auto-posting is off.
Published(entries) ==
    books' = IF policy.autoPosting
             THEN [k \in DOMAIN books \cup DOMAIN entries |->
                      IF k \in DOMAIN entries THEN entries[k] ELSE books[k]]
             ELSE books

\* reverse_document for key k.
Unpublished(k) ==
    books' = IF policy.autoPosting THEN [j \in DOMAIN books \ {k} |-> books[j]] ELSE books

\* An entry for goods, when they cost more than nothing, in (way 1) or out (way -1).
GoodsEntry(k, cost, way) ==
    [j \in IF cost > 0 THEN {k} ELSE {} |-> Booking(way * cost, 0)]

\* An entry that adds amount to what the company owes the supplier.
MoneyEntry(k, amount) == [j \in {k} |-> Booking(0, amount)]

-----------------------------------------------------------------------------
(* Purchase orders                                                         *)

CreateOrder(line) ==
    /\ RoomForDocument
    /\ orders' = Append(orders, [line |-> line, received |-> 0, status |-> "DRAFT",
                                 approvedOnce |-> FALSE])
    /\ UNCHANGED <<receipts, returns, Paying, approved, books, policy, stock>>

ApproveOrder(p) ==
    /\ orders[p].status = "DRAFT"
    /\ orders' = [orders EXCEPT ![p].status = "APPROVED", ![p].approvedOnce = TRUE]
    /\ UNCHANGED <<receipts, returns, Paying, approved, books, policy, stock>>

CancelOrder(p) ==
    /\ orders[p].status \in {"DRAFT", "APPROVED"}
    /\ orders' = [orders EXCEPT ![p].status = "CANCELLED"]
    /\ UNCHANGED <<receipts, returns, Paying, approved, books, policy, stock>>

-----------------------------------------------------------------------------
(* Goods receipts                                                          *)

\* Mutant of FlowAllows: an order of any status can be received on.
FlowAllowsAnyStatus(p) ==
    IF p = 0 THEN policy.flow = "DIRECT_RECEIPT" ELSE policy.flow # "THREE_WAY_MATCH"

\* _check_flow_policy, when a receipt is created and never again.
FlowAllows(p) ==
    IF p = 0 THEN policy.flow = "DIRECT_RECEIPT"
    ELSE policy.flow # "THREE_WAY_MATCH" /\ orders[p].status = "APPROVED"

\* create_grn: the order the line refers to need not be the receipt's.
CreateReceipt(line, p, q) ==
    /\ RoomForDocument
    /\ FlowAllows(p)
    /\ receipts' = Append(receipts, [line |-> line, order |-> p, orderLine |-> q,
                                     receipt |-> 0, status |-> "DRAFT"])
    /\ UNCHANGED <<orders, returns, Paying, approved, books, policy, stock>>

\* The receipt's unit cost is further from the order's than the settings allow.
PriceOff(g) ==
    LET q == receipts[g].orderLine
        gap == receipts[g].line.cost - orders[q].line.cost
    IN  /\ q # 0
        /\ MaxVariance >= 0
        /\ orders[q].line.cost > 0
        /\ (IF gap < 0 THEN -gap ELSE gap) * 100 > MaxVariance * orders[q].line.cost

ReceiptExceptions(g) ==
    receipts[g].line.gates \cup (IF PriceOff(g) THEN {"PURCHASE_PRICE_OVERRIDE"} ELSE {})

\* The order's line after qty came on it, and _update_po_status.
Received(order, qty) ==
    LET all == order.received + qty
    IN  [order EXCEPT !.received = all,
             !.status = IF @ = "CANCELLED" THEN @
                        ELSE IF all >= order.line.qty THEN "FULLY_RECEIVED"
                        ELSE IF all > 0 THEN "PARTIALLY_RECEIVED" ELSE @]

\* post_grn.
PostReceipt(g) ==
    LET r == receipts[g]
    IN  /\ r.status = "DRAFT"
        /\ \A gate \in ReceiptExceptions(g) : <<gate, "receipt", g>> \in approved
        /\ Stock!Receive(r.line.slot, r.line.qty, r.line.cost)
        /\ orders' = IF r.orderLine = 0 THEN orders
                     ELSE [orders EXCEPT ![r.orderLine] = Received(@, r.line.qty)]
        /\ Bookable(r.line.qty * r.line.cost)
        /\ Published(GoodsEntry(<<"receipt", g>>, r.line.qty * r.line.cost, 1))
        /\ receipts' = [receipts EXCEPT ![g].status = "POSTED",
                                        ![g].receipt = Len(movements) + 1]
        /\ UNCHANGED <<returns, Paying, approved, policy>>

\* Mutant of CancelReceipt: the goods leave at the average of the day.
CancelReceiptByIssue(g) ==
    LET r == receipts[g]
    IN  /\ \/ r.status = "DRAFT" /\ UNCHANGED <<books, stock>>
           \/ /\ r.status = "POSTED"
              /\ <<"CANCEL_GRN", "receipt", g>> \in approved
              /\ Stock!Issue(r.line.slot, r.line.qty, FALSE)
              /\ Unpublished(<<"receipt", g>>)
        /\ receipts' = [receipts EXCEPT ![g].status = "CANCELLED"]
        /\ UNCHANGED <<orders, returns, Paying, approved, policy>>

\* cancel_grn: goods and entry are taken back at the original cost, whatever was returned
\* meanwhile; the order keeps what it counted.
CancelReceipt(g) ==
    LET r == receipts[g]
    IN  /\ \/ r.status = "DRAFT" /\ UNCHANGED <<books, stock>>
           \/ /\ r.status = "POSTED"
              /\ <<"CANCEL_GRN", "receipt", g>> \in approved
              /\ Stock!Reverse(r.receipt)
              /\ Unpublished(<<"receipt", g>>)
        /\ receipts' = [receipts EXCEPT ![g].status = "CANCELLED"]
        /\ UNCHANGED <<orders, returns, Paying, approved, policy>>

-----------------------------------------------------------------------------
(* Returns to the supplier                                                 *)

\* The quantity of receipt g that POSTED returns took back.
TotalReturned(g) ==
    Total([m \in 1..Len(returns) |->
              IF returns[m].receipt = g /\ returns[m].status = "POSTED"
              THEN returns[m].qty ELSE 0], Len(returns))

\* Mutant of CreateReturn: what was returned before is not counted.
CreateReturnUncounted(g, q) ==
    /\ RoomForDocument
    /\ receipts[g].status = "POSTED"
    /\ q <= receipts[g].line.qty
    /\ returns' = Append(returns, [receipt |-> g, qty |-> q, status |-> "DRAFT",
            overlapped |-> \E m \in 1..Len(returns) :
                              returns[m].receipt = g /\ returns[m].status = "DRAFT"])
    /\ UNCHANGED <<orders, receipts, Paying, approved, books, policy, stock>>

\* create_purchase_return: only POSTED returns count as returned already.
CreateReturn(g, q) ==
    /\ RoomForDocument
    /\ receipts[g].status = "POSTED"
    /\ TotalReturned(g) + q <= receipts[g].line.qty
    /\ returns' = Append(returns, [receipt |-> g, qty |-> q, status |-> "DRAFT",
            overlapped |-> \E m \in 1..Len(returns) :
                              returns[m].receipt = g /\ returns[m].status = "DRAFT"])
    /\ UNCHANGED <<orders, receipts, Paying, approved, books, policy, stock>>

\* post_purchase_return: the goods leave at the average of the day.
PostReturn(m) ==
    LET line == receipts[returns[m].receipt].line
        cost == returns[m].qty * balances[line.slot].avg
    IN  /\ returns[m].status = "DRAFT"
        /\ <<"PURCHASE_RETURN", "return", m>> \in approved
        /\ Stock!Issue(line.slot, returns[m].qty, FALSE)
        /\ Bookable(cost)
        /\ Published(GoodsEntry(<<"return", m>>, cost, -1))
        /\ returns' = [returns EXCEPT ![m].status = "POSTED"]
        /\ UNCHANGED <<orders, receipts, Paying, approved, policy>>

-----------------------------------------------------------------------------
(* Bills                                                                   *)

CreateBill(payload) ==
    /\ RoomForDocument
    /\ bills' = Append(bills, [total |-> payload.total, gates |-> payload.gates,
                               paid |-> 0, due |-> 0, status |-> "DRAFT"])
    /\ UNCHANGED <<Ordering, payments, approved, books, policy, stock>>

\* What is owed to the supplier.
Exposure ==
    Total([b \in 1..Len(bills) |->
              IF bills[b].status \in {"POSTED", "PAID"} THEN bills[b].total - bills[b].paid
              ELSE 0], Len(bills))

BillExceptions(b) ==
    bills[b].gates \cup
        (IF ~policy.overLimit /\ Exposure + bills[b].total > CreditLimit
         THEN {"SUPPLIER_CREDIT_LIMIT_OVERRIDE"} ELSE {})

\* post_supplier_invoice; the engine refuses an entry of nothing.
PostBill(b, due) ==
    /\ bills[b].status = "DRAFT"
    /\ policy.flow # "THREE_WAY_MATCH"
    /\ \A gate \in BillExceptions(b) : <<gate, "bill", b>> \in approved
    /\ policy.autoPosting => bills[b].total # 0
    /\ Published(MoneyEntry(<<"bill", b>>, bills[b].total))
    /\ bills' = [bills EXCEPT ![b].status = "POSTED", ![b].due = due]
    /\ UNCHANGED <<Ordering, payments, approved, policy, stock>>

\* Mutant of CancelBill: its entry stays.
CancelBillOnly(b) ==
    /\ \/ bills[b].status = "DRAFT"
       \/ /\ bills[b].status = "POSTED"
          /\ <<"CANCEL_SUPPLIER_INVOICE", "bill", b>> \in approved
    /\ bills' = [bills EXCEPT ![b].status = "CANCELLED"]
    /\ UNCHANGED <<Ordering, payments, approved, books, policy, stock>>

\* cancel_supplier_invoice: a bill that is paid in part can be cancelled.
CancelBill(b) ==
    /\ \/ bills[b].status = "DRAFT" /\ UNCHANGED books
       \/ /\ bills[b].status = "POSTED"
          /\ <<"CANCEL_SUPPLIER_INVOICE", "bill", b>> \in approved
          /\ Unpublished(<<"bill", b>>)
    /\ bills' = [bills EXCEPT ![b].status = "CANCELLED"]
    /\ UNCHANGED <<Ordering, payments, approved, policy, stock>>

-----------------------------------------------------------------------------
(* Payments                                                                *)

CreatePayment(amount, method, lines) ==
    /\ RoomForDocument
    /\ method = "AUTO" => lines = <<>>
    /\ payments' = Append(payments, [amount |-> amount, method |-> method,
                                     lines |-> lines, status |-> "DRAFT"])
    /\ UNCHANGED <<Ordering, bills, approved, books, policy, stock>>

LineSum(lines) == Total(lines, Len(lines))

\* _auto_allocate_payment: the oldest due bill first, each up to its open amount.
Fifo(amount) ==
    Shares(amount,
           [b \in 1..Len(bills) |-> IF bills[b].status = "POSTED" /\ bills[b].total > bills[b].paid
                                    THEN bills[b].total - bills[b].paid ELSE 0],
           [b \in 1..Len(bills) |-> bills[b].due])

\* Mutant of ManualAllowed: what a bill still owes is not looked at (as in sales).
ManualAllowedOverpaying(lines, amount) ==
    /\ LineSum(lines) <= amount
    /\ \A b \in 1..Len(lines) : lines[b] > 0 => bills[b].status \in {"POSTED", "PAID"}

\* _apply_manual_payment_allocations' tests.
ManualAllowed(lines, amount) ==
    /\ LineSum(lines) <= amount
    /\ \A b \in 1..Len(lines) : lines[b] > 0 =>
          /\ bills[b].status \in {"POSTED", "PAID"}
          /\ lines[b] <= bills[b].total - bills[b].paid

\* A bill after it was given some money.
Paid(bill, got) ==
    IF got = 0 THEN bill
    ELSE [bill EXCEPT !.paid = @ + got,
                      !.status = IF bill.paid + got >= bill.total THEN "PAID" ELSE @]

\* post_supplier_payment; the entry is for the whole amount.
PostPayment(c) ==
    LET pay == payments[c]
        lines == IF pay.method = "AUTO" THEN Fifo(pay.amount) ELSE pay.lines
    IN  /\ pay.status = "DRAFT"
        /\ pay.method = "MANUAL" => ManualAllowed(lines, pay.amount)
        /\ bills' = [b \in 1..Len(bills) |-> Paid(bills[b], LineOf(lines, b))]
        /\ payments' = [payments EXCEPT ![c].status = "POSTED", ![c].lines = lines]
        /\ Published(MoneyEntry(<<"payment", c>>, -pay.amount))
        /\ UNCHANGED <<Ordering, approved, policy, stock>>

\* A bill after a payment's line was taken back.
Unpaid(bill, got) ==
    IF got = 0 THEN bill
    ELSE [bill EXCEPT !.paid = @ - got, !.status = IF @ = "PAID" THEN "POSTED" ELSE @]

\* cancel_supplier_payment.  VOID is a payment cancelled as a draft (the code's status is
\* CANCELLED for both).
CancelPayment(c) ==
    /\ \/ /\ payments[c].status = "DRAFT"
          /\ payments' = [payments EXCEPT ![c].status = "VOID"]
          /\ UNCHANGED <<bills, books>>
       \/ /\ payments[c].status = "POSTED"
          /\ payments' = [payments EXCEPT ![c].status = "CANCELLED"]
          /\ bills' = [b \in 1..Len(bills) |-> Unpaid(bills[b], LineOf(payments[c].lines, b))]
          /\ Unpublished(<<"payment", c>>)
    /\ UNCHANGED <<Ordering, approved, policy, stock>>

-----------------------------------------------------------------------------
\* A request that a guarded operation made is approved.
Approve(gate, kind, n) ==
    /\ \/ kind = "receipt" /\ n <= Len(receipts) /\ receipts[n].status = "DRAFT"
          /\ gate \in ReceiptExceptions(n)
       \/ kind = "receipt" /\ n <= Len(receipts) /\ receipts[n].status = "POSTED"
          /\ gate = "CANCEL_GRN"
       \/ kind = "return" /\ n <= Len(returns) /\ returns[n].status = "DRAFT"
          /\ gate = "PURCHASE_RETURN"
       \/ kind = "bill" /\ n <= Len(bills) /\ bills[n].status = "DRAFT"
          /\ gate \in BillExceptions(n)
       \/ kind = "bill" /\ n <= Len(bills) /\ bills[n].status = "POSTED"
          /\ gate = "CANCEL_SUPPLIER_INVOICE"
    /\ <<gate, kind, n>> \notin approved
    /\ approved' = approved \cup {<<gate, kind, n>>}
    /\ UNCHANGED <<Ordering, Paying, books, policy, stock>>

\* Goods are sold (see Sales): issued and booked at the average.
Sell(s, q) ==
    /\ Cardinality({k \in DOMAIN books : k[1] = "sale"}) < MaxSales
    /\ policy.autoPosting
    /\ Stock!Issue(s, q, FALSE)
    /\ Bookable(q * balances[s].avg)
    /\ Published(GoodsEntry(<<"sale", Len(movements) + 1>>, q * balances[s].avg, -1))
    /\ UNCHANGED <<Ordering, Paying, approved, policy>>

Init ==
    /\ orders = <<>> /\ receipts = <<>> /\ returns = <<>> /\ bills = <<>> /\ payments = <<>>
    /\ approved = {}
    /\ books = <<>>
    /\ policy \in Policies
    /\ movements = <<>>
    /\ balances = [s \in Slots |-> Stock!NoRow]
    /\ allowNegative = policy.allowNegative

AllGates == Gates \cup {"PURCHASE_PRICE_OVERRIDE", "CANCEL_GRN", "PURCHASE_RETURN",
                        "SUPPLIER_CREDIT_LIMIT_OVERRIDE", "CANCEL_SUPPLIER_INVOICE"}

Next ==
    \/ \E line \in OrderPayloads : CreateOrder(line)
    \/ \E p \in 1..Len(orders) : ApproveOrder(p)
    \/ \E p \in 1..Len(orders) : CancelOrder(p)
    \/ \E line \in ReceiptPayloads, p \in 0..Len(orders), q \in 0..Len(orders) :
          CreateReceipt(line, p, q)
    \/ \E g \in 1..Len(receipts) : PostReceipt(g)
    \/ \E g \in 1..Len(receipts) : CancelReceipt(g)
    \/ \E g \in 1..Len(receipts), q \in Quantities : CreateReturn(g, q)
    \/ \E m \in 1..Len(returns) : PostReturn(m)
    \/ \E payload \in BillPayloads : CreateBill(payload)
    \/ \E b \in 1..Len(bills), due \in DueDates : PostBill(b, due)
    \/ \E b \in 1..Len(bills) : CancelBill(b)
    \/ \E amount \in Amounts, method \in {"AUTO", "MANUAL"},
          lines \in {<<>>} \cup [1..Len(bills) -> Amounts \cup {0}] :
          CreatePayment(amount, method, lines)
    \/ \E c \in 1..Len(payments) : PostPayment(c)
    \/ \E c \in 1..Len(payments) : CancelPayment(c)
    \/ \E gate \in AllGates, kind \in {"receipt", "return", "bill"}, n \in 1..MaxDocuments :
          Approve(gate, kind, n)
    \/ \E s \in Slots, q \in Quantities : Sell(s, q)

Spec == Init /\ [][Next]_vars

-----------------------------------------------------------------------------
(* Properties                                                              *)

\* The rows have the columns' types; what has been posted names its movement.  (Part of
\* PaidIsApplied.)
TypeOK ==
    /\ orders \in Seq(Order)
    /\ receipts \in Seq(Receipt)
    /\ returns \in Seq(Return)
    /\ bills \in Seq(Bill)
    /\ payments \in Seq(Payment)
    /\ \A g \in 1..Len(receipts) :
          /\ {receipts[g].order, receipts[g].orderLine} \subseteq 0..Len(orders)
          /\ receipts[g].status = "POSTED" =>
                /\ receipts[g].receipt \in 1..Len(movements)
                /\ movements[receipts[g].receipt].qty = receipts[g].line.qty
    /\ \A m \in 1..Len(returns) : returns[m].receipt \in 1..Len(receipts)
    /\ \A k \in DOMAIN books : books[k] \in [inventory: Int, worth: Int, payable: Int]
    /\ Stock!TypeOK

\* What a bill was paid is what the payments that stand give it, never more than its total,
\* and it is PAID exactly when that is all of it, through cancellations of either.
PaidIsApplied ==
    TypeOK /\ \A b \in 1..Len(bills) :
        /\ bills[b].paid =
              Total([c \in 1..Len(payments) |->
                        IF payments[c].status = "POSTED" THEN LineOf(payments[c].lines, b)
                        ELSE 0], Len(payments))
        /\ bills[b].paid <= bills[b].total
        /\ bills[b].status \in {"POSTED", "PAID"} /\ bills[b].total > 0 =>
              (bills[b].status = "PAID" <=> bills[b].paid = bills[b].total)

\* What the standing entries put on an account.
Account(account) == MapThenSumSet(LAMBDA k : books[k][account], DOMAIN books)

\* As long as no slot was ever short, the inventory account is the value of the stock
\* ledger, but for half a unit of a journal line at most for every standing entry about
\* goods: receipts, returns, sales and cancellations in any order, at whatever average goods
\* left, lose no more than the rounding of their entries.
InventoryReconciles ==
    policy.autoPosting /\ (\A s \in Slots : ~Stock!EverShort(s)) =>
        LET value == Total([n \in 1..Len(movements) |-> movements[n].qty * movements[n].cost],
                           Len(movements))
            gap == LineUnit * Account("inventory") - value
            slack == LineUnit * Cardinality({k \in DOMAIN books : books[k].inventory # 0})
        IN  -slack <= 2 * gap /\ 2 * gap <= slack

\* The payable account and the supplier's exposure tell the same story: they differ by the
\* money of standing payments that no standing bill shows.
PayablesExplained ==
    policy.autoPosting =>
        Account("payable") = Exposure -
            Total([c \in 1..Len(payments) |->
                      IF payments[c].status = "POSTED"
                      THEN payments[c].amount - LineSum(payments[c].lines) ELSE 0],
                  Len(payments)) -
            Total([b \in 1..Len(bills) |->
                      IF bills[b].status = "CANCELLED" THEN bills[b].paid ELSE 0], Len(bills))

\* Goods are received on an order only after it was approved, unless a receipt's line
\* refers to another order than the receipt does; and its status says how much came.
OrdersApprovedFirst ==
    \A p \in 1..Len(orders) :
        /\ orders[p].received > 0 =>
              \/ orders[p].approvedOnce
              \/ \E g \in 1..Len(receipts) : receipts[g].orderLine = p /\ receipts[g].order # p
        /\ orders[p].status \notin {"CANCELLED"} =>
              (orders[p].status = "FULLY_RECEIVED" <=> orders[p].received >= orders[p].line.qty)

\* No more of a receipt goes back than came, unless a return was created while another
\* one of the receipt was a draft.
ReturnsWithinReceived ==
    \A g \in 1..Len(receipts) :
        TotalReturned(g) > receipts[g].line.qty =>
            \E m \in 1..Len(returns) : returns[m].receipt = g /\ returns[m].overlapped
=============================================================================
