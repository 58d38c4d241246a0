------------------------------- MODULE Sales -------------------------------
(***************************************************************************)
(* The sales of one company to one customer: invoices, credit notes and    *)
(* collections, composed with the stock ledger they move and with what     *)
(* their entries leave on the accounts.                                    *)
(* Source: backend/app/modules/sales/service.py.                           *)
(*                                                                         *)
(* One action is one request served alone; a refused request is a          *)
(* stuttering step.  An invoice is abstracted to one line (a request       *)
(* handles all lines or none), sold in the product's base unit and in      *)
(* whole numbers of it; how its entries are kept and reversed is the       *)
(* Journal's subject, here an entry is what it leaves on the inventory and *)
(* receivable accounts, and a reversed entry is gone.  Prices and amounts  *)
(* are in units of a journal line's last decimal place; unit costs, and    *)
(* what goods cost, in units of the last place of a movement's cost, of    *)
(* which LineUnit make one of the journal's.                               *)
(***************************************************************************)
EXTENDS Integers, Sequences, FiniteSets, FiniteSetsExt, Allocation

CONSTANTS
    Warehouses, Items, Quantities, Costs, MaxMovements,     \* see StockLedger
    Payloads,           \* lines invoices are created with
    Returnable,         \* quantities credit notes name
    Amounts,            \* amounts collections, and their lines, name
    DueDates,           \* due dates the customer's terms can give an invoice
    CreditLimit,        \* the customer's
    LineUnit,           \* units of a cost in one unit of a journal line, 10^3 in the code
    Policies,           \* the company's settings
    MaxSupplies,        \* bound: receipts from suppliers
    MaxInvoices,        \* bound: invoices
    MaxDocuments        \* bound: invoices, credit notes and collections together

Slots == Warehouses \X Items
Gates == {"MANUAL_PRICE", "DISCOUNT_OVERRIDE", "BACKDATED_INVOICE"}
Payload == [slot: Slots, qty: Nat \ {0}, price: Nat, discount: Nat, gates: SUBSET Gates,
            terms: {"CASH", "CREDIT"}]

ASSUME StockAssumption ==
    Quantities \subseteq Nat \ {0} /\ Costs \subseteq Nat /\ MaxMovements \in Nat
ASSUME PayloadsAssumption == Payloads \subseteq Payload
ASSUME AmountsAssumption ==
    Returnable \subseteq Nat \ {0} /\ Amounts \subseteq Nat \ {0} /\ DueDates \subseteq Nat
ASSUME CreditLimitAssumption == CreditLimit \in Nat
ASSUME LineUnitAssumption == LineUnit \in Nat \ {0}
ASSUME PoliciesAssumption ==
    Policies \subseteq [sellsShort: BOOLEAN, autoPosting: BOOLEAN, allowNegative: BOOLEAN]
ASSUME SalesBoundsAssumption ==
    MaxSupplies \in Nat /\ MaxInvoices \in Nat /\ MaxDocuments \in Nat

VARIABLES
    invoices,       \* SalesInvoice rows with their line, in id order
    notes,          \* CreditNote rows with their line, in id order
    collections,    \* Collection rows with their lines, in id order
    approved,       \* APPROVED requests of invoices: <<type, invoice>> (see Approvals)
    books,          \* what the standing entry of every idempotency key posted
    policy,         \* the settings: allow_negative_stock_on_sale (sellsShort) and
                    \* enable_auto_posting of sales and accounting, allow_negative of stock
    movements, balances, allowNegative                      \* see StockLedger

stock == <<movements, balances, allowNegative>>
vars == <<invoices, notes, collections, approved, books, policy,
          movements, balances, allowNegative>>

Stock == INSTANCE StockLedger

Invoice == [line: Payload, status: {"DRAFT", "POSTED", "COLLECTED", "CANCELLED"},
            collected: Int, due: Nat, issue: Nat]
\* overlapped: history, another note of the invoice was a draft when this one was created.
Note == [invoice: Nat \ {0}, qty: Nat \ {0}, status: {"DRAFT", "POSTED"}, overlapped: BOOLEAN]
Collection == [amount: Nat \ {0}, method: {"AUTO", "MANUAL"}, lines: Seq(Nat),
               status: {"DRAFT", "POSTED", "CANCELLED", "VOID"}]

RoomForDocument == Len(invoices) + Len(notes) + Len(collections) < MaxDocuments

GrandTotal(n) == invoices[n].line.qty * invoices[n].line.price - invoices[n].line.discount

\* The quantity of invoice n that POSTED credit notes returned.
TotalReturned(n) ==
    Total([m \in 1..Len(notes) |->
              IF notes[m].invoice = n /\ notes[m].status = "POSTED" THEN notes[m].qty ELSE 0],
          Len(notes))

\* The customer's open receivables.
Exposure ==
    Total([n \in 1..Len(invoices) |->
              IF invoices[n].status \in {"POSTED", "COLLECTED"}
              THEN GrandTotal(n) - invoices[n].collected ELSE 0], Len(invoices))

-----------------------------------------------------------------------------
(* Entries                                                                 *)

\* A cost in a journal line's column of three places.
Stored(cost) == Stock!Rounded(cost, LineUnit)

\* What an entry leaves on the accounts.  worth: history, the cost before it was stored.
Booking(receivable, cost) ==
    [receivable |-> receivable, inventory |-> Stored(cost), worth |-> cost]

\* The database takes the lines of an entry for goods that cost this much: a line has a
\* side that is not zero (ck_jel_exactly_one_side).  No entry is made for goods that cost
\* nothing.
Bookable(cost) == policy.autoPosting /\ cost > 0 => Stored(cost) > 0

\* publish, for a document's entries: nothing when auto-posting is off.
Published(entries) ==
    books' = IF policy.autoPosting
             THEN [k \in DOMAIN books \cup DOMAIN entries |->
                      IF k \in DOMAIN entries THEN entries[k] ELSE books[k]]
             ELSE books

\* reverse_document for the keys ks.
Unpublished(ks) ==
    books' = IF policy.autoPosting THEN [k \in DOMAIN books \ ks |-> books[k]] ELSE books

\* A document's entries: one with its amount, and, when its goods cost more than nothing,
\* one that moves their cost into inventory (way 1) or out of it (way -1).
DocumentEntries(kind, n, receivable, cost, way) ==
    [k \in {<<kind, n>>} \cup (IF cost > 0 THEN {<<kind, n, "cogs">>} ELSE {}) |->
        IF k = <<kind, n>> THEN Booking(receivable, 0) ELSE Booking(0, way * cost)]

-----------------------------------------------------------------------------
(* Invoices                                                                *)

CreateInvoice(line) ==
    /\ RoomForDocument
    /\ Len(invoices) < MaxInvoices
    /\ invoices' = Append(invoices, [line |-> line, status |-> "DRAFT", collected |-> 0,
                                     due |-> 0, issue |-> 0])
    /\ UNCHANGED <<notes, collections, approved, books, policy, stock>>

\* The exceptions posting invoice n meets; each needs an approval of its own.
Exceptions(n) ==
    invoices[n].line.gates \cup
        (IF /\ invoices[n].line.terms = "CREDIT"
            /\ Exposure + GrandTotal(n) > CreditLimit
         THEN {"CREDIT_LIMIT_OVERRIDE"} ELSE {})

\* The goods of invoice n are there, or the settings let it be sold without
\* (_check_stock_for_line).
Available(n) ==
    LET line == invoices[n].line
    IN  policy.sellsShort \/ balances[line.slot].qty - line.qty >= 0

\* The engine takes the invoice's revenue entry: something to post, and it balances, which
\* it does not when there is a discount.
RevenuePostable(n) ==
    policy.autoPosting =>
        /\ GrandTotal(n) # 0
        /\ invoices[n].line.discount = 0

\* post_invoice; neg_stock_approved skips its own test of the stock and goes along to the
\* ledger's.
PostInvoice(n, due) ==
    LET line == invoices[n].line
        cost == line.qty * balances[line.slot].avg
        negStockApproved == <<"NEGATIVE_STOCK", n>> \in approved
    IN  /\ invoices[n].status = "DRAFT"
        /\ \A g \in Exceptions(n) : <<g, n>> \in approved
        /\ negStockApproved \/ Available(n)
        /\ Stock!Issue(line.slot, line.qty, negStockApproved)
        /\ RevenuePostable(n)
        /\ Bookable(cost)
        /\ Published(DocumentEntries("invoice", n,
               IF line.terms = "CREDIT" THEN GrandTotal(n) ELSE 0, cost, -1))
        /\ invoices' = [invoices EXCEPT ![n].status = "POSTED", ![n].due = due,
                                        ![n].issue = Len(movements) + 1]
        /\ UNCHANGED <<notes, collections, approved, policy>>

\* Mutant of CancelInvoice: only the entry for the goods is reversed.
CancelInvoiceGoodsOnly(n) ==
    /\ \/ /\ invoices[n].status = "DRAFT"
          /\ UNCHANGED <<books, stock>>
       \/ /\ invoices[n].status = "POSTED"
          /\ <<"CANCEL_AFTER_POST", n>> \in approved
          /\ Stock!Reverse(invoices[n].issue)
          /\ Unpublished({<<"invoice", n, "cogs">>})
    /\ invoices' = [invoices EXCEPT ![n].status = "CANCELLED"]
    /\ UNCHANGED <<notes, collections, approved, policy>>

\* cancel_invoice: a draft is marked; a posted one also takes back its stock and entries,
\* whatever was collected or returned meanwhile.
CancelInvoice(n) ==
    /\ \/ /\ invoices[n].status = "DRAFT"
          /\ UNCHANGED <<books, stock>>
       \/ /\ invoices[n].status = "POSTED"
          /\ <<"CANCEL_AFTER_POST", n>> \in approved
          /\ Stock!Reverse(invoices[n].issue)
          /\ Unpublished({<<"invoice", n>>, <<"invoice", n, "cogs">>})
    /\ invoices' = [invoices EXCEPT ![n].status = "CANCELLED"]
    /\ UNCHANGED <<notes, collections, approved, policy>>

\* A request that posting or cancelling invoice n made is approved; or one to sell it though
\* the goods are not there, which post_invoice looks for and nothing in this code makes.
Approve(gate, n) ==
    /\ \/ invoices[n].status = "DRAFT" /\ gate \in Exceptions(n)
       \/ invoices[n].status = "DRAFT" /\ gate = "NEGATIVE_STOCK" /\ ~Available(n)
       \/ invoices[n].status = "POSTED" /\ gate = "CANCEL_AFTER_POST"
    /\ <<gate, n>> \notin approved
    /\ approved' = approved \cup {<<gate, n>>}
    /\ UNCHANGED <<invoices, notes, collections, books, policy, stock>>

-----------------------------------------------------------------------------
(* Credit notes                                                            *)

\* Mutant of CreateNote: what was returned before is not counted.
CreateNoteUncounted(n, q) ==
    /\ RoomForDocument
    /\ invoices[n].status = "POSTED"
    /\ q <= invoices[n].line.qty
    /\ notes' = Append(notes, [invoice |-> n, qty |-> q, status |-> "DRAFT",
            overlapped |-> \E m \in 1..Len(notes) :
                              notes[m].invoice = n /\ notes[m].status = "DRAFT"])
    /\ UNCHANGED <<invoices, collections, approved, books, policy, stock>>

\* create_credit_note: only POSTED notes count as returned already.
CreateNote(n, q) ==
    /\ RoomForDocument
    /\ invoices[n].status = "POSTED"
    /\ TotalReturned(n) + q <= invoices[n].line.qty
    /\ notes' = Append(notes, [invoice |-> n, qty |-> q, status |-> "DRAFT",
            overlapped |-> \E m \in 1..Len(notes) :
                              notes[m].invoice = n /\ notes[m].status = "DRAFT"])
    /\ UNCHANGED <<invoices, collections, approved, books, policy, stock>>

\* Mutant of PostNote: the goods come back at today's average.
PostNoteAtAverage(m) ==
    LET n == notes[m].invoice
        line == invoices[n].line
        cost == balances[line.slot].avg
    IN  /\ notes[m].status = "DRAFT"
        /\ Stock!Receive(line.slot, notes[m].qty, cost)
        /\ policy.autoPosting => notes[m].qty * line.price # 0
        /\ Bookable(notes[m].qty * movements[invoices[n].issue].cost)
        /\ Published(DocumentEntries("note", m, -(notes[m].qty * line.price),
                                     notes[m].qty * movements[invoices[n].issue].cost, 1))
        /\ notes' = [notes EXCEPT ![m].status = "POSTED"]
        /\ UNCHANGED <<invoices, collections, approved, policy>>

\* post_credit_note: the goods come back at the cost they left at; neither the invoice's
\* status nor what was returned meanwhile is tested again.
PostNote(m) ==
    LET n == notes[m].invoice
        line == invoices[n].line
        cost == movements[invoices[n].issue].cost
    IN  /\ notes[m].status = "DRAFT"
        /\ Stock!Receive(line.slot, notes[m].qty, cost)
        /\ policy.autoPosting => notes[m].qty * line.price # 0
        /\ Bookable(notes[m].qty * cost)
        /\ Published(DocumentEntries("note", m, -(notes[m].qty * line.price),
                                     notes[m].qty * cost, 1))
        /\ notes' = [notes EXCEPT ![m].status = "POSTED"]
        /\ UNCHANGED <<invoices, collections, approved, policy>>

-----------------------------------------------------------------------------
(* Collections                                                             *)

\* A collection's lines: what it gives every invoice there is.
LineSum(lines) == Total(lines, Len(lines))
Line(c, n) == LineOf(collections[c].lines, n)

CreateCollection(amount, method, lines) ==
    /\ RoomForDocument
    /\ method = "AUTO" => lines = <<>>
    /\ collections' = Append(collections, [amount |-> amount, method |-> method,
                                           lines |-> lines, status |-> "DRAFT"])
    /\ UNCHANGED <<invoices, notes, approved, books, policy, stock>>

OpenAmount(n) ==
    IF invoices[n].status = "POSTED" /\ GrandTotal(n) > invoices[n].collected
    THEN GrandTotal(n) - invoices[n].collected ELSE 0

OpenAmounts == [n \in 1..Len(invoices) |-> OpenAmount(n)]
Dues == [n \in 1..Len(invoices) |-> invoices[n].due]

\* Mutant of Fifo: an invoice is given what is left without regard to what is open.
FifoUncapped(amount) ==
    [n \in 1..Len(invoices) |->
        LET left == amount - OpenBefore(OpenAmounts, Dues, n)
        IN  IF left <= 0 \/ OpenAmount(n) = 0 THEN 0 ELSE left]

\* _auto_allocate: the oldest due invoice first, each up to its open amount.
Fifo(amount) == Shares(amount, OpenAmounts, Dues)

\* _apply_manual_allocations: what an invoice still owes is not looked at.
ManualAllowed(c) ==
    /\ LineSum(collections[c].lines) <= collections[c].amount
    /\ \A n \in 1..Len(collections[c].lines) :
          collections[c].lines[n] > 0 => invoices[n].status \in {"POSTED", "COLLECTED"}

\* The invoices after they were given lines; one given enough is COLLECTED.
Given(lines) ==
    [n \in 1..Len(invoices) |->
        LET i == invoices[n]
            got == LineOf(lines, n)
        IN  IF got = 0 THEN i
            ELSE [i EXCEPT !.collected = @ + got,
                           !.status = IF i.collected + got >= GrandTotal(n)
                                      THEN "COLLECTED" ELSE @]]

\* post_collection; the entry is for the whole amount, allocated or not.
PostCollection(c) ==
    LET col == collections[c]
        lines == IF col.method = "AUTO" THEN Fifo(col.amount) ELSE col.lines
    IN  /\ col.status = "DRAFT"
        /\ col.method = "MANUAL" => ManualAllowed(c)
        /\ invoices' = Given(lines)
        /\ collections' = [collections EXCEPT ![c].status = "POSTED", ![c].lines = lines]
        /\ Published([k \in {<<"collection", c>>} |-> Booking(-col.amount, 0)])
        /\ UNCHANGED <<notes, approved, policy, stock>>

\* Mutant of CancelCollection: the invoices keep what they were given.
CancelCollectionOnly(c) ==
    /\ collections[c].status \in {"DRAFT", "POSTED"}
    /\ collections' = [collections EXCEPT ![c].status =
                           IF @ = "POSTED" THEN "CANCELLED" ELSE "VOID"]
    /\ UNCHANGED <<invoices, notes, approved, books, policy, stock>>

\* cancel_collection: its lines are taken back, its entry is not.  VOID is a collection
\* cancelled as a draft (the code's status is CANCELLED for both).
CancelCollection(c) ==
    /\ collections[c].status \in {"DRAFT", "POSTED"}
    /\ invoices' =
          [n \in 1..Len(invoices) |->
              IF collections[c].status = "DRAFT" \/ Line(c, n) = 0 THEN invoices[n]
              ELSE [invoices[n] EXCEPT !.collected = @ - Line(c, n),
                        !.status = IF @ = "COLLECTED" THEN "POSTED" ELSE @]]
    /\ collections' = [collections EXCEPT ![c].status =
                           IF @ = "POSTED" THEN "CANCELLED" ELSE "VOID"]
    /\ UNCHANGED <<notes, approved, books, policy, stock>>

-----------------------------------------------------------------------------
\* Goods are bought (see Purchasing): received and booked at cost.
Supply(s, q, c) ==
    /\ Cardinality({n \in 1..Len(movements) : movements[n].type = "RECEIPT"})
          - Cardinality({m \in 1..Len(notes) : notes[m].status = "POSTED"}) < MaxSupplies
    /\ Stock!Receive(s, q, c)
    /\ Bookable(q * c)
    /\ Published([k \in {<<"supply", Len(movements) + 1>>} |-> Booking(0, q * c)])
    /\ UNCHANGED <<invoices, notes, collections, approved, policy>>

Init ==
    /\ invoices = <<>> /\ notes = <<>> /\ collections = <<>>
    /\ approved = {}
    /\ books = <<>>
    /\ policy \in Policies
    /\ movements = <<>>
    /\ balances = [s \in Slots |-> Stock!NoRow]
    /\ allowNegative = policy.allowNegative

Next ==
    \/ \E line \in Payloads : CreateInvoice(line)
    \/ \E n \in 1..Len(invoices), due \in DueDates : PostInvoice(n, due)
    \/ \E n \in 1..Len(invoices) : CancelInvoice(n)
    \/ \E n \in 1..Len(invoices),
          gate \in Gates \cup {"CREDIT_LIMIT_OVERRIDE", "NEGATIVE_STOCK", "CANCEL_AFTER_POST"} :
          Approve(gate, n)
    \/ \E n \in 1..Len(invoices), q \in Returnable : CreateNote(n, q)
    \/ \E m \in 1..Len(notes) : PostNote(m)
    \/ \E amount \in Amounts, method \in {"AUTO", "MANUAL"},
          lines \in {<<>>} \cup [1..Len(invoices) -> Amounts \cup {0}] :
          CreateCollection(amount, method, lines)
    \/ \E c \in 1..Len(collections) : PostCollection(c)
    \/ \E c \in 1..Len(collections) : CancelCollection(c)
    \/ \E s \in Slots, q \in Quantities, c \in Costs : Supply(s, q, c)

Spec == Init /\ [][Next]_vars

-----------------------------------------------------------------------------
(* Properties                                                              *)

\* The rows have the columns' types; what has been posted names its movement.  (Part of
\* CollectedIsAllocated.)
TypeOK ==
    /\ invoices \in Seq(Invoice)
    /\ notes \in Seq(Note)
    /\ \A m \in 1..Len(notes) : notes[m].invoice \in 1..Len(invoices)
    /\ collections \in Seq(Collection)
    /\ \A n \in 1..Len(invoices) :
          /\ invoices[n].issue \in 0..Len(movements)
          /\ invoices[n].status \in {"POSTED", "COLLECTED"} =>
                 invoices[n].issue # 0 /\ movements[invoices[n].issue].qty = -invoices[n].line.qty
    /\ \A k \in DOMAIN books : books[k] \in [receivable: Int, inventory: Int, worth: Int]
    /\ Stock!TypeOK

\* What an invoice has collected is what the collections that stand give it, through
\* cancellations of either in any order; a COLLECTED one is paid in full.
CollectedIsAllocated ==
    TypeOK /\ \A n \in 1..Len(invoices) :
        /\ invoices[n].collected =
              Total([c \in 1..Len(collections) |->
                        IF collections[c].status = "POSTED" THEN Line(c, n) ELSE 0],
                    Len(collections))
        /\ invoices[n].status = "COLLECTED" => invoices[n].collected >= GrandTotal(n)

\* What the standing entries put on an account.
Account(account) == MapThenSumSet(LAMBDA k : books[k][account], DOMAIN books)

\* As long as no slot was ever short, the inventory account is the value of the stock
\* ledger, but for half a unit of a journal line at most for every standing entry about
\* goods: sales, returns and cancellations in any order, at whatever average the goods left,
\* lose no more than the rounding of their entries.
InventoryReconciles ==
    policy.autoPosting /\ (\A s \in Slots : ~Stock!EverShort(s)) =>
        LET value == Total([n \in 1..Len(movements) |-> movements[n].qty * movements[n].cost],
                           Len(movements))
            gap == LineUnit * Account("inventory") - value
            slack == LineUnit * Cardinality({k \in DOMAIN books : books[k].inventory # 0})
        IN  -slack <= 2 * gap /\ 2 * gap <= slack

\* What collections that were posted hold of money the invoices no longer show: what was
\* never allocated, and all of a collection cancelled since.
Unapplied ==
    Total([c \in 1..Len(collections) |->
              IF collections[c].status = "POSTED"
              THEN collections[c].amount - LineSum(collections[c].lines)
              ELSE IF collections[c].status = "CANCELLED" THEN collections[c].amount
              ELSE 0], Len(collections))

\* What POSTED notes credit.
Credited ==
    Total([m \in 1..Len(notes) |->
              IF notes[m].status = "POSTED"
              THEN notes[m].qty * invoices[notes[m].invoice].line.price ELSE 0], Len(notes))

\* What was collected on invoices that are not receivable, or not any more.
Elsewhere ==
    Total([n \in 1..Len(invoices) |->
              IF invoices[n].status \in {"POSTED", "COLLECTED"}
              THEN IF invoices[n].line.terms = "CREDIT" THEN 0 ELSE GrandTotal(n)
              ELSE invoices[n].collected], Len(invoices))

\* The receivable account and the customer's credit exposure tell the same story: they
\* differ by the notes, the money not applied to a standing invoice, and cash sales.
ReceivablesExplained ==
    policy.autoPosting => Account("receivable") = Exposure - Credited - Unapplied - Elsewhere

\* No more of an invoice comes back than was delivered, unless a credit note was created
\* while another one of the invoice was a draft.
ReturnsWithinDelivered ==
    \A n \in 1..Len(invoices) :
        TotalReturned(n) > invoices[n].line.qty =>
            \E m \in 1..Len(notes) : notes[m].invoice = n /\ notes[m].overlapped

\* An automatic collection pays invoices in the order they fall due: it gives nothing to
\* one while an older one is left open, and never more than was open.
OldestFirst ==
    [][\A c \in 1..Len(collections) :
          collections[c].method = "AUTO" /\ collections[c].status = "DRAFT"
          /\ collections'[c].status = "POSTED" =>
              \A n \in 1..Len(invoices) : invoices'[n].collected # invoices[n].collected =>
                  /\ invoices'[n].collected <= GrandTotal(n)
                  /\ \A m \in 1..Len(invoices) : Before(Dues, m, n) => OpenAmount(m)' = 0]_vars
=============================================================================
