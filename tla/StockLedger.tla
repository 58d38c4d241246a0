---------------------------- MODULE StockLedger ----------------------------
(***************************************************************************)
(* The inventory module of one company: the append-only ledger of stock    *)
(* movements and the balance row that caches, for every slot (a warehouse  *)
(* and a product or batch), the quantity on hand and the weighted-average  *)
(* cost.  Source: backend/app/modules/inventory/service.py.                *)
(*                                                                         *)
(* One action is one request served alone: the request's transaction reads *)
(* the committed rows, appends its movements and rewrites the balance rows *)
(* it touches.  A request the code refuses (an unknown warehouse, product  *)
(* or batch, a batch that is missing or not wanted, insufficient stock)    *)
(* raises, its transaction is rolled back, and it is a stuttering step.    *)
(* Requests that overlap in time are the subject of StockSessions.         *)
(*                                                                         *)
(* Quantities and costs are Numeric(18,6) columns: integers count units of *)
(* the last decimal place, and an average is rounded to it when stored.    *)
(***************************************************************************)
EXTENDS Integers, Sequences, FiniteSets, RunningTotals

CONSTANTS
    Warehouses,     \* live warehouses of the company
    Items,          \* what one balance row counts: an untracked product, or a batch
    Quantities,     \* payload quantities (schemas: gt=0)
    Costs,          \* payload unit costs (schemas: ge=0)
    MaxMovements    \* bound: the ledger's length

ASSUME QuantitiesAssumption == Quantities \subseteq Nat \ {0}
ASSUME CostsAssumption == Costs \subseteq Nat
ASSUME MaxMovementsAssumption == MaxMovements \in Nat

VARIABLES
    movements,      \* StockMovement rows in id order: row n has id n
    balances,       \* the StockBalance row of every slot
    allowNegative   \* InventorySettings.allow_negative_stock

vars == <<movements, balances, allowNegative>>

Slots == Warehouses \X Items

MovementTypes == {"RECEIPT", "ISSUE", "TRANSFER_IN", "TRANSFER_OUT",
                  "ADJUSTMENT_IN", "ADJUSTMENT_OUT", "REVERSAL"}

Movement == [slot: Slots, type: MovementTypes, qty: Int \ {0}, cost: Int,
             ref: Nat, link: {"none", "inventory_transfer", "reversal"}]

Row == [exists: BOOLEAN, qty: Int, avg: Int]
NoRow == [exists |-> FALSE, qty |-> 0, avg |-> 0]

-----------------------------------------------------------------------------
(* Weighted-average costing                                                *)

\* n / d stored in a column of fixed scale: to the nearest unit, ties away from zero.
Rounded(n, d) ==
    LET num == IF d < 0 THEN -n ELSE n
        den == IF d < 0 THEN -d ELSE d
    IN  IF num >= 0 THEN (2 * num + den) \div (2 * den)
                    ELSE -((den - 2 * num) \div (2 * den))

\* Mutant of NewAverage: goods that leave are averaged in as well.
NewAverageBothWays(row, delta, cost) ==
    IF ~row.exists \/ row.qty + delta = 0 THEN cost
    ELSE Rounded(row.qty * row.avg + delta * cost, row.qty + delta)

\* The average after a movement of delta at unit cost cost: outbound keeps it.
NewAverage(row, delta, cost) ==
    IF delta <= 0 THEN row.avg
    ELSE IF ~row.exists \/ row.qty + delta = 0 THEN cost
    ELSE Rounded(row.qty * row.avg + delta * cost, row.qty + delta)

\* _update_balance's write.
Updated(row, delta, cost) ==
    [exists |-> TRUE, qty |-> row.qty + delta, avg |-> NewAverage(row, delta, cost)]

\* Mutant of MayApply: an existing row honours the per-movement override as well.
MayApplyOverride(row, delta, approved) ==
    \/ row.qty + delta >= 0
    \/ allowNegative
    \/ approved

\* _update_balance's guard: the per-movement override counts only while no row exists.
MayApply(row, delta, approved) ==
    \/ row.qty + delta >= 0
    \/ allowNegative
    \/ ~row.exists /\ approved

-----------------------------------------------------------------------------
(* Replay of the ledger                                                    *)

\* What movement m adds to slot s.
Contribution(m, s) == IF m.slot = s THEN m.qty ELSE 0

\* The quantity the ledger led puts in slot s: its movements added up in id order.
LedgerQty(led, s) ==
    Total([k \in 1..Len(led) |-> Contribution(led[k], s)], Len(led))

\* The replay's running state: a quantity and the average as an exact fraction.
Replayed == [qty: Int, num: Int, den: Int \ {0}]
NothingReplayed == [qty |-> 0, num |-> 0, den |-> 1]

\* recompute_balance's loop body for one row of slot s.
ReplayStep(r, m, s) ==
    LET d == Contribution(m, s)
        q == r.qty + d
    IN  IF d <= 0 THEN [qty |-> q, num |-> r.num, den |-> r.den]
        ELSE IF q = 0 THEN [qty |-> q, num |-> m.cost, den |-> 1]
        ELSE [qty |-> q, num |-> r.qty * r.num + d * m.cost * r.den, den |-> r.den * q]

\* recompute_balance's average: the live formula replayed in exact fractions, rounded
\* once, when the result is stored.
LedgerAverage(led, s) ==
    LET run[k \in 0..Len(led)] ==
            IF k = 0 THEN NothingReplayed ELSE ReplayStep(run[k-1], led[k], s)
        last == run[Len(led)]
    IN  Rounded(last.num, last.den)

-----------------------------------------------------------------------------
Init ==
    /\ movements = <<>>
    /\ balances = [s \in Slots |-> NoRow]
    /\ allowNegative = FALSE

\* One ledger row and the balance row it moves.
Post(m) ==
    /\ movements' = Append(movements, m)
    /\ balances' = [balances EXCEPT ![m.slot] = Updated(@, m.qty, m.cost)]

\* receive_stock (weighted-average companies).
Receive(s, q, c) ==
    /\ Len(movements) < MaxMovements
    /\ MayApply(balances[s], q, FALSE)
    /\ Post([slot |-> s, type |-> "RECEIPT", qty |-> q, cost |-> c,
             ref |-> 0, link |-> "none"])
    /\ UNCHANGED allowNegative

\* issue_stock: goods leave at the current average.
Issue(s, q, approved) ==
    /\ Len(movements) < MaxMovements
    /\ balances[s].qty - q >= 0 \/ allowNegative \/ approved
    /\ MayApply(balances[s], -q, approved)
    /\ Post([slot |-> s, type |-> "ISSUE", qty |-> -q, cost |-> balances[s].avg,
             ref |-> 0, link |-> "none"])
    /\ UNCHANGED allowNegative

\* Mutant of PostPair: the balance of the second leg is not updated.
PostPairOneBalance(m, n) ==
    /\ movements' = Append(Append(movements, m), n)
    /\ balances' = [balances EXCEPT ![m.slot] = Updated(@, m.qty, m.cost),
                                    ![n.slot] = [@ EXCEPT !.exists = TRUE]]

\* Two ledger rows and the two balance rows they move.
PostPair(m, n) ==
    /\ movements' = Append(Append(movements, m), n)
    /\ balances' = [balances EXCEPT ![m.slot] = Updated(@, m.qty, m.cost),
                                    ![n.slot] = Updated(@, n.qty, n.cost)]

\* Mutant of Transfer: the OUT leg is not linked back to the IN leg.
TransferWithoutBackLink(w, v, i, q, approved) ==
    LET from == <<w, i>>
        to == <<v, i>>
        leg(s, t, d, r) ==
            [slot |-> s, type |-> t, qty |-> d, cost |-> balances[from].avg,
             ref |-> r, link |-> "inventory_transfer"]
    IN  /\ Len(movements) + 1 < MaxMovements
        /\ v # w
        /\ balances[from].qty - q >= 0 \/ allowNegative \/ approved
        /\ MayApply(balances[from], -q, FALSE)
        /\ MayApply(balances[to], q, FALSE)
        /\ PostPair(leg(from, "TRANSFER_OUT", -q, 0),
                    leg(to, "TRANSFER_IN", q, Len(movements) + 1))
        /\ UNCHANGED allowNegative

\* transfer_stock: both legs at the source's average, linked to each other.  The
\* override passes the first check but never reaches _update_balance.
Transfer(w, v, i, q, approved) ==
    LET from == <<w, i>>
        to == <<v, i>>
        leg(s, t, d, r) ==
            [slot |-> s, type |-> t, qty |-> d, cost |-> balances[from].avg,
             ref |-> r, link |-> "inventory_transfer"]
    IN  /\ Len(movements) + 1 < MaxMovements
        /\ v # w
        /\ balances[from].qty - q >= 0 \/ allowNegative \/ approved
        /\ MayApply(balances[from], -q, FALSE)
        /\ MayApply(balances[to], q, FALSE)
        /\ PostPair(leg(from, "TRANSFER_OUT", -q, Len(movements) + 2),
                    leg(to, "TRANSFER_IN", q, Len(movements) + 1))
        /\ UNCHANGED allowNegative

\* adjust_stock: costed at the payload's cost when it names one, else at the average.  The
\* payload's override is recorded on the row and read by nothing.
Adjust(s, d, cost) ==
    /\ Len(movements) < MaxMovements
    /\ MayApply(balances[s], d, FALSE)
    /\ Post([slot |-> s,
             type |-> IF d > 0 THEN "ADJUSTMENT_IN" ELSE "ADJUSTMENT_OUT",
             qty |-> d, cost |-> cost, ref |-> 0, link |-> "none"])
    /\ UNCHANGED allowNegative

\* The REVERSAL row of movement n.
ReversalOf(n) ==
    [slot |-> movements[n].slot, type |-> "REVERSAL", qty |-> -movements[n].qty,
     cost |-> movements[n].cost, ref |-> n, link |-> "reversal"]

\* Mutant of Reverse: the sibling leg of a transfer is left standing.
ReverseOneLeg(n) ==
    /\ Len(movements) < MaxMovements
    /\ movements[n].type # "REVERSAL"
    /\ MayApply(balances[movements[n].slot], -movements[n].qty, FALSE)
    /\ Post(ReversalOf(n))
    /\ UNCHANGED allowNegative

\* reverse_movement: any movement but a REVERSAL, as often as it is asked; a transfer
\* is reversed with its sibling leg.
Reverse(n) ==
    /\ movements[n].type # "REVERSAL"
    /\ MayApply(balances[movements[n].slot], -movements[n].qty, FALSE)
    /\ \/ /\ movements[n].link # "inventory_transfer"
          /\ Len(movements) < MaxMovements
          /\ Post(ReversalOf(n))
       \/ /\ movements[n].link = "inventory_transfer"
          /\ Len(movements) + 1 < MaxMovements
          /\ LET sibling == movements[n].ref
             IN  /\ MayApply(balances[movements[sibling].slot], -movements[sibling].qty, FALSE)
                 /\ PostPair(ReversalOf(n), ReversalOf(sibling))
    /\ UNCHANGED allowNegative

\* recompute_balance: rewrites (or creates) the row from a replay of the ledger.
Recompute(s) ==
    /\ balances' = [balances EXCEPT ![s] =
            [exists |-> TRUE, qty |-> LedgerQty(movements, s),
             avg |-> LedgerAverage(movements, s)]]
    /\ UNCHANGED <<movements, allowNegative>>

\* PATCH /inventory/settings.
UpdateSettings ==
    /\ allowNegative' \in BOOLEAN
    /\ UNCHANGED <<movements, balances>>

Next ==
    \/ \E s \in Slots, q \in Quantities, c \in Costs : Receive(s, q, c)
    \/ \E s \in Slots, q \in Quantities, a \in BOOLEAN : Issue(s, q, a)
    \/ \E w \in Warehouses, v \in Warehouses, i \in Items, q \in Quantities,
          a \in BOOLEAN : Transfer(w, v, i, q, a)
    \/ \E s \in Slots, q \in Quantities :
          \E d \in {q, -q}, cost \in Costs \cup {balances[s].avg} : Adjust(s, d, cost)
    \/ \E n \in 1..Len(movements) : Reverse(n)
    \/ \E s \in Slots : Recompute(s)
    \/ UpdateSettings

Spec == Init /\ [][Next]_vars

\* The ledger read as a stock book: what each slot holds, and which were ever moved.
Held == [s \in Slots |-> LedgerQty(movements, s)]
Moved == {movements[n].slot : n \in 1..Len(movements)}

Book == INSTANCE StockBook WITH book <- Held, touched <- Moved

-----------------------------------------------------------------------------
(* Properties                                                              *)

\* The rows have the columns' types, and a slot with movements has a balance row.
TypeOK ==
    /\ movements \in Seq(Movement)
    /\ balances \in [Slots -> Row]
    /\ allowNegative \in BOOLEAN
    /\ \A n \in 1..Len(movements) : balances[movements[n].slot].exists

\* The two legs of a transfer name each other and carry opposite quantities of one item
\* in two warehouses: whichever leg reverse_movement is asked for, it finds the other.
LegsPaired ==
    \A n \in 1..Len(movements) : movements[n].link = "inventory_transfer" =>
        /\ movements[n].ref \in 1..Len(movements)
        /\ LET sibling == movements[movements[n].ref]
           IN  /\ sibling.link = "inventory_transfer"
               /\ sibling.ref = n
               /\ sibling.qty = -movements[n].qty
               /\ sibling.slot # movements[n].slot
               /\ sibling.slot[2] = movements[n].slot[2]

\* The balance row is what its docstring calls it, a cache derived from the ledger:
\* after any sequence of requests, reversals of transfers and of reversed movements
\* included, the cached quantity of every slot is the sum of its ledger rows.
BalanceMatchesLedger ==
    \A s \in Slots : balances[s].qty = LedgerQty(movements, s)

\* The ledger implements StockBook: although every guard of the code reads the cached
\* row, each request changes what the ledger itself holds the way StockBook allows.
ImplementsBook == Book!Spec

\* What the rows that belong to transfers add to item i, over all warehouses.
TransferNet(i) ==
    LET belongs(m) ==
            \/ m.link = "inventory_transfer"
            \/ m.link = "reversal" /\ movements[m.ref].link = "inventory_transfer"
        adds(m) == IF belongs(m) /\ m.slot[2] = i THEN m.qty ELSE 0
    IN  Total([k \in 1..Len(movements) |-> adds(movements[k])], Len(movements))

\* Moving goods between warehouses, and undoing the move from either leg any number of
\* times, neither creates nor destroys a unit of the item.
TransfersConserve == \A i \in Items : TransferNet(i) = 0

\* The quantity of slot s was below zero after some prefix of the ledger.
EverShort(s) ==
    \E k \in 1..Len(movements) : LedgerQty(SubSeq(movements, 1, k), s) < 0

\* The rows that brought goods into slot s.
Inbound(s) == {n \in 1..Len(movements) : Contribution(movements[n], s) > 0}

\* A slot that was never short is valued between the lowest and the highest unit cost
\* at which goods entered it: no issue, reversal, transfer, costed write-off or
\* rounding takes the weighted average outside what was paid.
AverageWithinCosts ==
    \A s \in Slots : ~EverShort(s) /\ Inbound(s) # {} =>
        /\ \E n \in Inbound(s) : movements[n].cost <= balances[s].avg
        /\ \E n \in Inbound(s) : movements[n].cost >= balances[s].avg

\* The cached average and the average recompute_balance would store differ by rounding
\* alone: each receipt rounds once, and mixing goods in never magnifies an earlier
\* error, so n receipts leave at most n + 1 half units between them.
RecomputeAgrees ==
    \A s \in Slots : ~EverShort(s) =>
        LET gap == LedgerAverage(movements, s) - balances[s].avg
            bound == Cardinality(Inbound(s)) + 1
        IN  2 * gap <= bound /\ -2 * gap <= bound

\* The cached average is sound: what was paid for bounds it, and a replay of the ledger
\* yields it.
AverageSound == AverageWithinCosts /\ RecomputeAgrees
=============================================================================
