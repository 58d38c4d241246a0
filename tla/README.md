# A TLA+ model of Nexus ERP

This directory specifies the core of the Nexus ERP backend (`backend/app`) in TLA+: the stock
ledger, the approval framework, the fiscal calendar, the journal with its posting engine and its
reports, the sales and purchasing documents that drive them, the master records they refer to,
and what happens to all of these when requests overlap. TLC checks the specifications on small
instances; TLAPS proves results about all of them (and their helpers) for every instance.

## The system and its parts

The backend is a FastAPI application in one server process. Every endpoint is a plain function,
run by a thread of the server's pool with a SQLAlchemy session of its own; `get_db`
(`core/database.py`) commits when the handler returns and rolls back when it raises. PostgreSQL
runs the transactions at READ COMMITTED. Nothing else is shared: all state is in tables, and
components interact by calling each other's service functions within one transaction.

| Component | State | Operations | What makes it correct |
|---|---|---|---|
| Stock ledger (`inventory`) | append-only movements, a balance row per warehouse and product or batch, the negative-stock policy | receive, issue, transfer, adjust, reverse, recompute, settings | a balance row is the sum of its ledger rows; transfers conserve goods; the average cost is what a replay yields; no shortage without permission |
| Sessions (`core/database.py`) | what each open request has read, locked and written | open, queries, flush, commit, rollback | what holds of requests served alone still holds of requests that overlap, or it is known what does not |
| Approvals (`shared`, and a copy in `accounting`) | approval requests | attempt of a guarded operation, decision | an exception runs only with another user's approval of it; decisions stand; answers name requests |
| Fiscal calendar (`accounting`) | fiscal years, periods | create, generate periods, close, reopen | periods tile the year; a closed year stays shut |
| Journal, posting engine, reports (`accounting`) | entries and lines, accounts, settings, number sequences | create, post, reverse, publish, reverse a document; trial balance, general ledger, profit and loss, balance sheet | books balance on every date; shut dates are never rewritten; one entry per document; an entry is undone once; numbers have no gaps; the reports tell one story |
| Sales | invoices, credit notes, collections, price lists | create, post, cancel, allocate; the default list | collected amounts are what collections gave; stock and receivable accounts agree with the documents; returns stay within deliveries; a default list is not lost |
| Purchasing | orders, receipts, returns, bills, payments | create, approve, post, cancel, apply | paid amounts are what payments gave; stock and payable accounts agree with the documents; goods arrive on approved orders |
| Organization | companies, branches, warehouses | create, update, cascade delete, restore | restoring undoes exactly what deleting did |
| Users (`auth`) | users and their flags | create, update, delete, restore | somebody is left who may administer |
| Trees (`master_data`, `accounting`) | categories, accounts, cost centers | create, move, delete, restore, apply a template | the trees stay trees |
| Units (`master_data`) | units, conversion rules, a product's units | convert, change rules, change the product | a quantity that comes back is the quantity that left |

Hard in this code: balance rows are read without locks and written back as absolute values;
every document tests its status in a query and acts on it later; a number sequence is locked, but
by way of an object that may be older than the lock; approvals are rows in the very transaction
that a missing approval aborts; cancellation must undo what other documents have built on in the
meantime (collections, returns, moved averages, closed periods, switched-off posting).
`PROJECT.json` lists each hazard at its line with the properties that watch it.

## The modules

| Module | Models | Notes |
|---|---|---|
| `RunningTotals` | sums over the rows of a table | recursive function, so that it can be proved about |
| `StockBook` | abstract: what inventory promises | quantities only |
| `StockLedger` | `inventory/service.py`, requests served alone | implements `StockBook` |
| `StockSessions` | the same requests as sessions that overlap | cut at peek, read, write, commit |
| `Approvals` | `shared/service.py`, the copy in `accounting/service.py` | every query of an attempt is a step |
| `FiscalCalendar` | years and periods of `accounting/service.py` | |
| `GeneralLedger` | abstract: what double-entry books promise | account totals by date |
| `Journal` | entries, engine, reversals and reports of `accounting/` | extends `FiscalCalendar`, implements `GeneralLedger` |
| `PostingSessions` | posting, cancelling, reversing and closing as sessions that overlap | cut at the document's query, the stock row's lock, the settings query, the period test, the number's lock, commit |
| `Allocation` | the loop that shares a payment, oldest due first | used by the next two |
| `Sales` | `sales/service.py` | composes with `StockLedger` (INSTANCE) |
| `Purchasing` | `purchasing/service.py` | composes with `StockLedger` (INSTANCE) |
| `Organization` | `organization/service.py` | overlapping requests |
| `Access` | users of `auth/` | overlapping requests; users belong to the installation, not to a company |
| `Hierarchies` | categories (`master_data`), accounts and cost centers (`accounting`) | the walk up the tree is one query per row |
| `Catalog` | units and conversions (`master_data`), quantities of invoices and credit notes | |
| `PriceLists` | the default list of `sales/service.py` | every statement of a request is a step |
| `MC...` | bounds and symmetry for TLC | |
| `RunningTotalsTheorems`, `...Proofs` | theorems | |

### How state and actions correspond to the code

Tables are sequences in id order, or functions from a key: `movements[n]` is the `StockMovement`
with id `n`, `balances[s]` the `StockBalance` of a warehouse and product. Columns nothing depends
on (names, notes, audit stamps, text) are left out. Money and quantities are `Numeric` columns:
integers count units of the last decimal place; `Rounded` and `Quantize` round as the column and
the decimal context do.

Movements keep quantities and costs in six decimal places, journal lines amounts in three
(`inventory/models.py:128`, `accounting/models.py:522`). In `Sales` and `Purchasing` quantities
are whole, costs count millionths, and `LineUnit` (1000 in the code) is how many of them make a
unit of a line: `Stored` is what a line holds of a cost, rounded half away from zero as PostgreSQL
does. A cost that is positive but stored as zero violates `ck_jel_exactly_one_side`, and the
request that books it is refused (`Bookable`). An entry keeps the exact cost beside the stored one
as history (`worth`). Prices and amounts of money have three places already.

In `StockLedger`, `FiscalCalendar`, `Journal`, `Sales`, `Purchasing` and `Catalog` one action is
one request served alone, with everything its handler calls: `Sales!PostInvoice` tests the
status, the approvals of every exception it meets and the stock, issues the goods through
`StockLedger!Issue`, links the movement to the line, writes the revenue and the cost entry and the
due date. An approved `NEGATIVE_STOCK` request of the line skips the document's test and is handed
on to the ledger's, as in the code, though nothing under `src` creates such a request.
A refusal raises, the transaction is rolled back, and the request is a stuttering step.
An action's guard is thus the conjunction of the handler's tests, and its primed variables are the
handler's writes.

The other modules cut a request where another can come between.

`StockSessions` cuts it at the query an operation makes before it writes (`Peek`),
`_update_balance`'s read and test (`Read`), the flush (`Write`), which waits for row locks and for
uncommitted unique keys, and `Commit`. A session remembers the rows it read (the ORM's identity
map). `Abort` is PostgreSQL's choice of a deadlock victim, `Disconnect` a lost connection or a
restart at any moment of a request.

`PostingSessions` does the same for what comes after: the document or entry a request opens with,
the stock row it locks, the settings object it loads, the period it tests, the number it draws
under `SELECT FOR UPDATE`, and the commit. A request that loaded its settings before another one
committed keeps that object when it locks the row later, so the number it draws may be given out
already, and the unique index then refuses it (the docstring of `_next_je_number`,
`accounting/service.py:1005`, says "Race-safe sequence via SELECT FOR UPDATE"; what makes it
so is the index). Invoices are created from such an object (`sales/service.py:362`), credit notes
are not. Two postings of one draft issue its goods twice and leave one entry, as the idempotency
key lets the second go in silence.

`Approvals` cuts an attempt at its three queries and a decision at its read and its write.
`KeepsRefusals` says what becomes of a new request when the attempt is refused: `FALSE` is
`get_db`, which rolls it back; `TRUE` is a caller that catches the exception and commits, which
is what `database/seed/seed_sham_land_purchasing.py` and the service tests do.

`Organization` and `Access` cut a request at what it read and at its commit, which writes the
columns whose value it changed; `Hierarchies` cuts a move at every row of its walk up the tree,
`PriceLists` at every statement.

In `Journal` an entry's lines are the accounts they name and the net amount on each; templates and
account resolution are the choice of those lines. In `Sales` and `Purchasing` an entry is what it
leaves on the control accounts, under its idempotency key, and a reversed entry is gone: how
entries are kept and reversed is the `Journal`'s subject. A document has one line, in its
product's base unit, for a request handles all its lines or none; what other units do to it is
`Catalog`'s. `Sales!Supply` and `Purchasing!Sell` stand for the other module, so that averages
move under the documents. History variables and fields (`raced`, `granted`, `named`, `ran`,
`overlapped`, `approvedOnce`, `closedEmpty`, `overtaken`, `late`, `cause`, `disturbed`, `crossed`,
`steppedDown`, `repriced`) are not in the code and no guard reads them.

## What the runs check

All pass runs state `CHECK_DEADLOCK FALSE`: every module bounds its tables, and stops there.

| Run | Bounds | Shows |
|---|---|---|
| `stock_ledger` | 2 warehouses, 1 item, 5 movements | Cache equals ledger (`BalanceMatchesLedger`), transfers conserve and stay paired through reversals from either leg, the average stays within the costs paid and within rounding of a replay (`AverageSound`), and every request is a step of `StockBook`. Five movements hold a receipt, a transfer, and the reversal of the transfer. |
| `stock_sessions` | 2 threads, 2 slots, 3 requests, empty or stocked | The cache of a slot drifts only if a request changed it under an open reader (`DriftNeedsOverlap`); a slot's first row is exact whoever wins the race for it; shortage only under a permitting policy or override; and without overlap the sessions implement `StockBook`. |
| `stock_sessions_live` | as above, 2 requests | Every request ends, opposite transfers included. |
| `stock_drift` | as above, 2 requests | *Violated:* the cache is always the ledger. |
| `approvals` | 2 threads, 2 users, 2 operations, 3 exceptions, 2 requests | An operation runs only with somebody else's approval of every exception it met; with no overlap an exception is asked for once and a decision stands. |
| `approvals_http` | as above | *Violated:* the id a 409 names identifies a request. |
| `records` | see below | Periods tile their year and a closed year stays shut; restoring a unit of the organization brings back exactly what its deletion took; an administrator remains; trees stay trees; returns stay within the delivery up to rounding; a company keeps one default price list. Each with exactly the overlaps that break it. |
| `journal` | 2 accounts, 2 dates, 3 entries, 1 document | The balance sheet balances as of every date and agrees with profit and loss, general ledger and trial balance (`ReportsAgree`), an entry is REVERSED exactly when one entry undoes it, a document's entry stands exactly while the document does, and the journal implements `GeneralLedger`. Three entries hold an entry, its reversal, and the reversal of that. |
| `journal_reports` | as above | *Violated:* the trial balance reports what the books hold. |
| `sales` | 1 slot, 4 movements, 2 invoices, 3 documents, 2 costs (0, and one that rounds), both settings | Collected amounts equal what standing collections gave; the inventory account equals the value of the stock ledger but for the rounding of its lines; the receivable account equals the customer's exposure up to notes, unapplied money and cash sales; returns exceed deliveries only when two notes were drafted together; automatic collections pay the oldest due first. |
| `purchasing` | 1 slot, 4 movements, 3 documents, 2 policies, costs whose averages round | The same for bills and payments (where a bill is never overpaid), and goods arrive only on orders that were approved, unless a receipt's line names another order. |
| `posting_sessions` | 2 threads, 2 invoices of one customer, credit for one, 4 requests, a period that may close | Whatever overlaps, the numbers of entries, invoices and notes have no gap and no duplicate, and every request is answered. Unless two requests met on it: status, goods and books of a document agree, an entry is undone once, the credit limit holds, and nothing is posted into the closed period. |

Each module has one type invariant; where it would be a property of its own it is a conjunct of
another (`CollectedIsAllocated` in `Sales`, `PaidIsApplied` in `Purchasing`, `ReportsAgree` in
`Journal`, which includes the calendar's).

Three documents are enough for two of a kind on one of another (two notes of an invoice, two
payments of a bill, two receipts on an order), which is where the code's tests can be stale. Four
requests on two documents hold two postings of one draft, the cancellation of one, and a reversal
beside them. Larger bounds were run once for the ledger (two costs, four movements) with the same
outcome.

**One run for the records.** The parts `MCRecords` puts side by side share no state, so in one
behaviour only one of them, the `topic`, moves, and the state spaces add up. Its bounds: two years
of fourteen and of two one-day months in 1, 3 or 12 periods, 3 closings; a company with a branch
and two warehouses, 2 codes, 2 threads, 5 requests; 3 users, 2 threads, 5 requests; trees of 3
nodes, 2 threads, 3 moves and 4 other changes, a template whose lines are not in tree order; 3
units, a product first kept in a given one, 2 conversion rules, 3 changes, 3 credit notes on one delivery; 3 price lists, 2 threads, 4
requests. The smallest counterexamples the properties' conditions exclude (two moves that close a
cycle, two administrators who delete each other, two default lists that clear each other) fit
in them with room for a third actor's row.

**Fairness.** `stock_sessions_live` and `RequestsAnswered` need some. `WF` on the steps a thread
takes by itself (`Proceed`): the pool's threads run on. `SF` on the steps that wait for a lock
(`Write`; `Stock` and `Number`): PostgreSQL queues waiters, and a lock is released at the end of each
transaction, so a waiter is enabled again and again until it is granted. `WF` on `Abort`: the
deadlock detector runs after `deadlock_timeout`. `PostingSessions` needs no `Abort`: its locks are
taken in one order, the stock row before the number's, so no sessions wait in a ring (proved:
`NobodyWaitsInARing`; of one product's stock row, as modelled). Nothing is assumed about clients: no
fairness on `Open`, and none on `Disconnect`.

**Findings.** Three runs show where code and documentation part.
`stock_drift`: two overlapping receipts of a slot; the second commit overwrites the first's
quantity (`inventory/service.py:149`), although the row is documented as an atomic cache of the
ledger. `approvals_http`: the refusal that creates a request rolls it back. `journal_reports`:
reports select POSTED entries, so a reversed original vanishes while its reversal stays. (The
reports still agree with each other, which is `ReportsAgree`: they all leave out the same.)

Properties that needed a condition say what the code does not promise:

- `DriftNeedsOverlap`, `AskedOnce`, `DecisionStands`, `DocumentsAgree`, `UndoneOnce`,
  `LimitNeedsOverlap`, `ShutNeedsOverlap`, `CyclesNeedOverlap` hold only where requests do not
  overlap on the rows in question. None of the tests behind them takes a lock.
- `AdministratorRemains` exempts an administrator who demotes or deactivates themselves, which
  `update_user` allows although `delete_user` does not, and two that take powers away at once.
- `DefaultKept` exempts a request that holds its list as the default it is no longer: it finds
  another default, clears that, and writes nothing for its own.
- `ReturnsWithinRounding` exempts a conversion factor that was changed after the delivery, and a
  note created while another was a draft: `_total_returned` (`sales/service.py:907`) counts posted
  notes only, and posting does not test again.
- `ClosedYearIsShut` is about the year's own periods. Years may overlap, and a date of a closed
  year can stay open through a period of another.
- `AverageSound` says nothing of a slot that was ever short.
- `InventoryReconciles` holds only while no slot was ever short (a slot sold short can get a
  negative average, and a sale at a negative cost books no cost entry), and allows half a unit of a
  journal line for every standing entry about goods, because each is rounded by itself.
- The other two `ReturnsWithin...` hold only if drafts do not overlap, `DocumentsBooked` only for
  keys no manual entry has taken.

## What is proved

Every theorem holds for all values of the constants under the assumptions named in the module it
is about, which say what the schemas guarantee (quantities and month lengths are positive, costs
natural, sets of exceptions finite; `StockAssumption` of `Sales` and `Purchasing` is that of the
ledger beneath them), what the encoding of data means (`NetOfLinesAssumption`: an account no line
of an entry names has net 0; `MarkersAssumption`: "no row" and "not read" are not quantities), and that the bounds are naturals. The bounds themselves play no part
in any proof, so a theorem covers any number of rows, documents, sessions and users.

"States" names the property of a run that the theorem states, where the run shows it on a small
instance.

| Module | Theorem (states) | Inductive invariant, and why |
|---|---|---|
| `StockLedgerProofs` | `LedgerTypeOK`, `LedgerLegsPaired`, `LedgerBalanceMatches`, `LedgerImplementsBook` | `IInv == TypeOK /\ LegsPaired /\ BalanceMatchesLedger`. Reversing a transfer reads the sibling through the link, so the quantities need `LegsPaired`; the code's guards read the cached row, so the refinement of `StockBook` needs `BalanceMatchesLedger`. Every action appends no row, one, or two (`StepKinds`). |
| `StockLedgerProofs` | `LedgerTransfersConserve` (`TransfersConserve`) | `ConserveInv`: `IInv`, every reversal points at an earlier row, and the rows of transfers and their reversals net to nothing for every item. Pairs come in together and go together (`LegsPaired`), with opposite quantities. |
| `StockLedgerProofs` | `LedgerAverageSound` (`AverageSound`) | `AverageInv`: where the slot was never short, the cached average is within the costs paid, and within rounding of a replay of the slot's rows. `PricedInv` beside it says that while no slot was ever short, goods move at natural costs; the documents' proofs use that. |
| `ApprovalsProofs` | `RanWasApproved` (`RanWithApproval`) | `ApprovalsInv`: whatever step an attempt has reached, each exception it has passed is in a granted request of another user; a decision under way is not the asker's. |
| `ApprovalsProofs` | `ExceptionsAskedOnce` (`AskedOnce`), `DecisionsStand` (`DecisionStands`) | `AloneInv`: two open requests about one operation are remembered as having raced, and what a session that did not race has read is still what the table holds. |
| `PostingSessionsProofs` | `NumbersStayGapless` (`NumbersGapless`) | `PostingInv`: what a session loaded is at most the last number, so a number that passes the unique index is the next one; the row's lock has one holder, so it still is at the commit. |
| `PostingSessionsProofs` | `NobodyWaitsInARing` | From `PostingInv`: a session that has drawn a number has only its commit left, so whoever holds a settings row waits for nobody, and whoever waits for one waits for nothing else. It is the safety half of `RequestsAnswered`, for any number of threads. |
| `PostingSessionsProofs` | `DocumentsStayAgreed` (`DocumentsAgree`), `EntriesUndoneOnce` (`UndoneOnce`), `LimitStands` (`LimitNeedsOverlap`), `ShutStands` (`ShutNeedsOverlap`) | `OverlapInv`: what an open session read of a document, an entry or the customer is still so, unless the thing is in `raced`; a session opened after the closing carries no entry to post. |
| `JournalProofs` | `ClosedYearStaysShut` (`ClosedYearIsShut`), `CalendarTyped` | A year closed with periods has some, so `generate_periods` adds none; a REOPENED period was approved. |
| `JournalProofs` | `SplitTiles`, `PeriodsTileTheirYear` (`PeriodsTile`) | Both ways of splitting yield boundaries that never step back, with fewer days than parts and with more than twelve months too; each part ends the day before the next begins. No later step changes a date. |
| `JournalProofs` | `EntriesReversedOnce` (`ReversedOnce`), `JournalImplementsLedger` (`ImplementsLedger`) | `JournalInv`: entries are numbered after what they undo, and are REVERSED with exactly one posted entry against them. Every step records, posts or reverses one entry, or leaves the entries alone (`StepKinds`); what that does to the column of each account and date is a step of `GeneralLedger`. |
| `JournalProofs` | `DocumentsInTheBooks` (`DocumentsBooked`) | `BookedInv`: no key belongs to two entries; an entry the engine made under a document's key was posted with the document, and is REVERSED once that is cancelled; a posted document has an entry under its key. |
| `JournalProofs` | `ReportsTellOneStory` (`ReportsAgree`) | `ReportsInv`: every entry that counts balances, has amounts on the accounts its lines name only, and names live accounts only; so the columns of all live accounts sum to nothing on every date, and the four reports are sums of those columns by type. |
| `RecordsProofs` | `AdministratorStays` (`AdministratorRemains`) | `AccessInv`: an open request that takes powers away was started by somebody who still is an administrator, as long as no two crossed. |
| `RecordsProofs` | `DefaultListKept` (`DefaultKept`) | `ListsInv`: at most one list has the flag; a session that takes it over has cleared it, in its own rows, on every other list that had it when it looked, at most one session does so at a time past the unique index, and what a session not overtaken read of its own list still holds. |
| `RecordsProofs` | `RestoringUndoesDeleting` (`RestoresWhatItTook`) | `OrgInv`: where no overlapping request touched a row, its cause is a deletion at or above it that left it cascaded exactly if it was above, what went together is together still, nothing below a live row is marked as taken along by it, and what lies between a deleted company and what went with it went too. So the walk of the restoration, which follows the marks down two levels, meets every row of the deletion. |
| `RecordsProofs` | `TreesStayTrees` (`CyclesNeedOverlap`) | `TreeInv`: what an open walk has read is a path from the new parent up to where it is, not through the node that moves. A cycle is a nonempty set of counted rows with the parents of all; one that a committed move closes contains the new parent, so its part on the walk's path is a smaller one that was there before. Templates: the first of its lines in such a set has a parent before it. |
| `RecordsProofs` | `ReturnsRoundOnly` (`ReturnsWithinRounding`) | `CatalogInv`: while the factor stays, delivery and every posted note are within half a unit of the exact product (`QuantizeNear`), so a bound with half a unit for each conversion is kept, and divided by the divisor in the end. Where no two notes were drafts together, all notes together ask at most what was delivered. |
| `RecordsProofs` | `OverlapsExplainDrift` (`DriftNeedsOverlap`), `FirstRowsExact` (`FirstRowExact`), `ShortagesAllowed` (`ShortageIsAllowed`), `AloneImplementsBook` (`AloneIsBook`) | `SessionsInv`: outside `raced.slots` a row is its ledger, what a session has read and not written is still the row, what it has written is the ledger and its own leg, and the sum a recomputation took is the ledger; a written row has one holder, a slot without a row has not been raced for, and a quantity below zero was computed under a policy, a recomputation or an override that found no row. A commit that overlaps nothing thus changes the ledger by its legs: a `Change` or a `Move` of the book. |
| `SalesProofs` | `SalesCollectAllocated` (`CollectedIsAllocated`), `SalesOldestFirst` (`OldestFirst`) | `TypeInv`, `CollectedInv`: the lines of a collection name invoices that exist, so an invoice collects what the standing lines give it and a cancellation takes back what was added. That the sharing loop leaves nothing older open is `SharesInOrder`. |
| `SalesProofs` | `SalesReturnsWithinDelivered` (`ReturnsWithinDelivered`) | `AskedInv`: what all notes of an invoice ask, drafts included, exceeds the delivery only if two were drafts together. |
| `SalesProofs` | `SalesInventoryReconciles` (`InventoryReconciles`) | `BooksInv`: every entry is that of a document that stands, every standing invoice has its entries under its keys at the cost of its movement, and while no slot was short the entries are worth, before rounding, what the ledger is; so a cancellation finds the entries to take back, and returns the goods at the cost they left with. A line is within half a unit of its entry's worth (`StoredNear`) and not zero when that is not, so the account is within half a unit for each (`SumsNear`). |
| `SalesProofs` | `SalesReceivablesExplained` (`ReceivablesExplained`) | `ReceivableInv`: the account is what invoices claim less what notes credit and collections leave unapplied. |
| `PurchasingProofs` | `PurchasingPaidApplied` (`PaidIsApplied`) | `TypeInv`, `PaidInv`, as for collections; applying money is refused beyond what is open, so no bill is overpaid, and a bill is PAID exactly when nothing is open. |
| `PurchasingProofs` | `PurchasingOrdersApproved` (`OrdersApprovedFirst`) | `OrdersInv`: a receipt's order was approved when the receipt was created; an order that counts goods was approved, or the receipt of another order named its line; its status says how much of it came. |
| `PurchasingProofs` | `PurchasingReturnsWithinReceived` (`ReturnsWithinReceived`) | `AskedInv`, as for notes. |
| `PurchasingProofs` | `PurchasingInventoryReconciles` (`InventoryReconciles`), `PurchasingPayablesExplained` (`PayablesExplained`) | `BooksInv`: what a standing document is worth on an account is entered under its key; goods are worth, before rounding, what the ledger is; the payable account is what bills claim less what payments leave unapplied. |
| `RunningTotalsTheorems` | `TotalType`, `TotalStep`, `TotalChange`, `RunningTotalAgrees`, `SumOfAdd`, `SharesInOrder`, lemma `SumsNear` | What a sum over a table or a set of keys does when a row is added or changed, and what the loop over the oldest documents gives, by least counterexample: a rule of induction with a predicate as parameter is out of the provers' reach. |

**The argument for the documents.** `SalesProofs` and `PurchasingProofs` go the same way. Each
action is a composition of the stock ledger, the entries and the document tables, so it is reduced
three times: an `...Effect` lemma says what it does to the rows and which ledger action it
contains, a `...Books` lemma what it posts under which keys, a `...Net` lemma by how much the
documents' claims move. The invariants are then shown from these alone. What a movement does to
quantities, averages and worth is not proved again: `Ledger == INSTANCE StockLedgerProofs` gives
the ledger's lemmas for the same three variables, and `SameLedger` identifies its actions with
those of the `Stock` the module runs on. Cancelling is where the invariants earn their place: it
must find the entries the posting made, though averages have moved, settings changed and other
documents were built on it since.

**Only model-checked.**

- Liveness (`stock_sessions_live`, `RequestsAnswered`): TLAPS does not handle it.
- The three violated properties, which have counterexamples in place of proofs.

## Not modelled

- Batches as rows of their own, expiry and FEFO queries: a batch makes a slot finer, and the
  queries change nothing.
- Roles, permissions and branch assignments (single-row updates behind one guard each), passwords
  and tokens (library code).
- Customers, suppliers, salesmen and price fields: single-row create, update and soft delete.
- Versions of posting templates and the resolution of their selectors, abstracted to the lines
  they yield; taxes and the prices themselves, which enter the documents as amounts.
- The HTTP layer and its schemas, whose bounds are the constants' assumptions; migrations and
  seeds, whose unique keys and checks the models use; the frontend; deployment.
- The free-standing reversal endpoint on the movement of a posted document
  (`inventory/service.py:489`): `Sales` and `Purchasing` reverse movements through documents only.

`PROJECT.json` gives the reason for each component.

## Plan

1. `Sales` and `Purchasing` with the free-standing reversal of a document's movement, and what of
   `InventoryReconciles` survives it.
2. Versions of posting templates: an entry made under one version, reversed under another.
