---------------------------- MODULE SalesProofs ----------------------------
(***************************************************************************)
(* Proofs about Sales, for every set of requests, settings and credit      *)
(* limit and for documents in every order:                                 *)
(*   - what an invoice has collected is what the standing collections give *)
(*     it, and automatic collections pay the oldest invoice first;         *)
(*   - no more comes back than was delivered, but for overlapping notes;   *)
(*   - the inventory account is the worth of the stock ledger, but for the *)
(*     rounding of its lines;                                              *)
(*   - the receivable account is the customer's exposure, less what notes, *)
(*     cash sales and money that is not applied account for.               *)
(*                                                                         *)
(* Every action is first reduced to what it does to the rows and to the    *)
(* ledger (the ...Effect lemmas), then to what it posts (the ...Books      *)
(* lemmas) and to what the documents make of it (the ...Net lemmas); the   *)
(* invariants use only those.  The facts about the ledger are those of     *)
(* StockLedgerProofs, about the same three variables.                      *)
(***************************************************************************)
EXTENDS Sales, RunningTotalsTheorems, SequenceTheorems

Ledger == INSTANCE StockLedgerProofs

-----------------------------------------------------------------------------
(* The stock ledger under the documents                                    *)

\* What StockLedgerProofs shows of the ledger is about the same ledger.
LEMMA SameLedger ==
  /\ \A s, q, c : Stock!Receive(s, q, c) <=> Ledger!Receive(s, q, c)
  /\ \A s, q, a : Stock!Issue(s, q, a) <=> Ledger!Issue(s, q, a)
  /\ \A n : Stock!Reverse(n) <=> Ledger!Reverse(n)
<1>1. \A m : Stock!Post(m) <=> Ledger!Post(m)
  BY DEF Stock!Post, Stock!Updated, Stock!NewAverage, Stock!Rounded,
         Ledger!Post, Ledger!Updated, Ledger!NewAverage, Ledger!Rounded
<1>2. \A m, n : Stock!PostPair(m, n) <=> Ledger!PostPair(m, n)
  BY DEF Stock!PostPair, Stock!Updated, Stock!NewAverage, Stock!Rounded,
         Ledger!PostPair, Ledger!Updated, Ledger!NewAverage, Ledger!Rounded
<1>3. \A row, d, a : Stock!MayApply(row, d, a) <=> Ledger!MayApply(row, d, a)
  BY DEF Stock!MayApply, Ledger!MayApply
<1>4. \A n : Stock!ReversalOf(n) = Ledger!ReversalOf(n)
  BY DEF Stock!ReversalOf, Ledger!ReversalOf
<1>5. \A s, q, c : Stock!Receive(s, q, c) <=> Ledger!Receive(s, q, c)
  BY <1>1, <1>3, Zenon DEF Stock!Receive, Ledger!Receive
<1>6. \A s, q, a : Stock!Issue(s, q, a) <=> Ledger!Issue(s, q, a)
  BY <1>1, <1>3, Zenon DEF Stock!Issue, Ledger!Issue
<1>7. \A n : Stock!Reverse(n) <=> Ledger!Reverse(n)
  BY <1>1, <1>2, <1>3, <1>4, Zenon DEF Stock!Reverse, Ledger!Reverse
<1>8. QED
  BY <1>5, <1>6, <1>7

\* And so are its properties.
LEMMA SameShort ==
  /\ Stock!TypeOK <=> Ledger!TypeOK
  /\ (\A s \in Slots : ~Stock!EverShort(s)) <=> Ledger!NeverShort
  /\ [n \in 1..Len(movements) |-> movements[n].qty * movements[n].cost] = Ledger!Worth(movements)
  /\ \A f, n : Ledger!Total(f, n) = Total(f, n)
  /\ Ledger!Slots = Slots
<1>1. Stock!TypeOK <=> Ledger!TypeOK
  BY Zenon DEF Stock!TypeOK, Stock!Movement, Stock!MovementTypes, Stock!Slots, Stock!Row,
     Ledger!TypeOK, Ledger!Movement, Ledger!MovementTypes, Ledger!Slots, Ledger!Row
<1>2. \A f, n : Ledger!Total(f, n) = Total(f, n) /\ Stock!Total(f, n) = Total(f, n)
  BY Zenon DEF Ledger!Total, Ledger!RunningTotal, Stock!Total, Stock!RunningTotal, Total, RunningTotal
<1>3. (\A s \in Slots : ~Stock!EverShort(s)) <=> Ledger!NeverShort
  BY Zenon DEF Stock!EverShort, Stock!LedgerQty, Stock!Contribution, Stock!Total, Stock!RunningTotal,
     Ledger!NeverShort, Ledger!EverShort, Ledger!LedgerQty, Ledger!Contribution, Ledger!Total, Ledger!RunningTotal, Ledger!Slots, Slots
<1>4. QED
  BY <1>1, <1>2, <1>3, Zenon DEF Ledger!Worth, Ledger!Slots, Slots

\* A step of the ledger that leaves its rows and adds rows worth d.
Moves(d) ==
    /\ Ledger!PricedInv'
    /\ Len(movements') \in Nat /\ Len(movements') >= Len(movements)
    /\ \A k \in 1..Len(movements) : movements'[k] = movements[k]
    /\ Ledger!Value(movements') = Ledger!Value(movements) + d
    /\ Ledger!NeverShort' => Ledger!NeverShort

\* The ledger's state, in the names of Sales.
LEMMA LedgerState ==
  ASSUME Ledger!PricedInv
  PROVE  /\ Len(movements) \in Nat
         /\ \A k \in 1..Len(movements) : movements[k].qty \in Int /\ movements[k].cost \in Int
         /\ Ledger!NeverShort => \A k \in 1..Len(movements) : movements[k].cost >= 0
         /\ \A s \in Slots : balances[s].avg \in Int /\ (Ledger!NeverShort => balances[s].avg >= 0)
         /\ Ledger!Value(movements) \in Int
<1>1. /\ Len(movements) \in Nat /\ Ledger!Value(movements) \in Int
      /\ \A k \in 1..Len(movements) : movements[k] \in Ledger!Movement
      /\ \A s \in Slots : balances[s].avg \in Int
  BY Ledger!PricedRows, StockAssumption, SameShort
<1>2. \A k \in 1..Len(movements) : movements[k].qty \in Int /\ movements[k].cost \in Int
  BY <1>1 DEF Ledger!Movement
<1>3. Ledger!NeverShort => \A k \in 1..Len(movements) : movements[k].cost >= 0
  BY DEF Ledger!PricedInv
<1>4. Ledger!NeverShort => \A s \in Slots : balances[s].avg >= 0
  BY Ledger!PricedAverages, StockAssumption, SameShort
<1>5. QED
  BY <1>1, <1>2, <1>3, <1>4

\* Nothing moves.
LEMMA StockStays ==
  ASSUME Ledger!PricedInv, UNCHANGED stock
  PROVE  Moves(0)
<1>1. UNCHANGED Ledger!vars
  BY DEF stock, Ledger!vars
<1>2. Ledger!PricedInv' /\ (Ledger!NeverShort' <=> Ledger!NeverShort)
  BY <1>1, Ledger!PricedStays, StockAssumption
<1>3. movements' = movements
  BY DEF stock
<1>4. Ledger!Value(movements) \in Int /\ Len(movements) \in Nat
  BY LedgerState
<1>5. QED
  BY <1>2, <1>3, <1>4 DEF Moves

\* One row moves what it says.
LEMMA RowMoves ==
  ASSUME Ledger!PricedInv, NEW m, Ledger!OneRow(m), Ledger!NeverShort => m.cost >= 0
  PROVE  /\ Moves(m.qty * m.cost)
         /\ Len(movements') = Len(movements) + 1 /\ movements'[Len(movements) + 1] = m
<1>1. Len(movements) \in Nat
  BY LedgerState
<1>2. /\ Ledger!PricedInv'
      /\ Len(movements') = Len(movements) + 1
      /\ \A k \in 1..Len(movements) : movements'[k] = movements[k]
      /\ movements'[Len(movements) + 1] = m
      /\ Ledger!Value(movements') = Ledger!Value(movements) + m.qty * m.cost
      /\ Ledger!NeverShort' => Ledger!NeverShort
  BY Ledger!RowPriced, StockAssumption
<1>3. QED
  BY <1>1, <1>2 DEF Moves

\* Goods come in at a cost.
LEMMA ReceiveMoves ==
  ASSUME Ledger!PricedInv, NEW s \in Slots, NEW q \in Nat \ {0}, NEW c \in Int,
         Ledger!NeverShort => c >= 0, Stock!Receive(s, q, c)
  PROVE  Moves(q * c) /\ Len(movements') = Len(movements) + 1
<1>1. Ledger!OneRow(Ledger!ReceiptRow(s, q, c))
  BY SameLedger, SameShort, Ledger!DocumentRows, StockAssumption
<1>2. Ledger!ReceiptRow(s, q, c).qty = q /\ Ledger!ReceiptRow(s, q, c).cost = c
  BY DEF Ledger!ReceiptRow
<1>3. QED
  BY <1>1, <1>2, RowMoves

\* Goods leave at their average.
LEMMA IssueMoves ==
  ASSUME Ledger!PricedInv, NEW s \in Slots, NEW q \in Nat \ {0}, NEW a, Stock!Issue(s, q, a)
  PROVE  /\ Moves((-q) * balances[s].avg)
         /\ Len(movements') = Len(movements) + 1
         /\ LET r == movements'[Len(movements) + 1]
            IN  r.slot = s /\ r.qty = -q /\ r.cost = balances[s].avg /\ r.link = "none"
<1>1. Ledger!OneRow(Ledger!IssueRow(s, q))
  BY SameLedger, SameShort, Ledger!DocumentRows, StockAssumption
<1>2. /\ Ledger!IssueRow(s, q).qty = -q /\ Ledger!IssueRow(s, q).cost = balances[s].avg
      /\ Ledger!IssueRow(s, q).slot = s /\ Ledger!IssueRow(s, q).link = "none"
  BY DEF Ledger!IssueRow
<1>3. Ledger!NeverShort => balances[s].avg >= 0
  BY LedgerState
<1>4. QED
  BY <1>1, <1>2, <1>3, RowMoves

\* A row is taken back as it was written.
LEMMA ReverseMoves ==
  ASSUME Ledger!PricedInv, NEW n \in 1..Len(movements), movements[n].link # "inventory_transfer",
         Stock!Reverse(n)
  PROVE  Moves((-movements[n].qty) * movements[n].cost)
<1>1. Ledger!OneRow(Ledger!ReversalOf(n))
  BY SameLedger, Ledger!DocumentRows, StockAssumption
<1>2. /\ Ledger!ReversalOf(n).qty = -movements[n].qty
      /\ Ledger!ReversalOf(n).cost = movements[n].cost
  BY DEF Ledger!ReversalOf
<1>3. Ledger!NeverShort => movements[n].cost >= 0
  BY LedgerState
<1>4. QED
  BY <1>1, <1>2, <1>3, RowMoves

-----------------------------------------------------------------------------
(* Types                                                                   *)

\* The row of the ledger at which invoice n's goods left, which a standing invoice has, is
\* that of its line and belongs to no transfer.
IssueFine(n) ==
    /\ invoices[n].issue \in 0..Len(movements)
    /\ invoices[n].status \in {"POSTED", "COLLECTED"} => invoices[n].issue # 0
    /\ invoices[n].issue # 0 =>
          LET r == movements[invoices[n].issue]
          IN  /\ r.slot = invoices[n].line.slot
              /\ r.qty = -invoices[n].line.qty
              /\ r.link = "none"

IssueInv == \A n \in 1..Len(invoices) : IssueFine(n)

\* A note is about an invoice whose goods left.
NoteFine(m) ==
    /\ notes[m].invoice \in 1..Len(invoices)
    /\ invoices[notes[m].invoice].issue # 0

NotesInv == \A m \in 1..Len(notes) : NoteFine(m)

\* A collection names no invoice that does not exist.
LinesInv == \A c \in 1..Len(collections) : Len(collections[c].lines) <= Len(invoices)

\* An entry's lines hold its worth to the nearest unit, and something when it is worth
\* anything.
Entry == {e \in [receivable: Int, inventory: Int, worth: Int] :
             /\ e.inventory = Stored(e.worth)
             /\ e.worth # 0 => e.inventory # 0}

BooksTyped == \A k \in DOMAIN books : books[k] \in Entry

TypeInv ==
    /\ TypeOK
    /\ BooksTyped
    /\ Ledger!PricedInv
    /\ IssueInv
    /\ NotesInv
    /\ LinesInv
    /\ policy \in Policies

\* What the rows hold.
LEMMA RowFacts ==
  ASSUME TypeInv
  PROVE  /\ Len(invoices) \in Nat /\ Len(notes) \in Nat /\ Len(collections) \in Nat
         /\ \A n \in 1..Len(invoices) :
               /\ invoices[n] \in Invoice
               /\ invoices[n].line \in Payload
               /\ invoices[n].collected \in Int /\ invoices[n].due \in Nat
               /\ invoices[n].issue \in 0..Len(movements)
         /\ \A m \in 1..Len(notes) :
               /\ notes[m] \in Note
               /\ notes[m].invoice \in 1..Len(invoices) /\ notes[m].qty \in Nat \ {0}
         /\ \A c \in 1..Len(collections) :
               /\ collections[c] \in Collection
               /\ collections[c].amount \in Nat \ {0} /\ collections[c].lines \in Seq(Nat)
               /\ \A n \in Nat \ {0} : Line(c, n) \in Nat
<1>1. /\ Len(invoices) \in Nat /\ Len(notes) \in Nat /\ Len(collections) \in Nat
      /\ \A n \in 1..Len(invoices) : invoices[n] \in Invoice
      /\ \A m \in 1..Len(notes) : notes[m] \in Note
      /\ \A c \in 1..Len(collections) : collections[c] \in Collection
  BY LenProperties, ElementOfSeq DEF TypeInv, TypeOK
<1>2. \A n \in 1..Len(invoices) :
          /\ invoices[n].line \in Payload
          /\ invoices[n].collected \in Int /\ invoices[n].due \in Nat
          /\ invoices[n].issue \in 0..Len(movements)
  BY <1>1 DEF Invoice, TypeInv, TypeOK
<1>3. \A m \in 1..Len(notes) : notes[m].invoice \in 1..Len(invoices) /\ notes[m].qty \in Nat \ {0}
  BY <1>1 DEF Note, TypeInv, TypeOK
<1>4. \A c \in 1..Len(collections) :
          collections[c].amount \in Nat \ {0} /\ collections[c].lines \in Seq(Nat)
  BY <1>1 DEF Collection
<1>5. \A c \in 1..Len(collections) : \A n \in Nat \ {0} : Line(c, n) \in Nat
  <2> SUFFICES ASSUME NEW c \in 1..Len(collections), NEW n \in Nat \ {0} PROVE Line(c, n) \in Nat
    OBVIOUS
  <2>1. collections[c].lines \in Seq(Nat)
    BY <1>4
  <2>2. n <= Len(collections[c].lines) => n \in 1..Len(collections[c].lines)
    BY <2>1
  <2>3. QED
    BY <2>1, <2>2, ElementOfSeq DEF Line, LineOf
<1>6. QED
  BY <1>1, <1>2, <1>3, <1>4, <1>5

\* The line of an invoice.
LEMMA LineFacts ==
  ASSUME TypeInv, NEW n \in 1..Len(invoices)
  PROVE  /\ invoices[n].line.slot \in Slots /\ invoices[n].line.qty \in Nat \ {0}
         /\ invoices[n].line.price \in Nat /\ invoices[n].line.discount \in Nat
         /\ GrandTotal(n) \in Int
<1>1. invoices[n].line \in Payload
  BY RowFacts
<1>2. /\ invoices[n].line.slot \in Slots /\ invoices[n].line.qty \in Nat \ {0}
      /\ invoices[n].line.price \in Nat /\ invoices[n].line.discount \in Nat
  BY <1>1, Zenon DEF Payload
<1>3. \A x, y, z \in Nat : x * y - z \in Int
  BY SMT
<1>4. QED
  BY <1>2, <1>3 DEF GrandTotal

\* It takes this to keep the types.
LEMMA TypeKept ==
  ASSUME TypeInv,
         invoices' \in Seq(Invoice), notes' \in Seq(Note), collections' \in Seq(Collection),
         policy' = policy, BooksTyped', NEW d, Moves(d),
         \A n \in 1..Len(invoices') : IssueFine(n)',
         \A m \in 1..Len(notes') : NoteFine(m)',
         \A c \in 1..Len(collections') : Len(collections'[c].lines) <= Len(invoices')
  PROVE  TypeInv'
<1>1. Ledger!PricedInv'
  BY DEF Moves
<1>2. Ledger!TypeOK'
  BY <1>1 DEF Ledger!PricedInv, Ledger!AverageInv, Ledger!IInv
<1>3. Stock!TypeOK'
  BY <1>2, Zenon DEF Stock!TypeOK, Stock!Movement, Stock!MovementTypes, Stock!Slots, Stock!Row,
     Ledger!TypeOK, Ledger!Movement, Ledger!MovementTypes, Ledger!Slots, Ledger!Row
<1>4. TypeOK'
  BY <1>3 DEF TypeOK, IssueFine, NoteFine, BooksTyped, Entry
<1>5. QED
  BY <1>1, <1>4 DEF TypeInv, IssueInv, NotesInv, LinesInv

\* An invoice that keeps its line and its goods' row keeps the row's facts.
LEMMA IssueStays ==
  ASSUME TypeInv, NEW d, Moves(d), NEW n \in 1..Len(invoices),
         invoices'[n].line = invoices[n].line, invoices'[n].issue = invoices[n].issue,
         invoices'[n].status \in {"POSTED", "COLLECTED"} => invoices[n].issue # 0
  PROVE  IssueFine(n)'
<1>1. IssueFine(n) /\ Len(movements) \in Nat
  BY LedgerState DEF TypeInv, IssueInv
<1>2. invoices[n].issue # 0 => invoices[n].issue \in 1..Len(movements)
  BY <1>1 DEF IssueFine
<1>3. invoices[n].issue # 0 => movements'[invoices[n].issue] = movements[invoices[n].issue]
  BY <1>2 DEF Moves
<1>4. invoices[n].issue \in 0..Len(movements')
  BY <1>1 DEF IssueFine, Moves
<1>5. QED
  BY <1>1, <1>3, <1>4 DEF IssueFine

\* A stored cost is the nearest unit, on either side of zero.
LEMMA StoredNear ==
  /\ Stored(0) = 0
  /\ \A c \in Int :
        /\ Stored(c) \in Int /\ Stored(-c) = -Stored(c)
        /\ -LineUnit <= 2 * (LineUnit * Stored(c) - c)
        /\ 2 * (LineUnit * Stored(c) - c) <= LineUnit
<1>1. LineUnit \in Int /\ LineUnit > 0 /\ LineUnit \in Int \ {0}
  BY LineUnitAssumption
<1>2. \A c \in Int : Stored(c) = Ledger!Rounded(c, LineUnit)
  BY DEF Stored, Stock!Rounded, Ledger!Rounded
<1>3. \A c \in Int :
        /\ Stored(c) \in Int
        /\ 2 * (Stored(c) * LineUnit - c) <= LineUnit
        /\ 2 * (c - Stored(c) * LineUnit) <= LineUnit
  BY <1>1, <1>2, Ledger!RoundedNear, StockAssumption
<1>4. \A c \in Int : Stored(c) = IF c >= 0 THEN (2 * c + LineUnit) \div (2 * LineUnit)
                                 ELSE -((LineUnit - 2 * c) \div (2 * LineUnit))
  BY <1>1 DEF Stored, Stock!Rounded
<1>5. Stored(0) = 0
  <2>1. LineUnit \div (2 * LineUnit) = 0
    BY <1>1, SMT
  <2>2. QED
    BY <1>1, <1>4, <2>1
<1>6. ASSUME NEW c \in Int PROVE Stored(-c) = -Stored(c)
  <2>1. CASE c = 0
    BY <1>5, <2>1
  <2>2. CASE c > 0
    <3>1. Stored(c) = (2 * c + LineUnit) \div (2 * LineUnit)
      BY <1>4, <2>2
    <3>2. Stored(-c) = -((LineUnit - 2 * (-c)) \div (2 * LineUnit))
      BY <1>4, <2>2
    <3>3. LineUnit - 2 * (-c) = 2 * c + LineUnit
      BY <1>1, SMT
    <3>4. QED
      BY <3>1, <3>2, <3>3
  <2>3. CASE c < 0
    <3>1. Stored(-c) = (2 * (-c) + LineUnit) \div (2 * LineUnit)
      BY <1>4, <2>3
    <3>2. Stored(c) = -((LineUnit - 2 * c) \div (2 * LineUnit))
      BY <1>4, <2>3
    <3>3. LineUnit - 2 * c = 2 * (-c) + LineUnit
      BY <1>1, SMT
    <3>4. Stored(-c) \in Int
      BY <1>3
    <3>5. Stored(c) = -Stored(-c)
      BY <3>1, <3>2, <3>3
    <3>6. QED
      BY <3>4, <3>5
  <2>4. QED
    BY <2>1, <2>2, <2>3
<1>7. ASSUME NEW c \in Int
      PROVE  /\ -LineUnit <= 2 * (LineUnit * Stored(c) - c)
             /\ 2 * (LineUnit * Stored(c) - c) <= LineUnit
  <2> DEFINE z == Stored(c)
  <2>1. z \in Int /\ 2 * (z * LineUnit - c) <= LineUnit /\ 2 * (c - z * LineUnit) <= LineUnit
    BY <1>3
  <2> HIDE DEF z
  <2>2. z * LineUnit = LineUnit * z /\ LineUnit * z \in Int
    BY <1>1, <2>1, SMT
  <2>3. QED
    BY <1>1, <2>1, <2>2 DEF z
<1>8. QED
  BY <1>3, <1>5, <1>6, <1>7

\* What is booked is an entry, where its lines hold anything it is worth.
LEMMA BookingTyped ==
  ASSUME NEW r \in Int, NEW c \in Int, c # 0 => Stored(c) # 0
  PROVE  Booking(r, c) \in Entry
BY StoredNear DEF Booking, Entry

\* Goods that are bookable leave something in their lines, whichever way they go.
LEMMA BookableStored ==
  ASSUME NEW c \in Int, Bookable(c), policy.autoPosting, c > 0, NEW w \in {-1, 1}
  PROVE  w * c \in Int /\ Stored(w * c) # 0
<1>1. Stored(c) > 0 /\ Stored(c) \in Int /\ Stored(-c) = -Stored(c)
  BY StoredNear DEF Bookable
<1>2. CASE w = 1
  BY <1>1, <1>2
<1>3. CASE w = -1
  <2>1. w * c = -c
    BY <1>3
  <2>2. QED
    BY <1>1, <2>1
<1>4. QED
  BY <1>2, <1>3

\* What is published and what is taken back are entries.
LEMMA PublishedTyped ==
  ASSUME TypeInv, NEW entries, policy.autoPosting => \A k \in DOMAIN entries : entries[k] \in Entry,
         Published(entries)
  PROVE  BooksTyped'
<1>1. CASE policy.autoPosting
  BY <1>1 DEF Published, BooksTyped, TypeInv
<1>2. CASE ~policy.autoPosting
  BY <1>2 DEF Published, BooksTyped, TypeInv
<1>3. QED
  BY <1>1, <1>2

\* Taking entries back leaves typed ones.
LEMMA UnpublishedTyped ==
  ASSUME TypeInv, NEW ks, Unpublished(ks)
  PROVE  BooksTyped'
BY DEF Unpublished, BooksTyped, TypeInv

\* A document's entries are.
LEMMA DocumentTyped ==
  ASSUME NEW kind, NEW n, NEW r \in Int, NEW c \in Int, NEW w \in {-1, 1},
         Bookable(c), policy.autoPosting
  PROVE  \A k \in DOMAIN DocumentEntries(kind, n, r, c, w) :
            DocumentEntries(kind, n, r, c, w)[k] \in Entry
<1>1. Booking(r, 0) \in Entry
  BY BookingTyped
<1>2. c > 0 => Booking(0, w * c) \in Entry
  BY BookableStored, BookingTyped
<1>3. <<kind, n>> # <<kind, n, "cogs">>
  <2>1. Len(<<kind, n>>) = 2 /\ Len(<<kind, n, "cogs">>) = 3
    OBVIOUS
  <2>2. QED
    BY <2>1
<1>4. QED
  BY <1>1, <1>2, <1>3, Zenon DEF DocumentEntries

\* One row of the invoices changes.
LEMMA InvoiceSet ==
  ASSUME TypeInv, NEW n \in 1..Len(invoices), NEW i \in Invoice,
         invoices' = [invoices EXCEPT ![n] = i]
  PROVE  /\ invoices' \in Seq(Invoice) /\ Len(invoices') = Len(invoices)
         /\ invoices'[n] = i
         /\ \A k \in 1..Len(invoices) : k # n => invoices'[k] = invoices[k]
<1>1. invoices \in Seq(Invoice)
  BY DEF TypeInv, TypeOK
<1>2. QED
  BY <1>1, ExceptSeq

\* What posting an invoice does to the rows and to the ledger.
LEMMA PostInvoiceEffect ==
  ASSUME TypeInv, NEW n \in 1..Len(invoices), NEW due \in DueDates, PostInvoice(n, due)
  PROVE  /\ invoices' \in Seq(Invoice) /\ Len(invoices') = Len(invoices)
         /\ invoices'[n].line = invoices[n].line /\ invoices'[n].status = "POSTED"
         /\ invoices'[n].collected = invoices[n].collected
         /\ invoices'[n].issue = Len(movements) + 1
         /\ \A k \in 1..Len(invoices) : k # n => invoices'[k] = invoices[k]
         /\ Moves((-invoices[n].line.qty) * balances[invoices[n].line.slot].avg)
         /\ movements'[Len(movements) + 1].cost = balances[invoices[n].line.slot].avg
         /\ TypeInv'
<1> DEFINE i == [line |-> invoices[n].line, status |-> "POSTED",
                 collected |-> invoices[n].collected, due |-> due, issue |-> Len(movements) + 1]
           line == invoices[n].line
           d == (-line.qty) * balances[line.slot].avg
<1>1. Ledger!PricedInv /\ Len(movements) \in Nat /\ \A s \in Slots : balances[s].avg \in Int
  BY LedgerState DEF TypeInv
<1>2. line.slot \in Slots /\ line.qty \in Nat \ {0} /\ GrandTotal(n) \in Int
  BY LineFacts
<1>3. Stock!Issue(line.slot, line.qty, <<"NEGATIVE_STOCK", n>> \in approved)
  BY DEF PostInvoice
<1>4. /\ Moves(d) /\ Len(movements') = Len(movements) + 1
      /\ LET r == movements'[Len(movements) + 1]
         IN  r.slot = line.slot /\ r.qty = -line.qty /\ r.cost = balances[line.slot].avg /\ r.link = "none"
  BY <1>1, <1>2, <1>3, IssueMoves
<1>5. i \in Invoice
  <2>1. invoices[n].line \in Payload /\ invoices[n].collected \in Int
    BY RowFacts
  <2>2. due \in Nat /\ Len(movements) + 1 \in Nat
    BY <1>1, AmountsAssumption
  <2>3. QED
    BY <2>1, <2>2 DEF Invoice
<1>6. invoices' = [invoices EXCEPT ![n] = i]
  <2> DEFINE r == invoices[n]
             a == [r EXCEPT !.status = "POSTED"]
             b == [a EXCEPT !.due = due]
             c == [b EXCEPT !.issue = Len(movements) + 1]
             f == [invoices EXCEPT ![n] = a]
             g == [f EXCEPT ![n] = [f[n] EXCEPT !.due = due]]
             h == [g EXCEPT ![n] = [g[n] EXCEPT !.issue = Len(movements) + 1]]
  <2>1. invoices[n] \in Invoice /\ DOMAIN invoices = 1..Len(invoices)
    BY RowFacts, LenProperties DEF TypeInv, TypeOK
  <2>2. invoices' = h
    BY DEF PostInvoice
  <2>3. c = i
    <3>1. a = [line |-> r.line, status |-> "POSTED", collected |-> r.collected, due |-> r.due,
               issue |-> r.issue]
      BY <2>1 DEF Invoice
    <3> HIDE DEF a
    <3>2. b = [line |-> r.line, status |-> "POSTED", collected |-> r.collected, due |-> due,
               issue |-> r.issue]
      BY <3>1
    <3> HIDE DEF b
    <3>3. QED
      BY <3>2
  <2> HIDE DEF a, b, c, i
  <2>4. f[n] = a
    BY <2>1
  <2>5. g = [f EXCEPT ![n] = b]
    BY <2>4 DEF b
  <2> HIDE DEF f, g
  <2>6. g[n] = b
    BY <2>1, <2>5 DEF f
  <2>7. h = [g EXCEPT ![n] = c]
    BY <2>6 DEF c
  <2>8. h = [invoices EXCEPT ![n] = c]
    BY <2>1, <2>5, <2>7, Zenon DEF f
  <2>9. QED
    BY <2>2, <2>3, <2>8
<1> HIDE DEF i, d
<1>7. /\ invoices' \in Seq(Invoice) /\ Len(invoices') = Len(invoices)
      /\ invoices'[n] = i
      /\ \A k \in 1..Len(invoices) : k # n => invoices'[k] = invoices[k]
  BY <1>5, <1>6, InvoiceSet
<1>8. UNCHANGED <<notes, collections, approved, policy>>
  BY DEF PostInvoice
<1>9. BooksTyped'
  <2>1. line.qty * balances[line.slot].avg \in Int
    <3>1. \A x, y \in Int : x * y \in Int
      BY SMT
    <3>2. QED
      BY <1>1, <1>2, <3>1
  <2>2. (IF line.terms = "CREDIT" THEN GrandTotal(n) ELSE 0) \in Int
    BY <1>2
  <2>3. Published(DocumentEntries("invoice", n, IF line.terms = "CREDIT" THEN GrandTotal(n) ELSE 0,
                                  line.qty * balances[line.slot].avg, -1))
    BY DEF PostInvoice
  <2>4. Bookable(line.qty * balances[line.slot].avg)
    BY DEF PostInvoice
  <2>5. QED
    BY <2>1, <2>2, <2>3, <2>4, DocumentTyped, PublishedTyped
<1>10. \A k \in 1..Len(invoices') : IssueFine(k)'
  <2> SUFFICES ASSUME NEW k \in 1..Len(invoices) PROVE IssueFine(k)'
    BY <1>7
  <2>1. CASE k = n
    BY <2>1, <1>1, <1>4, <1>7 DEF IssueFine, i
  <2>2. CASE k # n
    <3>1. invoices'[k] = invoices[k] /\ IssueFine(k)
      BY <2>2, <1>7 DEF TypeInv, IssueInv
    <3>2. QED
      BY <3>1, <1>4, IssueStays DEF IssueFine
  <2>3. QED
    BY <2>1, <2>2
<1>11. \A m \in 1..Len(notes') : NoteFine(m)'
  <2> SUFFICES ASSUME NEW m \in 1..Len(notes) PROVE NoteFine(m)'
    BY <1>8
  <2>1. NoteFine(m) /\ notes' = notes
    BY <1>8 DEF TypeInv, NotesInv
  <2>2. i.issue # 0
    BY <1>1 DEF i
  <2>3. QED
    BY <1>7, <2>1, <2>2 DEF NoteFine
<1>12. TypeInv'
  <2>1. notes' \in Seq(Note) /\ collections' \in Seq(Collection)
        /\ \A c \in 1..Len(collections') : Len(collections'[c].lines) <= Len(invoices')
    BY <1>7, <1>8 DEF TypeInv, TypeOK, LinesInv
  <2>2. QED
    BY <1>4, <1>7, <1>8, <1>9, <1>10, <1>11, <2>1, TypeKept
<1>13. QED
  <2>1. /\ i.line = line /\ i.status = "POSTED" /\ i.collected = invoices[n].collected
        /\ i.issue = Len(movements) + 1
    BY DEF i
  <2>2. QED
    BY <1>4, <1>7, <1>12, <2>1 DEF d

\* Rows that keep their lines and the rows of their goods keep the types.
LEMMA TypeKeptByRows ==
  ASSUME TypeInv, NEW d, Moves(d), policy' = policy, BooksTyped',
         invoices' \in Seq(Invoice), notes' \in Seq(Note), collections' \in Seq(Collection),
         Len(invoices') >= Len(invoices),
         \A k \in 1..Len(invoices) :
            /\ invoices'[k].line = invoices[k].line /\ invoices'[k].issue = invoices[k].issue
            /\ invoices'[k].status \in {"POSTED", "COLLECTED"} => invoices[k].issue # 0,
         \A k \in 1..Len(invoices') : k > Len(invoices) =>
            invoices'[k].issue = 0 /\ invoices'[k].status = "DRAFT",
         \A m \in 1..Len(notes') :
            notes'[m].invoice \in 1..Len(invoices) /\ invoices[notes'[m].invoice].issue # 0,
         \A c \in 1..Len(collections') : Len(collections'[c].lines) <= Len(invoices')
  PROVE  TypeInv'
<1>1. Len(invoices) \in Nat /\ Len(invoices') \in Nat /\ Len(movements') \in Nat
  BY RowFacts, LenProperties DEF Moves
<1>2. ASSUME NEW n \in 1..Len(invoices') PROVE IssueFine(n)'
  <2>1. CASE n \in 1..Len(invoices)
    BY <2>1, IssueStays
  <2>2. CASE n \notin 1..Len(invoices)
    <3>1. n > Len(invoices)
      BY <1>1, <2>2
    <3>2. invoices'[n].issue = 0 /\ invoices'[n].status = "DRAFT"
      BY <3>1
    <3>3. 0 \in 0..Len(movements')
      BY <1>1
    <3>4. QED
      BY <3>2, <3>3 DEF IssueFine
  <2>3. QED
    BY <2>1, <2>2
<1>3. ASSUME NEW m \in 1..Len(notes') PROVE NoteFine(m)'
  <2>1. notes'[m].invoice \in 1..Len(invoices) /\ notes'[m].invoice \in 1..Len(invoices')
    BY <1>1
  <2>2. invoices'[notes'[m].invoice].issue # 0
    BY <2>1
  <2>3. QED
    BY <2>1, <2>2 DEF NoteFine
<1>4. QED
  BY <1>2, <1>3, TypeKept

\* Nothing of notes and collections changes.
LEMMA OtherRows ==
  ASSUME TypeInv
  PROVE  /\ invoices \in Seq(Invoice) /\ notes \in Seq(Note) /\ collections \in Seq(Collection)
         /\ BooksTyped
         /\ \A k \in 1..Len(invoices) :
               invoices[k].status \in {"POSTED", "COLLECTED"} => invoices[k].issue # 0
         /\ \A m \in 1..Len(notes) :
               notes[m].invoice \in 1..Len(invoices) /\ invoices[notes[m].invoice].issue # 0
         /\ \A c \in 1..Len(collections) : Len(collections[c].lines) <= Len(invoices)
BY DEF TypeInv, TypeOK, BooksTyped, Entry, IssueInv, IssueFine, NotesInv, NoteFine, LinesInv

\* What creating one does: a draft that nothing was collected on.
LEMMA CreateInvoiceEffect ==
  ASSUME TypeInv, NEW line \in Payloads, CreateInvoice(line)
  PROVE  /\ Len(invoices') = Len(invoices) + 1
         /\ \A k \in 1..Len(invoices) : invoices'[k] = invoices[k]
         /\ LET i == invoices'[Len(invoices) + 1]
            IN  i.line = line /\ i.status = "DRAFT" /\ i.collected = 0 /\ i.issue = 0
         /\ TypeInv'
<1> DEFINE i == [line |-> line, status |-> "DRAFT", collected |-> 0, due |-> 0, issue |-> 0]
<1>1. i \in Invoice
  BY PayloadsAssumption DEF Invoice
<1>2. invoices \in Seq(Invoice) /\ invoices' = Append(invoices, i)
  BY OtherRows DEF CreateInvoice
<1>3. i.line = line /\ i.status = "DRAFT" /\ i.collected = 0 /\ i.issue = 0
  OBVIOUS
<1> HIDE DEF i
<1>4. /\ Len(invoices') = Len(invoices) + 1 /\ Len(invoices) \in Nat /\ invoices' \in Seq(Invoice)
      /\ \A k \in 1..Len(invoices) : invoices'[k] = invoices[k]
      /\ invoices'[Len(invoices) + 1] = i
  BY <1>1, <1>2, AppendProperties, LenProperties
<1>5. UNCHANGED <<notes, collections, books, policy, stock>>
  BY DEF CreateInvoice
<1>6. Moves(0) /\ BooksTyped'
  BY <1>5, StockStays, OtherRows DEF TypeInv, BooksTyped
<1>7. /\ Len(invoices') >= Len(invoices)
      /\ \A k \in 1..Len(invoices') : k > Len(invoices) =>
            invoices'[k].issue = 0 /\ invoices'[k].status = "DRAFT"
  <2>1. \A k \in 1..Len(invoices') : k > Len(invoices) => k = Len(invoices) + 1
    BY <1>4
  <2>2. QED
    BY <1>3, <1>4, <2>1
<1>8. TypeInv'
  <2>1. /\ notes' \in Seq(Note) /\ collections' \in Seq(Collection) /\ policy' = policy
        /\ \A m \in 1..Len(notes') :
              notes'[m].invoice \in 1..Len(invoices) /\ invoices[notes'[m].invoice].issue # 0
        /\ \A c \in 1..Len(collections') : Len(collections'[c].lines) <= Len(invoices')
    <3>1. \A c \in 1..Len(collections) :
             Len(collections[c].lines) \in Nat /\ Len(collections[c].lines) <= Len(invoices)
      BY OtherRows, RowFacts
    <3>2. \A c \in 1..Len(collections) : Len(collections[c].lines) <= Len(invoices')
      BY <1>4, <3>1
    <3>3. QED
      BY <1>5, <3>2, OtherRows
  <2>2. \A k \in 1..Len(invoices) :
           /\ invoices'[k].line = invoices[k].line /\ invoices'[k].issue = invoices[k].issue
           /\ invoices'[k].status \in {"POSTED", "COLLECTED"} => invoices[k].issue # 0
    BY <1>4, OtherRows
  <2>3. QED
    BY <1>4, <1>6, <1>7, <2>1, <2>2, TypeKeptByRows
<1>9. QED
  BY <1>3, <1>4, <1>8

\* What cancelling one does: a draft is marked, the goods of a posted one come back.
LEMMA CancelInvoiceEffect ==
  ASSUME TypeInv, NEW n \in 1..Len(invoices), CancelInvoice(n)
  PROVE  /\ Len(invoices') = Len(invoices)
         /\ invoices'[n] = [invoices[n] EXCEPT !.status = "CANCELLED"]
         /\ \A k \in 1..Len(invoices) : k # n => invoices'[k] = invoices[k]
         /\ \/ /\ invoices[n].status = "DRAFT"
               /\ Moves(0) /\ books' = books
            \/ /\ invoices[n].status = "POSTED"
               /\ Moves(invoices[n].line.qty * movements[invoices[n].issue].cost)
               /\ Unpublished({<<"invoice", n>>, <<"invoice", n, "cogs">>})
         /\ TypeInv'
<1> DEFINE i == [invoices[n] EXCEPT !.status = "CANCELLED"]
<1>1. invoices[n] \in Invoice
  BY RowFacts
<1>2. i \in Invoice /\ i.line = invoices[n].line /\ i.issue = invoices[n].issue /\ i.status = "CANCELLED"
  BY <1>1 DEF Invoice
<1>3. invoices' = [invoices EXCEPT ![n] = i]
  BY DEF CancelInvoice
<1> HIDE DEF i
<1>4. /\ invoices' \in Seq(Invoice) /\ Len(invoices') = Len(invoices)
      /\ invoices'[n] = i
      /\ \A k \in 1..Len(invoices) : k # n => invoices'[k] = invoices[k]
  BY <1>2, <1>3, InvoiceSet
<1>5. UNCHANGED <<notes, collections, approved, policy>>
  BY DEF CancelInvoice
<1>6. Ledger!PricedInv
  BY DEF TypeInv
<1>7. \/ /\ invoices[n].status = "DRAFT"
         /\ Moves(0) /\ books' = books
      \/ /\ invoices[n].status = "POSTED"
         /\ Moves(invoices[n].line.qty * movements[invoices[n].issue].cost)
         /\ Unpublished({<<"invoice", n>>, <<"invoice", n, "cogs">>})
  <2>1. CASE invoices[n].status = "DRAFT"
    <3>1. UNCHANGED <<books, stock>>
      BY <2>1 DEF CancelInvoice
    <3>2. QED
      BY <2>1, <3>1, <1>6, StockStays
  <2>2. CASE invoices[n].status = "POSTED"
    <3>1. Stock!Reverse(invoices[n].issue) /\ Unpublished({<<"invoice", n>>, <<"invoice", n, "cogs">>})
      BY <2>2 DEF CancelInvoice
    <3>2. IssueFine(n) /\ Len(movements) \in Nat
      BY <1>6, LedgerState DEF TypeInv, IssueInv
    <3>3. /\ invoices[n].issue \in 1..Len(movements)
          /\ movements[invoices[n].issue].link = "none"
          /\ movements[invoices[n].issue].qty = -invoices[n].line.qty
      BY <2>2, <3>2 DEF IssueFine
    <3>4. Moves((-movements[invoices[n].issue].qty) * movements[invoices[n].issue].cost)
      BY <1>6, <3>1, <3>3, ReverseMoves
    <3>5. -movements[invoices[n].issue].qty = invoices[n].line.qty
      BY <3>3, LineFacts
    <3>6. QED
      BY <2>2, <3>1, <3>4, <3>5
  <2>3. QED
    BY <2>1, <2>2 DEF CancelInvoice
<1>8. PICK d : Moves(d)
  BY <1>7
<1>9. BooksTyped'
  BY <1>7, OtherRows, UnpublishedTyped DEF BooksTyped
<1>10. ASSUME NEW k \in 1..Len(invoices)
       PROVE  /\ invoices'[k].line = invoices[k].line /\ invoices'[k].issue = invoices[k].issue
              /\ invoices'[k].status \in {"POSTED", "COLLECTED"} => invoices[k].issue # 0
  BY <1>2, <1>4, OtherRows
<1>11. TypeInv'
  <2>1. Len(invoices') >= Len(invoices) /\ \A k \in 1..Len(invoices') : ~(k > Len(invoices))
    BY <1>4, RowFacts
  <2>2. /\ notes' \in Seq(Note) /\ collections' \in Seq(Collection) /\ policy' = policy
        /\ \A m \in 1..Len(notes') :
              notes'[m].invoice \in 1..Len(invoices) /\ invoices[notes'[m].invoice].issue # 0
        /\ \A c \in 1..Len(collections') : Len(collections'[c].lines) <= Len(invoices')
    BY <1>4, <1>5, OtherRows
  <2>3. QED
    BY <2>1, <2>2, <1>4, <1>8, <1>9, <1>10, TypeKeptByRows
<1>12. QED
  BY <1>4, <1>7, <1>11 DEF i

\* Where no invoice changes.
LEMMA TypeKeptByOthers ==
  ASSUME TypeInv, NEW d, Moves(d), policy' = policy, BooksTyped', invoices' = invoices,
         notes' \in Seq(Note), collections' \in Seq(Collection),
         \A m \in 1..Len(notes') :
            notes'[m].invoice \in 1..Len(invoices) /\ invoices[notes'[m].invoice].issue # 0,
         \A c \in 1..Len(collections') : Len(collections'[c].lines) <= Len(invoices)
  PROVE  TypeInv'
<1>1. invoices' \in Seq(Invoice) /\ Len(invoices) \in Nat
  BY OtherRows, RowFacts
<1>2. Len(invoices') >= Len(invoices) /\ \A k \in 1..Len(invoices') : ~(k > Len(invoices))
  BY <1>1
<1>3. \A k \in 1..Len(invoices) :
         /\ invoices'[k].line = invoices[k].line /\ invoices'[k].issue = invoices[k].issue
         /\ invoices'[k].status \in {"POSTED", "COLLECTED"} => invoices[k].issue # 0
  BY OtherRows
<1>4. QED
  BY <1>1, <1>2, <1>3, TypeKeptByRows

\* An approval moves nothing.
LEMMA ApproveEffect ==
  ASSUME TypeInv, NEW gate, NEW n, Approve(gate, n)
  PROVE  TypeInv' /\ Moves(0)
<1>1. UNCHANGED <<invoices, notes, collections, books, policy, stock>>
  BY DEF Approve
<1>2. Moves(0) /\ BooksTyped'
  BY <1>1, StockStays, OtherRows DEF TypeInv, BooksTyped
<1>3. QED
  BY <1>1, <1>2, OtherRows, TypeKeptByOthers

\* Goods that are bought are worth what they cost.
LEMMA SupplyEffect ==
  ASSUME TypeInv, NEW s \in Slots, NEW q \in Quantities, NEW c \in Costs, Supply(s, q, c)
  PROVE  /\ UNCHANGED <<invoices, notes, collections, policy>>
         /\ Published([k \in {<<"supply", Len(movements) + 1>>} |->
                          Booking(0, q * c)])
         /\ q * c \in Int /\ Moves(q * c) /\ Len(movements') = Len(movements) + 1
         /\ TypeInv'
<1> DEFINE e == [k \in {<<"supply", Len(movements) + 1>>} |-> Booking(0, q * c)]
<1>1. UNCHANGED <<invoices, notes, collections, policy>> /\ Published(e) /\ Stock!Receive(s, q, c)
      /\ Bookable(q * c)
  BY DEF Supply
<1>2. q \in Nat \ {0} /\ c \in Int /\ c >= 0
  BY StockAssumption
<1>3. q * c \in Nat
  <2>1. \A x, y \in Nat : x * y \in Nat
    BY SMT
  <2>2. QED
    BY <1>2, <2>1
<1>4. Moves(q * c) /\ Len(movements') = Len(movements) + 1
  BY <1>1, <1>2, ReceiveMoves DEF TypeInv
<1>5. BooksTyped'
  <2>1. policy.autoPosting /\ q * c > 0 => Stored(1 * (q * c)) # 0
    BY <1>1, <1>3, BookableStored
  <2>2. policy.autoPosting => \A k \in DOMAIN e : e[k] \in Entry
    BY <1>3, <2>1, BookingTyped
  <2> HIDE DEF e
  <2>3. QED
    BY <1>1, <2>2, PublishedTyped
<1> HIDE DEF e
<1>6. TypeInv'
  BY <1>1, <1>4, <1>5, OtherRows, TypeKeptByOthers
<1>7. QED
  BY <1>1, <1>3, <1>4, <1>6 DEF e

\* What creating a credit note does; it remembers whether another draft was there.
LEMMA CreateNoteEffect ==
  ASSUME TypeInv, NEW n \in 1..Len(invoices), NEW q \in Returnable, CreateNote(n, q)
  PROVE  /\ Len(notes') = Len(notes) + 1
         /\ \A m \in 1..Len(notes) : notes'[m] = notes[m]
         /\ LET m == notes'[Len(notes) + 1]
            IN  /\ m.invoice = n /\ m.qty = q /\ m.status = "DRAFT"
                /\ m.overlapped <=> \E k \in 1..Len(notes) :
                                       notes[k].invoice = n /\ notes[k].status = "DRAFT"
         /\ TypeInv' /\ Moves(0)
<1> DEFINE o == \E k \in 1..Len(notes) : notes[k].invoice = n /\ notes[k].status = "DRAFT"
           m == [invoice |-> n, qty |-> q, status |-> "DRAFT", overlapped |-> o]
<1>1. notes' = Append(notes, m) /\ UNCHANGED <<invoices, collections, books, policy, stock>>
  BY DEF CreateNote
<1>2. o \in BOOLEAN
  OBVIOUS
<1> HIDE DEF o
<1>3. m \in Note /\ m.invoice = n /\ m.qty = q /\ m.status = "DRAFT" /\ m.overlapped = o
  BY <1>2, AmountsAssumption, RowFacts DEF Note
<1> HIDE DEF m
<1>4. /\ notes' \in Seq(Note) /\ Len(notes') = Len(notes) + 1 /\ Len(notes) \in Nat
      /\ \A k \in 1..Len(notes) : notes'[k] = notes[k]
      /\ notes'[Len(notes) + 1] = m
  BY <1>1, <1>3, OtherRows, AppendProperties, LenProperties
<1>5. Moves(0) /\ BooksTyped'
  BY <1>1, StockStays, OtherRows DEF TypeInv, BooksTyped
<1>6. ASSUME NEW k \in 1..Len(notes')
      PROVE  notes'[k].invoice \in 1..Len(invoices) /\ invoices[notes'[k].invoice].issue # 0
  <2>1. CASE k \in 1..Len(notes)
    BY <2>1, <1>4, OtherRows
  <2>2. CASE k \notin 1..Len(notes)
    <3>1. k = Len(notes) + 1
      BY <1>4, <2>2
    <3>2. invoices[n].status = "POSTED"
      BY DEF CreateNote
    <3>3. QED
      BY <3>1, <3>2, <1>3, <1>4, OtherRows
  <2>3. QED
    BY <2>1, <2>2
<1>7. TypeInv'
  BY <1>1, <1>4, <1>5, <1>6, OtherRows, TypeKeptByOthers
<1>8. QED
  BY <1>3, <1>4, <1>5, <1>7, Zenon DEF o

\* What posting one does: the goods come back at the cost they left at.
LEMMA PostNoteEffect ==
  ASSUME TypeInv, NEW m \in 1..Len(notes), PostNote(m)
  PROVE  /\ UNCHANGED <<invoices, collections, policy>>
         /\ notes[m].status = "DRAFT"
         /\ Len(notes') = Len(notes)
         /\ notes'[m] = [notes[m] EXCEPT !.status = "POSTED"]
         /\ \A k \in 1..Len(notes) : k # m => notes'[k] = notes[k]
         /\ LET cost == movements[invoices[notes[m].invoice].issue].cost
            IN  /\ Moves(notes[m].qty * cost)
                /\ Published(DocumentEntries("note", m,
                       -(notes[m].qty * invoices[notes[m].invoice].line.price),
                       notes[m].qty * cost, 1))
         /\ TypeInv'
<1> DEFINE n == notes[m].invoice
           line == invoices[n].line
           cost == movements[invoices[n].issue].cost
           e == DocumentEntries("note", m, -(notes[m].qty * line.price), notes[m].qty * cost, 1)
           r == [notes[m] EXCEPT !.status = "POSTED"]
<1>1. /\ notes[m].status = "DRAFT" /\ Stock!Receive(line.slot, notes[m].qty, cost) /\ Published(e)
      /\ Bookable(notes[m].qty * cost)
      /\ notes' = [notes EXCEPT ![m] = r] /\ UNCHANGED <<invoices, collections, approved, policy>>
  BY DEF PostNote
<1>2. notes[m] \in Note /\ n \in 1..Len(invoices) /\ notes[m].qty \in Nat \ {0}
  BY RowFacts
<1>3. r \in Note /\ r.invoice = n
  BY <1>2 DEF Note
<1>4. /\ notes' \in Seq(Note) /\ Len(notes') = Len(notes) /\ notes'[m] = r
      /\ \A k \in 1..Len(notes) : k # m => notes'[k] = notes[k]
  <2>1. notes \in Seq(Note) /\ m \in 1..Len(notes) /\ r \in Note /\ notes' = [notes EXCEPT ![m] = r]
    BY <1>1, <1>3, OtherRows
  <2> HIDE DEF r
  <2>2. QED
    BY ONLY <2>1, ExceptSeq
<1>5. line.slot \in Slots /\ line.price \in Nat
  BY <1>2, LineFacts
<1>6. Ledger!PricedInv /\ Len(movements) \in Nat
  BY LedgerState DEF TypeInv
<1>7. cost \in Int /\ (Ledger!NeverShort => cost >= 0)
  <2>1. invoices[n].issue \in 1..Len(movements)
    <3>1. invoices[n].issue # 0
      BY OtherRows
    <3>2. invoices[n].issue \in 0..Len(movements)
      BY <1>2, RowFacts
    <3>3. QED
      BY <3>1, <3>2, <1>6
  <2>2. QED
    BY <1>6, <2>1, LedgerState
<1>8. Moves(notes[m].qty * cost)
  BY <1>1, <1>2, <1>5, <1>6, <1>7, ReceiveMoves
<1>9. BooksTyped'
  <2>1. -(notes[m].qty * line.price) \in Int /\ notes[m].qty * cost \in Int
    <3>1. \A x, y \in Int : x * y \in Int /\ -(x * y) \in Int
      BY SMT
    <3>2. notes[m].qty \in Int /\ line.price \in Int /\ cost \in Int
      BY <1>2, <1>5, <1>7
    <3>3. QED
      BY ONLY <3>1, <3>2, Zenon
  <2>2. ASSUME policy.autoPosting PROVE \A k \in DOMAIN e : e[k] \in Entry
    <3> DEFINE c == notes[m].qty * cost
               p == -(notes[m].qty * line.price)
    <3>1. c \in Int /\ p \in Int
      BY <2>1
    <3>2. Bookable(c) /\ e = DocumentEntries("note", m, p, c, 1)
      BY <1>1, Zenon
    <3> HIDE DEF c, p, e
    <3>3. \A k \in DOMAIN DocumentEntries("note", m, p, c, 1) :
             DocumentEntries("note", m, p, c, 1)[k] \in Entry
      BY <2>2, <3>1, <3>2, DocumentTyped
    <3>4. QED
      BY <3>2, <3>3, Zenon
  <2> HIDE DEF e
  <2>3. QED
    BY <1>1, <2>2, PublishedTyped
<1>10. \A k \in 1..Len(notes') :
          notes'[k].invoice \in 1..Len(invoices) /\ invoices[notes'[k].invoice].issue # 0
  <2>1. /\ Len(notes') = Len(notes) /\ notes'[m].invoice = notes[m].invoice
        /\ \A k \in 1..Len(notes) : k # m => notes'[k] = notes[k]
    BY <1>3, <1>4
  <2>2. \A k \in 1..Len(notes) :
           notes[k].invoice \in 1..Len(invoices) /\ invoices[notes[k].invoice].issue # 0
    BY OtherRows
  <2>3. QED
    BY ONLY <2>1, <2>2
<1>11. TypeInv'
  BY <1>1, <1>4, <1>8, <1>9, <1>10, OtherRows, TypeKeptByOthers
<1>12. QED
  BY <1>1, <1>4, <1>8, <1>11

\* What creating a collection does: a draft with the lines it was given.
LEMMA CreateCollectionEffect ==
  ASSUME TypeInv, NEW amount \in Amounts, NEW method \in {"AUTO", "MANUAL"},
         NEW lines \in {<<>>} \cup [1..Len(invoices) -> Amounts \cup {0}],
         CreateCollection(amount, method, lines)
  PROVE  /\ Len(collections') = Len(collections) + 1
         /\ \A c \in 1..Len(collections) : collections'[c] = collections[c]
         /\ collections'[Len(collections) + 1].status = "DRAFT"
         /\ TypeInv' /\ Moves(0)
<1> DEFINE r == [amount |-> amount, method |-> method, lines |-> lines, status |-> "DRAFT"]
<1>1. collections' = Append(collections, r) /\ UNCHANGED <<invoices, notes, books, policy, stock>>
  BY DEF CreateCollection
<1>2. lines \in Seq(Nat) /\ Len(lines) <= Len(invoices)
  <2>1. Len(invoices) \in Nat
    BY RowFacts
  <2>2. CASE lines = <<>>
    BY <2>1, <2>2, EmptySeq
  <2>3. CASE lines \in [1..Len(invoices) -> Amounts \cup {0}]
    <3>1. Amounts \cup {0} \subseteq Nat
      BY AmountsAssumption
    <3>2. lines \in [1..Len(invoices) -> Nat]
      BY <2>3, <3>1
    <3>3. QED
      BY <2>1, <3>2
  <2>4. QED
    BY <2>2, <2>3
<1>3. r \in Collection /\ r.lines = lines /\ r.status = "DRAFT"
  BY <1>2, AmountsAssumption DEF Collection
<1> HIDE DEF r
<1>4. /\ collections' \in Seq(Collection) /\ Len(collections') = Len(collections) + 1
      /\ Len(collections) \in Nat
      /\ \A c \in 1..Len(collections) : collections'[c] = collections[c]
      /\ collections'[Len(collections) + 1] = r
  BY <1>1, <1>3, OtherRows, AppendProperties, LenProperties
<1>5. Moves(0) /\ BooksTyped'
  BY <1>1, StockStays, OtherRows DEF TypeInv, BooksTyped
<1>6. ASSUME NEW c \in 1..Len(collections') PROVE Len(collections'[c].lines) <= Len(invoices)
  <2>1. CASE c \in 1..Len(collections)
    BY <2>1, <1>4, OtherRows
  <2>2. CASE c \notin 1..Len(collections)
    <3>1. c = Len(collections) + 1
      BY <1>4, <2>2
    <3>2. QED
      BY <3>1, <1>2, <1>3, <1>4
  <2>3. QED
    BY <2>1, <2>2
<1>7. TypeInv'
  BY <1>1, <1>4, <1>5, <1>6, OtherRows, TypeKeptByOthers
<1>8. QED
  BY <1>3, <1>4, <1>5, <1>7

\* What is open on the invoices, and when they are due.
LEMMA OpenTyped ==
  ASSUME TypeInv
  PROVE  /\ OpenAmounts \in Seq(Nat) /\ Len(OpenAmounts) = Len(invoices)
         /\ Dues \in Seq(Int) /\ Len(Dues) = Len(invoices)
         /\ \A n \in 1..Len(invoices) : OpenAmounts[n] = OpenAmount(n) /\ OpenAmount(n) \in Nat
<1>1. Len(invoices) \in Nat
  BY RowFacts
<1>2. \A n \in 1..Len(invoices) : OpenAmount(n) \in Nat /\ invoices[n].due \in Int
  BY RowFacts, LineFacts DEF OpenAmount
<1>3. QED
  BY <1>1, <1>2 DEF OpenAmounts, Dues

\* The automatic shares are an invoice's at most open amount each.
LEMMA FifoTyped ==
  ASSUME TypeInv, NEW amount \in Nat
  PROVE  /\ Fifo(amount) \in Seq(Nat) /\ Len(Fifo(amount)) = Len(invoices)
         /\ \A n \in 1..Len(invoices) : Fifo(amount)[n] <= OpenAmount(n)
<1>1. /\ OpenAmounts \in Seq(Nat) /\ Len(OpenAmounts) = Len(invoices)
      /\ Dues \in Seq(Int) /\ Len(Dues) = Len(OpenAmounts)
      /\ \A n \in 1..Len(invoices) : OpenAmounts[n] = OpenAmount(n)
  BY OpenTyped
<1>2. /\ Fifo(amount) \in Seq(Nat) /\ Len(Fifo(amount)) = Len(OpenAmounts)
      /\ \A n \in 1..Len(OpenAmounts) : Fifo(amount)[n] <= OpenAmounts[n]
  BY <1>1, SharesType DEF Fifo
<1>3. QED
  BY <1>1, <1>2

\* The lines that posting a collection applies.
PostedLines(c) ==
    IF collections[c].method = "AUTO" THEN Fifo(collections[c].amount) ELSE collections[c].lines

\* They give something only to invoices that are posted.
LEMMA PostedLinesTyped ==
  ASSUME TypeInv, NEW c \in 1..Len(collections), PostCollection(c)
  PROVE  /\ PostedLines(c) \in Seq(Nat) /\ Len(PostedLines(c)) <= Len(invoices)
         /\ \A n \in 1..Len(invoices) :
               /\ LineOf(PostedLines(c), n) \in Nat
               /\ LineOf(PostedLines(c), n) # 0 => invoices[n].status \in {"POSTED", "COLLECTED"}
<1>1. /\ collections[c].amount \in Nat /\ collections[c].lines \in Seq(Nat)
      /\ Len(collections[c].lines) <= Len(invoices) /\ Len(invoices) \in Nat
  BY RowFacts, OtherRows
<1>2. PostedLines(c) \in Seq(Nat) /\ Len(PostedLines(c)) <= Len(invoices)
  BY <1>1, FifoTyped DEF PostedLines
<1>3. ASSUME NEW n \in 1..Len(invoices)
      PROVE  /\ LineOf(PostedLines(c), n) \in Nat
             /\ LineOf(PostedLines(c), n) # 0 => invoices[n].status \in {"POSTED", "COLLECTED"}
  <2>1. n <= Len(PostedLines(c)) => n \in 1..Len(PostedLines(c))
    BY <1>1, <1>2
  <2>2. LineOf(PostedLines(c), n) \in Nat
    BY <1>2, <2>1, ElementOfSeq DEF LineOf
  <2>3. ASSUME LineOf(PostedLines(c), n) # 0 PROVE invoices[n].status \in {"POSTED", "COLLECTED"}
    <3>1. n \in 1..Len(PostedLines(c)) /\ PostedLines(c)[n] # 0 /\ PostedLines(c)[n] \in Nat
      BY <2>1, <2>2, <2>3 DEF LineOf
    <3>2. CASE collections[c].method = "AUTO"
      <4>1. PostedLines(c)[n] <= OpenAmount(n)
        BY <3>2, <1>1, FifoTyped DEF PostedLines
      <4>2. OpenAmount(n) # 0
        BY <3>1, <4>1, OpenTyped
      <4>3. QED
        BY <4>2 DEF OpenAmount
    <3>3. CASE collections[c].method # "AUTO"
      <4>1. collections[c] \in Collection
        BY RowFacts
      <4>2. collections[c].method = "MANUAL" /\ PostedLines(c) = collections[c].lines
        BY <3>3, <4>1 DEF Collection, PostedLines
      <4>3. ManualAllowed(c)
        BY <4>2 DEF PostCollection
      <4>4. collections[c].lines[n] > 0
        BY <3>1, <4>2
      <4>5. QED
        BY <3>1, <4>2, <4>3, <4>4 DEF ManualAllowed
    <3>4. QED
      BY <3>2, <3>3
  <2>4. QED
    BY <2>2, <2>3
<1>4. QED
  BY <1>2, <1>3

\* What posting and cancelling a collection make of an invoice.
Collects(n, got) ==
    /\ invoices'[n].line = invoices[n].line /\ invoices'[n].due = invoices[n].due
    /\ invoices'[n].issue = invoices[n].issue
    /\ invoices'[n].collected = invoices[n].collected + got
    /\ invoices'[n].status =
          IF got > 0 /\ invoices[n].collected + got >= GrandTotal(n) THEN "COLLECTED"
          ELSE IF got < 0 /\ invoices[n].status = "COLLECTED" THEN "POSTED"
          ELSE invoices[n].status

\* Rows that collect, or give back, what `got' says stay typed.
LEMMA CollectsTyped ==
  ASSUME TypeInv, NEW d, Moves(d), policy' = policy, BooksTyped', UNCHANGED notes,
         invoices' \in Seq(Invoice), Len(invoices') = Len(invoices),
         collections' \in Seq(Collection),
         \A c \in 1..Len(collections') : Len(collections'[c].lines) <= Len(invoices),
         NEW got, \A n \in 1..Len(invoices) :
            /\ got[n] \in Int /\ Collects(n, got[n])
            /\ got[n] > 0 => invoices[n].status \in {"POSTED", "COLLECTED"}
  PROVE  TypeInv'
<1>1. Len(invoices') >= Len(invoices) /\ \A k \in 1..Len(invoices') : ~(k > Len(invoices))
  BY RowFacts
<1>2. \A k \in 1..Len(invoices) :
         /\ invoices'[k].line = invoices[k].line /\ invoices'[k].issue = invoices[k].issue
         /\ invoices'[k].status \in {"POSTED", "COLLECTED"} => invoices[k].issue # 0
  BY OtherRows DEF Collects
<1>3. /\ notes' \in Seq(Note)
      /\ \A m \in 1..Len(notes') :
            notes'[m].invoice \in 1..Len(invoices) /\ invoices[notes'[m].invoice].issue # 0
  BY OtherRows
<1>4. QED
  BY <1>1, <1>2, <1>3, TypeKeptByRows

\* What posting a collection does: every invoice collects its line.
LEMMA PostCollectionEffect ==
  ASSUME TypeInv, NEW c \in 1..Len(collections), PostCollection(c)
  PROVE  /\ collections[c].status = "DRAFT"
         /\ Len(invoices') = Len(invoices)
         /\ \A n \in 1..Len(invoices) : Collects(n, LineOf(PostedLines(c), n))
         /\ Len(collections') = Len(collections)
         /\ collections'[c].status = "POSTED" /\ collections'[c].lines = PostedLines(c)
         /\ collections'[c].amount = collections[c].amount
         /\ \A k \in 1..Len(collections) : k # c => collections'[k] = collections[k]
         /\ Published([k \in {<<"collection", c>>} |->
                          Booking(-collections[c].amount, 0)])
         /\ TypeInv' /\ Moves(0)
<1> DEFINE col == collections[c]
           lines == PostedLines(c)
           r == [amount |-> col.amount, method |-> col.method, lines |-> lines, status |-> "POSTED"]
           e == [k \in {<<"collection", c>>} |-> Booking(-col.amount, 0)]
           got == [n \in 1..Len(invoices) |-> LineOf(lines, n)]
<1>1. /\ col.status = "DRAFT" /\ invoices' = Given(lines) /\ Published(e)
      /\ UNCHANGED <<notes, approved, policy, stock>>
  BY DEF PostCollection, PostedLines
<1>2. /\ lines \in Seq(Nat) /\ Len(lines) <= Len(invoices)
      /\ \A n \in 1..Len(invoices) :
            /\ LineOf(lines, n) \in Nat
            /\ LineOf(lines, n) # 0 => invoices[n].status \in {"POSTED", "COLLECTED"}
  BY PostedLinesTyped
<1>3. col \in Collection /\ col.amount \in Nat \ {0} /\ Len(invoices) \in Nat
  BY RowFacts
<1>4. collections' = [collections EXCEPT ![c] = r]
  <2> DEFINE a == [col EXCEPT !.status = "POSTED"]
             f == [collections EXCEPT ![c] = a]
  <2>1. DOMAIN collections = 1..Len(collections)
    BY OtherRows, LenProperties
  <2>2. collections' = [f EXCEPT ![c] = [f[c] EXCEPT !.lines = lines]]
    BY DEF PostCollection, PostedLines
  <2>3. a = [amount |-> col.amount, method |-> col.method, lines |-> col.lines, status |-> "POSTED"]
    BY <1>3 DEF Collection
  <2> HIDE DEF lines, a
  <2>4. f[c] = a /\ [a EXCEPT !.lines = lines] = r
    BY <2>1, <2>3
  <2> HIDE DEF r
  <2>5. [f EXCEPT ![c] = [f[c] EXCEPT !.lines = lines]] = [f EXCEPT ![c] = r]
    BY <2>4
  <2>6. [f EXCEPT ![c] = r] = [collections EXCEPT ![c] = r]
    BY <2>1, Zenon
  <2>7. QED
    BY <2>2, <2>5, <2>6
<1> HIDE DEF lines
<1>5. r \in Collection
  BY <1>2, <1>3 DEF Collection
<1>6. /\ collections' \in Seq(Collection) /\ Len(collections') = Len(collections) /\ collections'[c] = r
      /\ \A k \in 1..Len(collections) : k # c => collections'[k] = collections[k]
  <2> HIDE DEF r
  <2>1. QED
    BY <1>4, <1>5, OtherRows, ExceptSeq
<1>7. ASSUME NEW n \in 1..Len(invoices)
      PROVE  invoices'[n] \in Invoice /\ Collects(n, LineOf(lines, n))
  <2> DEFINE i == invoices[n]
             g == LineOf(lines, n)
             x == [i EXCEPT !.collected = @ + g,
                            !.status = IF i.collected + g >= GrandTotal(n) THEN "COLLECTED" ELSE @]
  <2>1. i \in Invoice /\ i.collected \in Int /\ g \in Nat /\ GrandTotal(n) \in Int
    BY <1>2, RowFacts, LineFacts
  <2>2. invoices'[n] = IF g = 0 THEN i ELSE x
    BY <1>1 DEF Given
  <2>3. /\ x \in Invoice /\ x.line = i.line /\ x.due = i.due /\ x.issue = i.issue
        /\ x.collected = i.collected + g
        /\ x.status = IF i.collected + g >= GrandTotal(n) THEN "COLLECTED" ELSE i.status
    <3> DEFINE t == IF i.collected + g >= GrandTotal(n) THEN "COLLECTED" ELSE i.status
    <3> DEFINE v == i.collected + g
    <3>1. v \in Int /\ t \in {"DRAFT", "POSTED", "COLLECTED", "CANCELLED"}
      BY <2>1 DEF Invoice
    <3> HIDE DEF g, t, v
    <3>2. x = [line |-> i.line, status |-> t, collected |-> v, due |-> i.due, issue |-> i.issue]
      <4> DEFINE y == [i EXCEPT !.collected = v]
      <4>1. y = [line |-> i.line, status |-> i.status, collected |-> v, due |-> i.due,
                 issue |-> i.issue]
        BY <2>1 DEF Invoice
      <4>2. x = [y EXCEPT !.status = t]
        BY DEF t, v
      <4> HIDE DEF y
      <4>3. QED
        BY <4>1, <4>2
    <3>3. i.line \in Payload /\ i.due \in Nat /\ i.issue \in Nat
      BY <2>1 DEF Invoice
    <3> HIDE DEF x, i
    <3>4. /\ x \in Invoice /\ x.line = i.line /\ x.due = i.due /\ x.issue = i.issue
          /\ x.collected = v /\ x.status = t
      BY <3>1, <3>2, <3>3 DEF Invoice
    <3>5. QED
      BY <3>4 DEF t, v
  <2> HIDE DEF x, g
  <2>4. QED
    BY <2>1, <2>2, <2>3 DEF Collects, g
<1>8. invoices' \in Seq(Invoice) /\ Len(invoices') = Len(invoices)
  <2>1. invoices' = [n \in 1..Len(invoices) |-> invoices'[n]]
    BY <1>1 DEF Given
  <2>2. QED
    BY <1>3, <1>7, <2>1
<1>9. Moves(0) /\ BooksTyped'
  <2>1. Booking(-col.amount, 0) \in Entry
    BY <1>3, BookingTyped
  <2>2. \A k \in DOMAIN e : e[k] \in Entry
    BY <2>1
  <2> HIDE DEF e
  <2>3. QED
    BY <1>1, <2>2, PublishedTyped, StockStays DEF TypeInv
<1>10. TypeInv'
  <2>1. \A k \in 1..Len(collections') : Len(collections'[k].lines) <= Len(invoices)
    BY <1>2, <1>6, OtherRows
  <2>2. \A n \in 1..Len(invoices) :
           /\ got[n] \in Int /\ Collects(n, got[n])
           /\ got[n] > 0 => invoices[n].status \in {"POSTED", "COLLECTED"}
    BY <1>2, <1>7
  <2> HIDE DEF got, r, e
  <2>3. QED
    BY <1>1, <1>6, <1>8, <1>9, <2>1, <2>2, CollectsTyped
<1>11. r.status = "POSTED" /\ r.lines = lines /\ r.amount = col.amount
  OBVIOUS
<1> HIDE DEF r, e, got
<1>12. QED
  BY <1>1, <1>6, <1>7, <1>8, <1>9, <1>10, <1>11 DEF lines, e

\* What cancelling one does: every invoice gives back the line of a posted one.
LEMMA CancelCollectionEffect ==
  ASSUME TypeInv, NEW c \in 1..Len(collections), CancelCollection(c)
  PROVE  /\ \/ /\ collections[c].status = "DRAFT"
               /\ collections'[c].status = "VOID" /\ invoices' = invoices
            \/ /\ collections[c].status = "POSTED"
               /\ collections'[c].status = "CANCELLED"
               /\ \A n \in 1..Len(invoices) : Collects(n, -Line(c, n))
         /\ Len(invoices') = Len(invoices)
         /\ Len(collections') = Len(collections)
         /\ collections'[c].lines = collections[c].lines /\ collections'[c].amount = collections[c].amount
         /\ \A k \in 1..Len(collections) : k # c => collections'[k] = collections[k]
         /\ UNCHANGED <<notes, books, policy>>
         /\ TypeInv' /\ Moves(0)
<1> DEFINE col == collections[c]
           r == [col EXCEPT !.status = IF col.status = "POSTED" THEN "CANCELLED" ELSE "VOID"]
           got == [n \in 1..Len(invoices) |-> IF col.status = "DRAFT" THEN 0 ELSE -Line(c, n)]
<1>1. /\ col.status \in {"DRAFT", "POSTED"} /\ collections' = [collections EXCEPT ![c] = r]
      /\ UNCHANGED <<notes, approved, books, policy, stock>>
  BY DEF CancelCollection
<1>2. col \in Collection /\ Len(invoices) \in Nat /\ \A n \in 1..Len(invoices) : Line(c, n) \in Nat
  BY RowFacts
<1>3. r \in Collection /\ r.lines = col.lines /\ r.amount = col.amount
      /\ r.status = IF col.status = "POSTED" THEN "CANCELLED" ELSE "VOID"
  BY <1>2 DEF Collection
<1> HIDE DEF r
<1>4. /\ collections' \in Seq(Collection) /\ Len(collections') = Len(collections) /\ collections'[c] = r
      /\ \A k \in 1..Len(collections) : k # c => collections'[k] = collections[k]
  BY <1>1, <1>3, OtherRows, ExceptSeq
<1>5. ASSUME NEW n \in 1..Len(invoices)
      PROVE  invoices'[n] \in Invoice /\ got[n] \in Int /\ ~(got[n] > 0) /\ Collects(n, got[n])
  <2> DEFINE i == invoices[n]
             g == Line(c, n)
             x == [i EXCEPT !.collected = @ - g, !.status = IF @ = "COLLECTED" THEN "POSTED" ELSE @]
  <2>1. i \in Invoice /\ i.collected \in Int /\ g \in Nat /\ GrandTotal(n) \in Int
    BY <1>2, RowFacts, LineFacts
  <2>2. invoices'[n] = IF col.status = "DRAFT" \/ g = 0 THEN i ELSE x
    BY DEF CancelCollection
  <2>3. /\ x \in Invoice /\ x.line = i.line /\ x.due = i.due /\ x.issue = i.issue
        /\ x.collected = i.collected - g
        /\ x.status = IF i.status = "COLLECTED" THEN "POSTED" ELSE i.status
    <3> DEFINE t == IF i.status = "COLLECTED" THEN "POSTED" ELSE i.status
    <3> DEFINE v == i.collected - g
    <3>1. v \in Int /\ t \in {"DRAFT", "POSTED", "COLLECTED", "CANCELLED"}
      BY <2>1 DEF Invoice
    <3> HIDE DEF g, t, v
    <3>2. x = [line |-> i.line, status |-> t, collected |-> v, due |-> i.due, issue |-> i.issue]
      <4> DEFINE y == [i EXCEPT !.collected = v]
      <4>1. y = [line |-> i.line, status |-> i.status, collected |-> v, due |-> i.due,
                 issue |-> i.issue]
        BY <2>1 DEF Invoice
      <4>2. x = [y EXCEPT !.status = t]
        BY DEF t, v
      <4> HIDE DEF y
      <4>3. QED
        BY <4>1, <4>2
    <3>3. i.line \in Payload /\ i.due \in Nat /\ i.issue \in Nat
      BY <2>1 DEF Invoice
    <3> HIDE DEF x, i
    <3>4. /\ x \in Invoice /\ x.line = i.line /\ x.due = i.due /\ x.issue = i.issue
          /\ x.collected = v /\ x.status = t
      BY <3>1, <3>2, <3>3 DEF Invoice
    <3>5. QED
      BY <3>4 DEF t, v
  <2>4. got[n] = IF col.status = "DRAFT" THEN 0 ELSE -g
    OBVIOUS
  <2> HIDE DEF x, g, got
  <2>5. QED
    BY <2>1, <2>2, <2>3, <2>4 DEF Collects
<1>6. invoices' \in Seq(Invoice) /\ Len(invoices') = Len(invoices)
  <2>1. invoices' = [n \in 1..Len(invoices) |-> invoices'[n]]
    BY DEF CancelCollection
  <2>2. QED
    BY <1>2, <1>5, <2>1
<1>7. Moves(0) /\ BooksTyped'
  BY <1>1, StockStays, OtherRows DEF TypeInv, BooksTyped
<1>8. TypeInv'
  <2>1. \A k \in 1..Len(collections') : Len(collections'[k].lines) <= Len(invoices)
    BY <1>3, <1>4, OtherRows
  <2> HIDE DEF got
  <2>2. QED
    BY <1>1, <1>4, <1>5, <1>6, <1>7, <2>1, CollectsTyped
<1>9. col.status = "DRAFT" => invoices' = invoices
  <2>1. ASSUME col.status = "DRAFT" PROVE invoices' = invoices
    <3>1. invoices' = [n \in 1..Len(invoices) |-> invoices[n]]
      BY <2>1 DEF CancelCollection
    <3>2. invoices = [n \in 1..Len(invoices) |-> invoices[n]]
      BY OtherRows, LenProperties
    <3>3. QED
      BY <3>1, <3>2
  <2>2. QED
    BY <2>1
<1>10. col.status = "POSTED" => \A n \in 1..Len(invoices) : Collects(n, -Line(c, n))
  BY <1>5
<1>11. QED
  BY <1>1, <1>3, <1>4, <1>6, <1>7, <1>8, <1>9, <1>10

\* Every step keeps the types.
LEMMA StepTyped ==
  ASSUME TypeInv, [Next]_vars
  PROVE  TypeInv'
<1>1. CASE UNCHANGED vars
  <2>1. UNCHANGED <<invoices, notes, collections, books, policy, stock>>
    BY <1>1 DEF vars, stock
  <2>2. Moves(0) /\ BooksTyped'
    BY <2>1, StockStays, OtherRows DEF TypeInv, BooksTyped
  <2>3. QED
    BY <2>1, <2>2, OtherRows, TypeKeptByOthers
<1>2. CASE Next
  <2>1. ASSUME NEW line \in Payloads, CreateInvoice(line) PROVE TypeInv'
    BY <2>1, CreateInvoiceEffect
  <2>2. ASSUME NEW n \in 1..Len(invoices), NEW due \in DueDates, PostInvoice(n, due) PROVE TypeInv'
    BY <2>2, PostInvoiceEffect
  <2>3. ASSUME NEW n \in 1..Len(invoices), CancelInvoice(n) PROVE TypeInv'
    BY <2>3, CancelInvoiceEffect
  <2>4. ASSUME NEW n, NEW gate, Approve(gate, n) PROVE TypeInv'
    BY <2>4, ApproveEffect
  <2>5. ASSUME NEW n \in 1..Len(invoices), NEW q \in Returnable, CreateNote(n, q) PROVE TypeInv'
    BY <2>5, CreateNoteEffect
  <2>6. ASSUME NEW m \in 1..Len(notes), PostNote(m) PROVE TypeInv'
    BY <2>6, PostNoteEffect
  <2>7. ASSUME NEW amount \in Amounts, NEW method \in {"AUTO", "MANUAL"},
               NEW lines \in {<<>>} \cup [1..Len(invoices) -> Amounts \cup {0}],
               CreateCollection(amount, method, lines)
        PROVE  TypeInv'
    BY <2>7, CreateCollectionEffect
  <2>8. ASSUME NEW c \in 1..Len(collections), PostCollection(c) PROVE TypeInv'
    BY <2>8, PostCollectionEffect
  <2>9. ASSUME NEW c \in 1..Len(collections), CancelCollection(c) PROVE TypeInv'
    BY <2>9, CancelCollectionEffect
  <2>10. ASSUME NEW s \in Slots, NEW q \in Quantities, NEW c \in Costs, Supply(s, q, c) PROVE TypeInv'
    BY <2>10, SupplyEffect
  <2>11. QED
    BY <1>2, <2>1, <2>2, <2>3, <2>4, <2>5, <2>6, <2>7, <2>8, <2>9, <2>10 DEF Next
<1>3. QED
  BY <1>1, <1>2

\* The rows are typed at first.
LEMMA InitTyped == Init => TypeInv
<1> SUFFICES ASSUME Init PROVE TypeInv
  OBVIOUS
<1>1. /\ invoices = <<>> /\ notes = <<>> /\ collections = <<>> /\ books = <<>> /\ policy \in Policies
      /\ movements = <<>> /\ balances = [s \in Slots |-> Stock!NoRow]
      /\ allowNegative = policy.allowNegative
  BY DEF Init
<1>2. Len(invoices) = 0 /\ Len(notes) = 0 /\ Len(collections) = 0 /\ 1..0 = {} /\ DOMAIN books = {}
  BY <1>1, EmptySeq, SMT
<1>3. Ledger!PricedInv
  <2>1. allowNegative \in BOOLEAN
    BY <1>1, PoliciesAssumption
  <2>2. balances = [s \in Ledger!Slots |-> Ledger!NoRow]
    BY <1>1, SameShort DEF Stock!NoRow, Ledger!NoRow
  <2>3. QED
    BY <1>1, <2>1, <2>2, Ledger!EmptyPriced, StockAssumption
<1>4. Stock!TypeOK
  BY <1>3, SameShort DEF Ledger!PricedInv, Ledger!AverageInv, Ledger!IInv
<1>5. TypeOK
  BY <1>1, <1>2, <1>4, EmptySeq DEF TypeOK
<1>6. QED
  BY <1>1, <1>2, <1>3, <1>5 DEF TypeInv, BooksTyped, IssueInv, NotesInv, LinesInv

\* The rows are always typed, whatever happens.
LEMMA SpecTyped == Spec => []TypeInv
BY InitTyped, StepTyped, PTL DEF Spec

-----------------------------------------------------------------------------
(* What was collected                                                      *)

\* What the standing collections give invoice n, by collection.
Applied(n) ==
    [c \in 1..Len(collections) |-> IF collections[c].status = "POSTED" THEN Line(c, n) ELSE 0]

CollectedFine(n) ==
    /\ invoices[n].collected = Total(Applied(n), Len(collections))
    /\ invoices[n].status = "COLLECTED" => invoices[n].collected >= GrandTotal(n)

CollectedInv == \A n \in 1..Len(invoices) : CollectedFine(n)

\* What collections give an invoice are integers, so they can be added up.
LEMMA AppliedTyped ==
  ASSUME TypeInv, NEW n \in Nat \ {0}
  PROVE  /\ Applied(n) \in [1..Len(collections) -> Int] /\ Len(collections) \in Nat
         /\ Total(Applied(n), Len(collections)) \in Int
<1>1. Applied(n) \in [1..Len(collections) -> Int] /\ Len(collections) \in Nat
  BY RowFacts DEF Applied
<1>2. QED
  BY <1>1, TotalType

\* Where no collection changes, an invoice keeps what it has.
LEMMA CollectedStays ==
  ASSUME NEW n, CollectedFine(n), UNCHANGED collections,
         invoices'[n].line = invoices[n].line, invoices'[n].collected = invoices[n].collected,
         invoices'[n].status = "COLLECTED" => invoices[n].status = "COLLECTED"
  PROVE  CollectedFine(n)'
<1>1. Applied(n)' = Applied(n)
  BY DEF Applied, Line
<1>2. QED
  BY <1>1 DEF CollectedFine, GrandTotal

\* A new invoice is named by no collection.
LEMMA NoneApplied ==
  ASSUME TypeInv
  PROVE  Total(Applied(Len(invoices) + 1), Len(collections)) = 0
<1> DEFINE n == Len(invoices) + 1
<1>1. n \in Nat \ {0} /\ Len(invoices) \in Nat
  BY RowFacts
<1>2. ASSUME NEW c \in 1..Len(collections) PROVE Applied(n)[c] = 0
  <2>1. Len(collections[c].lines) <= Len(invoices) /\ Len(collections[c].lines) \in Nat
    BY OtherRows, RowFacts, LenProperties
  <2>2. ~(n <= Len(collections[c].lines))
    BY <1>1, <2>1
  <2>3. QED
    BY <2>2 DEF Applied, Line, LineOf
<1> HIDE DEF n
<1>3. Applied(n) \in [1..Len(collections) -> Int] /\ Len(collections) \in Nat
  BY <1>1, AppliedTyped
<1>4. Total(Applied(n), Len(collections)) = 0
  BY <1>2, <1>3, TotalZero
<1>5. QED
  BY <1>4 DEF n

\* A collection that is posted or cancelled moves what the invoices collected by its line.
LEMMA AppliedMoves ==
  ASSUME TypeInv, NEW c \in 1..Len(collections), NEW n \in 1..Len(invoices),
         Len(collections') = Len(collections),
         \A k \in 1..Len(collections) : k # c => collections'[k] = collections[k],
         NEW got \in Int, Applied(n)'[c] = Applied(n)[c] + got,
         CollectedFine(n), Collects(n, got)
  PROVE  CollectedFine(n)'
<1> DEFINE N == Len(collections)
           f == Applied(n)
           g == Applied(n)'
<1>1. N \in Nat /\ f \in [1..N -> Int] /\ Total(f, N) \in Int /\ n \in Nat \ {0}
  BY RowFacts, AppliedTyped
<1>2. g = [k \in 1..N |-> g[k]]
  BY DEF Applied
<1>3. \A k \in 1..N : k # c => g[k] = f[k]
  BY DEF Applied, Line
<1>4. c \in 1..N /\ g[c] = f[c] + got /\ f[c] \in Int
  BY <1>1
<1>5. invoices'[n].collected = invoices[n].collected + got /\ invoices[n].collected = Total(f, N)
  BY DEF Collects, CollectedFine
<1>6. Total(Applied(n), Len(collections))' = Total(g, N)
  OBVIOUS
<1>7. GrandTotal(n)' = GrandTotal(n) /\ GrandTotal(n) \in Int
  BY LineFacts DEF GrandTotal, Collects
<1> HIDE DEF f, g, N
<1>8. g \in [1..N -> Int]
  <2>1. ASSUME NEW k \in 1..N PROVE g[k] \in Int
    <3>1. f[k] \in Int
      BY <1>1
    <3>2. g[c] \in Int
      BY <1>4
    <3>3. QED
      BY <1>3, <3>1, <3>2
  <2>2. QED
    BY <1>2, <2>1, Zenon
<1>9. Total(g, N) = Total(f, N) + got
  <2>1. Total(g, N) = Total(f, N) + g[c] - f[c]
    BY <1>1, <1>3, <1>4, <1>8, TotalChange
  <2>2. QED
    BY <1>1, <1>4, <2>1
<1>10. invoices'[n].status = "COLLECTED" => invoices'[n].collected >= GrandTotal(n)
  BY <1>1, <1>5, <1>7 DEF Collects, CollectedFine
<1>11. QED
  BY <1>5, <1>6, <1>7, <1>9, <1>10 DEF CollectedFine

\* Every step keeps what the invoices collected.
LEMMA StepCollected ==
  ASSUME TypeInv, CollectedInv, [Next]_vars
  PROVE  CollectedInv'
<1>1. ASSUME UNCHANGED collections, Len(invoices') = Len(invoices),
             \A n \in 1..Len(invoices) :
                /\ invoices'[n].line = invoices[n].line
                /\ invoices'[n].collected = invoices[n].collected
                /\ invoices'[n].status = "COLLECTED" => invoices[n].status = "COLLECTED"
      PROVE  CollectedInv'
  BY <1>1, CollectedStays DEF CollectedInv
<1>2. CASE UNCHANGED vars
  BY <1>1, <1>2 DEF vars
<1>3. CASE Next
  <2>1. ASSUME NEW line \in Payloads, CreateInvoice(line) PROVE CollectedInv'
    <3> DEFINE N == Len(invoices) + 1
    <3>1. /\ Len(invoices') = N /\ Len(invoices) \in Nat
          /\ \A k \in 1..Len(invoices) : invoices'[k] = invoices[k]
          /\ invoices'[N].collected = 0 /\ invoices'[N].status = "DRAFT"
      BY <2>1, CreateInvoiceEffect, RowFacts
    <3>2. UNCHANGED collections
      BY <2>1 DEF CreateInvoice
    <3>3. ASSUME NEW n \in 1..N PROVE CollectedFine(n)'
      <4>1. CASE n \in 1..Len(invoices)
        BY <3>1, <3>2, <4>1, CollectedStays DEF CollectedInv
      <4>2. CASE n = N
        <5>1. Applied(n)' = Applied(n)
          BY <3>2 DEF Applied, Line
        <5>2. Total(Applied(n), Len(collections)) = 0
          BY <4>2, NoneApplied
        <5>3. QED
          BY <3>1, <3>2, <4>2, <5>1, <5>2 DEF CollectedFine
      <4>3. QED
        BY <3>1, <4>1, <4>2
    <3>4. QED
      BY <3>1, <3>3 DEF CollectedInv
  <2>2. ASSUME NEW n \in 1..Len(invoices), NEW due \in DueDates, PostInvoice(n, due)
        PROVE  CollectedInv'
    <3>1. UNCHANGED collections
      BY <2>2 DEF PostInvoice
    <3>2. QED
      BY <1>1, <2>2, <3>1, PostInvoiceEffect
  <2>3. ASSUME NEW n \in 1..Len(invoices), CancelInvoice(n) PROVE CollectedInv'
    <3>1. UNCHANGED collections
      BY <2>3 DEF CancelInvoice
    <3>2. invoices[n] \in Invoice
      BY RowFacts
    <3>3. LET i == [invoices[n] EXCEPT !.status = "CANCELLED"]
          IN  i.line = invoices[n].line /\ i.collected = invoices[n].collected /\ i.status # "COLLECTED"
      BY <3>2 DEF Invoice
    <3>4. /\ Len(invoices') = Len(invoices)
          /\ invoices'[n] = [invoices[n] EXCEPT !.status = "CANCELLED"]
          /\ \A k \in 1..Len(invoices) : k # n => invoices'[k] = invoices[k]
      BY <2>3, CancelInvoiceEffect
    <3>5. QED
      BY <1>1, <3>1, <3>3, <3>4
  <2>4. ASSUME NEW n, NEW gate, Approve(gate, n) PROVE CollectedInv'
    BY <1>1, <2>4 DEF Approve
  <2>5. ASSUME NEW n \in 1..Len(invoices), NEW q \in Returnable, CreateNote(n, q) PROVE CollectedInv'
    BY <1>1, <2>5 DEF CreateNote
  <2>6. ASSUME NEW m \in 1..Len(notes), PostNote(m) PROVE CollectedInv'
    BY <1>1, <2>6 DEF PostNote
  <2>7. ASSUME NEW amount \in Amounts, NEW method \in {"AUTO", "MANUAL"},
               NEW lines \in {<<>>} \cup [1..Len(invoices) -> Amounts \cup {0}],
               CreateCollection(amount, method, lines)
        PROVE  CollectedInv'
    <3>1. /\ Len(collections') = Len(collections) + 1
          /\ \A c \in 1..Len(collections) : collections'[c] = collections[c]
          /\ collections'[Len(collections) + 1].status = "DRAFT"
      BY <2>7, CreateCollectionEffect
    <3>2. UNCHANGED invoices
      BY <2>7 DEF CreateCollection
    <3>3. ASSUME NEW n \in 1..Len(invoices) PROVE CollectedFine(n)'
      <4> DEFINE N == Len(collections)
                 f == Applied(n)
                 g == Applied(n)'
      <4>1. N \in Nat /\ f \in [1..N -> Int] /\ Total(f, N) \in Int
        BY RowFacts, AppliedTyped
      <4>2. g = [k \in 1..(N+1) |-> g[k]]
        BY <3>1 DEF Applied
      <4>3. \A k \in 1..N : g[k] = f[k]
        BY <3>1, <4>1 DEF Applied, Line
      <4>4. g[N+1] = 0
        BY <3>1, <4>1 DEF Applied
      <4>5. Total(Applied(n), Len(collections))' = Total(g, N+1)
        BY <3>1
      <4>6. invoices[n].collected = Total(f, N)
        BY DEF CollectedInv, CollectedFine
      <4> HIDE DEF f, g, N
      <4>7. g \in [1..(N+1) -> Int]
        <5>1. \A k \in 1..(N+1) : g[k] \in Int
          BY <4>1, <4>3, <4>4
        <5>2. QED
          BY <4>2, <5>1, Zenon
      <4>8. Total(g, N+1) = Total(f, N)
        <5>1. Total(g, N+1) = Total(f, N) + g[N+1]
          BY <4>1, <4>3, <4>7, TotalStep
        <5>2. QED
          BY <4>1, <4>4, <5>1
      <4>9. QED
        BY <3>2, <4>5, <4>6, <4>8 DEF CollectedInv, CollectedFine, GrandTotal
    <3>4. QED
      BY <3>2, <3>3 DEF CollectedInv
  <2>8. ASSUME NEW c \in 1..Len(collections), PostCollection(c) PROVE CollectedInv'
    <3>1. /\ collections[c].status = "DRAFT" /\ Len(invoices') = Len(invoices)
          /\ \A n \in 1..Len(invoices) : Collects(n, LineOf(PostedLines(c), n))
          /\ Len(collections') = Len(collections)
          /\ collections'[c].status = "POSTED" /\ collections'[c].lines = PostedLines(c)
          /\ \A k \in 1..Len(collections) : k # c => collections'[k] = collections[k]
      BY <2>8, PostCollectionEffect
    <3>2. ASSUME NEW n \in 1..Len(invoices) PROVE CollectedFine(n)'
      <4>1. LineOf(PostedLines(c), n) \in Int
        BY <2>8, PostedLinesTyped
      <4>2. Applied(n)[c] = 0 /\ Applied(n)'[c] = LineOf(PostedLines(c), n)
        BY <3>1 DEF Applied, Line
      <4>3. Applied(n)'[c] = Applied(n)[c] + LineOf(PostedLines(c), n)
        BY <4>1, <4>2
      <4>4. CollectedFine(n)
        BY DEF CollectedInv
      <4>5. QED
        BY <3>1, <4>1, <4>3, <4>4, AppliedMoves
    <3>3. QED
      BY <3>1, <3>2 DEF CollectedInv
  <2>9. ASSUME NEW c \in 1..Len(collections), CancelCollection(c) PROVE CollectedInv'
    <3>1. /\ \/ /\ collections[c].status = "DRAFT"
                /\ collections'[c].status = "VOID" /\ invoices' = invoices
             \/ /\ collections[c].status = "POSTED"
                /\ collections'[c].status = "CANCELLED"
                /\ \A n \in 1..Len(invoices) : Collects(n, -Line(c, n))
          /\ Len(invoices') = Len(invoices) /\ Len(collections') = Len(collections)
          /\ \A k \in 1..Len(collections) : k # c => collections'[k] = collections[k]
      BY <2>9, CancelCollectionEffect
    <3>2. ASSUME NEW n \in 1..Len(invoices) PROVE CollectedFine(n)'
      <4>1. Line(c, n) \in Nat /\ invoices[n].collected \in Int /\ CollectedFine(n)
        BY RowFacts DEF CollectedInv
      <4>2. CASE collections[c].status = "POSTED"
        <5>1. Applied(n)[c] = Line(c, n) /\ Applied(n)'[c] = 0
          BY <3>1, <4>2 DEF Applied
        <5>2. -Line(c, n) \in Int /\ Applied(n)'[c] = Applied(n)[c] + (-Line(c, n))
          BY <4>1, <5>1
        <5>3. QED
          BY <3>1, <4>1, <4>2, <5>2, AppliedMoves
      <4>3. CASE collections[c].status = "DRAFT"
        <5>1. Applied(n)[c] = 0 /\ Applied(n)'[c] = 0
          BY <3>1, <4>3 DEF Applied
        <5>2. Applied(n)'[c] = Applied(n)[c] + 0
          BY <5>1
        <5>3. Collects(n, 0)
          BY <3>1, <4>1, <4>3 DEF Collects
        <5>4. QED
          BY <3>1, <4>1, <5>2, <5>3, AppliedMoves
      <4>4. QED
        BY <3>1, <4>2, <4>3
    <3>3. QED
      BY <3>1, <3>2 DEF CollectedInv
  <2>10. ASSUME NEW s \in Slots, NEW q \in Quantities, NEW c \in Costs, Supply(s, q, c)
         PROVE  CollectedInv'
    BY <1>1, <2>10 DEF Supply
  <2>11. QED
    BY <1>3, <2>1, <2>2, <2>3, <2>4, <2>5, <2>6, <2>7, <2>8, <2>9, <2>10 DEF Next
<1>4. QED
  BY <1>2, <1>3

\* What an invoice has collected is what the standing collections give it, and a COLLECTED
\* one is paid in full, for every number of invoices and collections, posted and cancelled
\* in any order.
THEOREM SalesCollectAllocated == Spec => []CollectedIsAllocated
<1>1. Init => CollectedInv
  <2>1. Init => Len(invoices) = 0 /\ 1..0 = {}
    BY EmptySeq, SMT DEF Init
  <2>2. QED
    BY <2>1 DEF CollectedInv
<1>2. TypeInv /\ CollectedInv /\ [Next]_vars => CollectedInv'
  BY StepCollected
<1>3. TypeInv /\ CollectedInv => CollectedIsAllocated
  BY DEF TypeInv, CollectedInv, CollectedFine, CollectedIsAllocated, Applied
<1>4. QED
  BY <1>1, <1>2, <1>3, SpecTyped, PTL DEF Spec

-----------------------------------------------------------------------------
(* The oldest first                                                        *)

\* Only posting a collection makes a draft one POSTED.
LEMMA OnlyPosting ==
  ASSUME TypeInv, Next, NEW c \in 1..Len(collections), collections[c].status = "DRAFT",
         collections'[c].status = "POSTED"
  PROVE  PostCollection(c)
<1>1. ASSUME UNCHANGED collections PROVE FALSE
  BY <1>1
<1>2. ASSUME NEW amount \in Amounts, NEW method \in {"AUTO", "MANUAL"},
             NEW lines \in {<<>>} \cup [1..Len(invoices) -> Amounts \cup {0}],
             CreateCollection(amount, method, lines)
      PROVE  FALSE
  BY <1>2, CreateCollectionEffect
<1>3. ASSUME NEW k \in 1..Len(collections), PostCollection(k) PROVE PostCollection(c)
  <2>1. CASE k = c
    BY <1>3, <2>1
  <2>2. CASE k # c
    BY <1>3, <2>2, PostCollectionEffect
  <2>3. QED
    BY <2>1, <2>2
<1>4. ASSUME NEW k \in 1..Len(collections), CancelCollection(k) PROVE FALSE
  BY <1>4, CancelCollectionEffect
<1>5. QED
  BY <1>1, <1>2, <1>3, <1>4
     DEF Next, CreateInvoice, PostInvoice, CancelInvoice, Approve, CreateNote, PostNote, Supply

\* An automatic collection settles what is due before whatever it gives something to.
LEMMA PostingOldestFirst ==
  ASSUME TypeInv, NEW c \in 1..Len(collections), PostCollection(c), collections[c].method = "AUTO",
         NEW n \in 1..Len(invoices), invoices'[n].collected # invoices[n].collected
  PROVE  /\ invoices'[n].collected <= GrandTotal(n)
         /\ \A m \in 1..Len(invoices) : Before(Dues, m, n) => OpenAmount(m)' = 0
<1> DEFINE amount == collections[c].amount
           lines == PostedLines(c)
<1>1. /\ OpenAmounts \in Seq(Nat) /\ Len(OpenAmounts) = Len(invoices)
      /\ Dues \in Seq(Int) /\ Len(Dues) = Len(OpenAmounts)
      /\ \A k \in 1..Len(invoices) : OpenAmounts[k] = OpenAmount(k) /\ OpenAmount(k) \in Nat
  BY OpenTyped
<1>2. amount \in Nat /\ lines = Fifo(amount) /\ lines = Shares(amount, OpenAmounts, Dues)
  BY RowFacts DEF PostedLines, Fifo
<1>3. /\ lines \in Seq(Nat) /\ Len(lines) = Len(invoices) /\ Len(invoices) \in Nat
      /\ \A k \in 1..Len(invoices) : lines[k] \in Nat /\ lines[k] <= OpenAmount(k)
  <2>1. lines \in Seq(Nat) /\ Len(lines) = Len(invoices)
        /\ \A k \in 1..Len(invoices) : lines[k] <= OpenAmount(k)
    <3> HIDE DEF lines, amount
    <3>1. amount \in Nat /\ lines = Fifo(amount)
      BY <1>2
    <3>2. /\ Fifo(amount) \in Seq(Nat) /\ Len(Fifo(amount)) = Len(invoices)
          /\ \A k \in 1..Len(invoices) : Fifo(amount)[k] <= OpenAmount(k)
      BY <3>1, FifoTyped
    <3>3. QED
      BY ONLY <3>1, <3>2, Zenon
  <2>2. \A k \in 1..Len(invoices) : lines[k] \in Nat
    BY <2>1, ElementOfSeq
  <2>3. QED
    BY <2>1, <2>2, RowFacts
<1>4. \A k \in 1..Len(invoices) : Collects(k, lines[k])
  <2>1. \A k \in 1..Len(invoices) : Collects(k, LineOf(lines, k))
    BY PostCollectionEffect
  <2> HIDE DEF lines
  <2>2. \A k \in 1..Len(invoices) : k <= Len(lines)
    BY <1>3
  <2>3. QED
    BY <2>1, <2>2 DEF LineOf
<1>5. \A k \in 1..Len(invoices) :
         /\ invoices[k].collected \in Int /\ GrandTotal(k) \in Int
         /\ invoices'[k].collected = invoices[k].collected + lines[k]
         /\ GrandTotal(k)' = GrandTotal(k)
  BY <1>4, RowFacts, LineFacts DEF Collects, GrandTotal
<1> HIDE DEF lines, amount
<1>6. lines[n] # 0
  BY <1>3, <1>5
<1>7. invoices'[n].collected <= GrandTotal(n)
  <2>1. OpenAmount(n) # 0
    BY <1>1, <1>3, <1>6
  <2>2. OpenAmount(n) = GrandTotal(n) - invoices[n].collected
    BY <2>1 DEF OpenAmount
  <2>3. lines[n] <= GrandTotal(n) - invoices[n].collected /\ lines[n] \in Nat
    BY <1>3, <2>2
  <2>4. QED
    BY <1>5, <2>3
<1>8. ASSUME NEW m \in 1..Len(invoices), Before(Dues, m, n) PROVE OpenAmount(m)' = 0
  <2>1. lines[m] = OpenAmount(m)
    <3>1. m \in 1..Len(OpenAmounts) /\ n \in 1..Len(OpenAmounts)
      BY <1>1
    <3>2. Shares(amount, OpenAmounts, Dues)[n] # 0
      BY <1>2, <1>6
    <3>3. Shares(amount, OpenAmounts, Dues)[m] = OpenAmounts[m]
      BY <1>1, <1>2, <1>8, <3>1, <3>2, SharesInOrder
    <3>4. QED
      BY <1>1, <1>2, <3>3
  <2>2. CASE OpenAmount(m) = 0
    <3>1. lines[m] = 0
      BY <2>1, <2>2
    <3>2. /\ invoices'[m].status = invoices[m].status /\ invoices'[m].collected = invoices[m].collected
          /\ GrandTotal(m)' = GrandTotal(m)
      BY <1>4, <1>5, <3>1 DEF Collects
    <3>3. OpenAmount(m)' = OpenAmount(m)
      BY <3>2 DEF OpenAmount
    <3>4. QED
      BY <2>2, <3>3
  <2>3. CASE OpenAmount(m) # 0
    <3>1. OpenAmount(m) = GrandTotal(m) - invoices[m].collected /\ OpenAmount(m) \in Nat
      BY <1>1, <2>3 DEF OpenAmount
    <3>2. lines[m] > 0 /\ invoices[m].collected + lines[m] >= GrandTotal(m)
      <4> DEFINE o == OpenAmount(m)
                 t == GrandTotal(m)
                 v == invoices[m].collected
      <4>1. lines[m] = o /\ o # 0 /\ o \in Nat /\ o = t - v /\ t \in Int /\ v \in Int
        BY <1>5, <2>1, <2>3, <3>1
      <4> HIDE DEF o, t, v
      <4>2. lines[m] > 0 /\ v + lines[m] >= t
        BY ONLY <4>1
      <4>3. QED
        BY <4>2 DEF t, v
    <3>3. invoices'[m].status = "COLLECTED"
      BY <1>4, <3>2 DEF Collects
    <3>4. QED
      BY <3>3 DEF OpenAmount
  <2>4. QED
    BY <2>2, <2>3
<1>9. QED
  BY <1>7, <1>8

\* However many invoices are open and whatever falls due when, an automatic collection pays
\* in the order they fall due and never more than was open.
THEOREM SalesOldestFirst == Spec => OldestFirst
<1> DEFINE A == \A c \in 1..Len(collections) :
                   collections[c].method = "AUTO" /\ collections[c].status = "DRAFT"
                   /\ collections'[c].status = "POSTED" =>
                       \A n \in 1..Len(invoices) : invoices'[n].collected # invoices[n].collected =>
                           /\ invoices'[n].collected <= GrandTotal(n)
                           /\ \A m \in 1..Len(invoices) : Before(Dues, m, n) => OpenAmount(m)' = 0
<1>1. TypeInv /\ [Next]_vars => [A]_vars
  BY OnlyPosting, PostingOldestFirst
<1>2. [][A]_vars => OldestFirst
  BY PTL DEF OldestFirst
<1>3. QED
  BY <1>1, <1>2, SpecTyped, PTL DEF Spec

-----------------------------------------------------------------------------
(* What comes back                                                         *)

\* What the notes of invoice n ask to return, and what the POSTED ones returned, by note.
Asked(n) == [m \in 1..Len(notes) |-> IF notes[m].invoice = n THEN notes[m].qty ELSE 0]
Returned(n) ==
    [m \in 1..Len(notes) |->
        IF notes[m].invoice = n /\ notes[m].status = "POSTED" THEN notes[m].qty ELSE 0]

Overlapped(n) == \E m \in 1..Len(notes) : notes[m].invoice = n /\ notes[m].overlapped

\* Unless they overlap, drafts and POSTED notes together ask no more than was delivered.
AskedFine(n) == Overlapped(n) \/ Total(Asked(n), Len(notes)) <= invoices[n].line.qty

AskedInv == \A n \in 1..Len(invoices) : AskedFine(n)

\* What is asked and returned are totals of naturals, and nothing comes back unasked.
LEMMA AskedTyped ==
  ASSUME TypeInv, NEW n
  PROVE  /\ Len(notes) \in Nat
         /\ Asked(n) \in [1..Len(notes) -> Int] /\ Returned(n) \in [1..Len(notes) -> Int]
         /\ Total(Asked(n), Len(notes)) \in Int /\ Total(Returned(n), Len(notes)) \in Int
         /\ Total(Returned(n), Len(notes)) <= Total(Asked(n), Len(notes))
<1>1. Len(notes) \in Nat /\ \A m \in 1..Len(notes) : notes[m].qty \in Nat
  BY RowFacts
<1>2. /\ Asked(n) \in [1..Len(notes) -> Int] /\ Returned(n) \in [1..Len(notes) -> Int]
      /\ \A m \in 1..Len(notes) : Returned(n)[m] <= Asked(n)[m]
  BY <1>1 DEF Asked, Returned
<1>3. QED
  BY <1>1, <1>2, TotalType, TotalMonotone

\* Where no note is about another invoice, asks another quantity or is created, what is
\* asked stays.
LEMMA AskedStays ==
  ASSUME TypeInv, NEW n, AskedFine(n), invoices'[n].line = invoices[n].line,
         Len(notes') = Len(notes),
         \A m \in 1..Len(notes) :
            /\ notes'[m].invoice = notes[m].invoice /\ notes'[m].qty = notes[m].qty
            /\ notes'[m].overlapped = notes[m].overlapped
  PROVE  AskedFine(n)'
<1>1. Asked(n)' = Asked(n)
  BY DEF Asked
<1>2. Overlapped(n) => Overlapped(n)'
  BY DEF Overlapped
<1>3. QED
  BY <1>1, <1>2 DEF AskedFine

\* A new invoice was asked nothing.
LEMMA NoneAsked ==
  ASSUME TypeInv
  PROVE  Total(Asked(Len(invoices) + 1), Len(notes)) = 0
<1> DEFINE n == Len(invoices) + 1
<1>1. Len(invoices) \in Nat /\ \A m \in 1..Len(notes) : notes[m].invoice \in 1..Len(invoices)
  BY RowFacts
<1>2. \A m \in 1..Len(notes) : notes[m].invoice # n
  BY <1>1
<1> HIDE DEF n
<1>3. \A m \in 1..Len(notes) : Asked(n)[m] = 0
  BY <1>2 DEF Asked
<1>4. Total(Asked(n), Len(notes)) = 0
  BY <1>3, AskedTyped, TotalZero
<1>5. QED
  BY <1>4 DEF n

\* A note asks no more than is left, unless it overlaps.
LEMMA NoteAsked ==
  ASSUME TypeInv, AskedInv, NEW n \in 1..Len(invoices), NEW q \in Returnable, CreateNote(n, q),
         NEW k \in 1..Len(invoices)
  PROVE  AskedFine(k)'
<1> DEFINE N == Len(notes)
           f == Asked(k)
           g == Asked(k)'
           Last == notes'[N + 1]
<1>1. /\ Len(notes') = N + 1 /\ \A m \in 1..N : notes'[m] = notes[m]
      /\ Last.invoice = n /\ Last.qty = q
      /\ Last.overlapped <=> \E m \in 1..N : notes[m].invoice = n /\ notes[m].status = "DRAFT"
  BY CreateNoteEffect
<1>2. N \in Nat /\ f \in [1..N -> Int] /\ Total(f, N) \in Int /\ q \in Int
  BY AskedTyped, AmountsAssumption
<1>3. invoices' = invoices /\ invoices[k].line.qty \in Nat
  BY LineFacts DEF CreateNote
<1>4. /\ g = [m \in 1..(N + 1) |-> IF notes'[m].invoice = k THEN notes'[m].qty ELSE 0]
      /\ Total(Asked(k), Len(notes))' = Total(g, N + 1)
  BY <1>1 DEF Asked
<1>5. /\ g = [m \in 1..(N + 1) |-> g[m]] /\ \A m \in 1..N : g[m] = f[m]
      /\ g[N + 1] = IF k = n THEN q ELSE 0
  BY <1>1, <1>2, <1>4 DEF Asked
<1>6. Overlapped(k) => Overlapped(k)'
  BY <1>1, <1>2 DEF Overlapped
<1>7. Total(g, N + 1) = Total(f, N) + g[N + 1]
  <2> HIDE DEF f, g, N
  <2>1. ASSUME NEW m \in 1..(N + 1) PROVE g[m] \in Int
    <3>1. CASE m \in 1..N
      BY <3>1, <1>2, <1>5
    <3>2. CASE m \notin 1..N
      <4>1. m = N + 1
        BY <1>2, <3>2
      <4>2. QED
        BY <4>1, <1>2, <1>5
    <3>3. QED
      BY <3>1, <3>2
  <2>2. g \in [1..(N + 1) -> Int]
    BY <2>1, <1>5, Zenon
  <2>3. QED
    BY ONLY <1>2, <1>5, <2>2, TotalStep
<1>8. CASE k # n
  <2>1. AskedFine(k) /\ g[N + 1] = 0
    BY <1>5, <1>8 DEF AskedInv
  <2> HIDE DEF f, g
  <2>2. Total(g, N + 1) = Total(f, N)
    BY <1>2, <1>7, <2>1
  <2>3. QED
    BY <1>3, <1>4, <1>6, <2>1, <2>2 DEF AskedFine, f
<1>9. CASE k = n /\ Last.overlapped
  <2>1. N + 1 \in 1..Len(notes')
    BY <1>1, <1>2
  <2>2. Overlapped(k)'
    BY <1>1, <1>9, <2>1 DEF Overlapped
  <2>3. QED
    BY <2>2 DEF AskedFine
<1>10. CASE k = n /\ ~Last.overlapped
  <2>1. \A m \in 1..N : notes[m].invoice = k => notes[m].status = "POSTED"
    <3>1. \A m \in 1..N : notes[m].status \in {"DRAFT", "POSTED"}
      BY RowFacts DEF Note
    <3>2. QED
      BY <1>1, <1>10, <3>1
  <2>2. Asked(k) = Returned(k)
    BY <2>1 DEF Asked, Returned
  <2>3. TotalReturned(k) = Total(f, N)
    BY <2>2 DEF TotalReturned, Returned
  <2>4. TotalReturned(k) + q <= invoices[k].line.qty /\ g[N + 1] = q
    BY <1>5, <1>10 DEF CreateNote
  <2> HIDE DEF f, g
  <2>5. Total(g, N + 1) <= invoices[k].line.qty
    BY <1>2, <1>7, <2>3, <2>4
  <2>6. QED
    BY <1>3, <1>4, <2>5 DEF AskedFine
<1>11. QED
  BY <1>8, <1>9, <1>10

\* Every step keeps what is asked within what was delivered.
LEMMA StepAsked ==
  ASSUME TypeInv, AskedInv, [Next]_vars
  PROVE  AskedInv'
<1>1. ASSUME UNCHANGED notes, Len(invoices') = Len(invoices),
             \A n \in 1..Len(invoices) : invoices'[n].line = invoices[n].line
      PROVE  AskedInv'
  BY <1>1, AskedStays DEF AskedInv
<1>2. CASE UNCHANGED vars
  BY <1>1, <1>2 DEF vars
<1>3. CASE Next
  <2>1. ASSUME NEW line \in Payloads, CreateInvoice(line) PROVE AskedInv'
    <3> DEFINE N == Len(invoices) + 1
    <3>1. /\ Len(invoices') = N /\ Len(invoices) \in Nat
          /\ \A k \in 1..Len(invoices) : invoices'[k] = invoices[k]
          /\ invoices'[N].line = line /\ line \in Payload
      BY <2>1, CreateInvoiceEffect, RowFacts, PayloadsAssumption
    <3>2. UNCHANGED notes
      BY <2>1 DEF CreateInvoice
    <3>3. ASSUME NEW n \in 1..N PROVE AskedFine(n)'
      <4>1. CASE n \in 1..Len(invoices)
        BY <3>1, <3>2, <4>1, AskedStays DEF AskedInv
      <4>2. CASE n = N
        <5>1. Asked(n)' = Asked(n)
          BY <3>2 DEF Asked
        <5>2. Total(Asked(n), Len(notes)) = 0
          BY <4>2, NoneAsked
        <5>3. line.qty \in Nat
          BY <3>1 DEF Payload
        <5>4. QED
          BY <3>1, <3>2, <4>2, <5>1, <5>2, <5>3 DEF AskedFine
      <4>3. QED
        BY <3>1, <4>1, <4>2
    <3>4. QED
      BY <3>1, <3>3 DEF AskedInv
  <2>2. ASSUME NEW n \in 1..Len(invoices), NEW due \in DueDates, PostInvoice(n, due)
        PROVE  AskedInv'
    <3>1. UNCHANGED notes
      BY <2>2 DEF PostInvoice
    <3>2. QED
      BY <1>1, <2>2, <3>1, PostInvoiceEffect
  <2>3. ASSUME NEW n \in 1..Len(invoices), CancelInvoice(n) PROVE AskedInv'
    <3>1. UNCHANGED notes
      BY <2>3 DEF CancelInvoice
    <3>2. [invoices[n] EXCEPT !.status = "CANCELLED"].line = invoices[n].line
      BY RowFacts DEF Invoice
    <3>3. QED
      BY <1>1, <2>3, <3>1, <3>2, CancelInvoiceEffect
  <2>4. ASSUME NEW n, NEW gate, Approve(gate, n) PROVE AskedInv'
    BY <1>1, <2>4 DEF Approve
  <2>5. ASSUME NEW n \in 1..Len(invoices), NEW q \in Returnable, CreateNote(n, q) PROVE AskedInv'
    <3>1. UNCHANGED invoices
      BY <2>5 DEF CreateNote
    <3>2. QED
      BY <2>5, <3>1, NoteAsked DEF AskedInv
  <2>6. ASSUME NEW m \in 1..Len(notes), PostNote(m) PROVE AskedInv'
    <3>1. /\ invoices' = invoices /\ Len(notes') = Len(notes)
          /\ notes'[m] = [notes[m] EXCEPT !.status = "POSTED"] /\ notes[m] \in Note
          /\ \A k \in 1..Len(notes) : k # m => notes'[k] = notes[k]
      BY <2>6, PostNoteEffect, RowFacts
    <3>2. LET r == [notes[m] EXCEPT !.status = "POSTED"]
          IN  r.invoice = notes[m].invoice /\ r.qty = notes[m].qty /\ r.overlapped = notes[m].overlapped
      BY <3>1 DEF Note
    <3>3. QED
      BY <3>1, <3>2, AskedStays DEF AskedInv
  <2>7. ASSUME NEW amount, NEW method, NEW lines, CreateCollection(amount, method, lines)
        PROVE  AskedInv'
    BY <1>1, <2>7 DEF CreateCollection
  <2>8. ASSUME NEW c \in 1..Len(collections), PostCollection(c) PROVE AskedInv'
    <3>1. UNCHANGED notes
      BY <2>8 DEF PostCollection
    <3>2. QED
      BY <1>1, <2>8, <3>1, PostCollectionEffect DEF Collects
  <2>9. ASSUME NEW c \in 1..Len(collections), CancelCollection(c) PROVE AskedInv'
    <3>1. UNCHANGED notes
      BY <2>9 DEF CancelCollection
    <3>2. QED
      BY <1>1, <2>9, <3>1, CancelCollectionEffect DEF Collects
  <2>10. ASSUME NEW s \in Slots, NEW q \in Quantities, NEW c \in Costs, Supply(s, q, c)
         PROVE  AskedInv'
    BY <1>1, <2>10 DEF Supply
  <2>11. QED
    BY <1>3, <2>1, <2>2, <2>3, <2>4, <2>5, <2>6, <2>7, <2>8, <2>9, <2>10 DEF Next
<1>4. QED
  BY <1>2, <1>3

\* However many credit notes an invoice has, no more of it comes back than was delivered,
\* unless one was created while another one was a draft: the count of POSTED notes that
\* creating a note makes is enough as long as every note is posted before the next.
THEOREM SalesReturnsWithinDelivered == Spec => []ReturnsWithinDelivered
<1>1. Init => AskedInv
  <2>1. Init => Len(invoices) = 0 /\ 1..0 = {}
    BY EmptySeq, SMT DEF Init
  <2>2. QED
    BY <2>1 DEF AskedInv
<1>2. TypeInv /\ AskedInv /\ [Next]_vars => AskedInv'
  BY StepAsked
<1>3. TypeInv /\ AskedInv => ReturnsWithinDelivered
  <2> SUFFICES ASSUME TypeInv, AskedInv, NEW n \in 1..Len(invoices),
                      TotalReturned(n) > invoices[n].line.qty
               PROVE  Overlapped(n)
    BY DEF ReturnsWithinDelivered, Overlapped
  <2>1. TotalReturned(n) = Total(Returned(n), Len(notes))
    BY DEF TotalReturned, Returned
  <2>2. invoices[n].line.qty \in Nat /\ AskedFine(n)
    BY LineFacts DEF AskedInv
  <2>3. /\ Total(Asked(n), Len(notes)) \in Int /\ Total(Returned(n), Len(notes)) \in Int
        /\ Total(Returned(n), Len(notes)) <= Total(Asked(n), Len(notes))
    BY AskedTyped
  <2>4. QED
    BY <2>1, <2>2, <2>3 DEF AskedFine
<1>4. QED
  BY <1>1, <1>2, <1>3, SpecTyped, PTL DEF Spec
-----------------------------------------------------------------------------
(* The entries in the books                                                *)

\* The documents that have entries: posted and not cancelled, but for a collection, whose
\* entry stays.
Stands(kind, n) ==
    \/ /\ kind = "invoice"
       /\ n \in 1..Len(invoices) /\ invoices[n].status \in {"POSTED", "COLLECTED"}
    \/ kind = "note" /\ n \in 1..Len(notes) /\ notes[n].status = "POSTED"
    \/ /\ kind = "collection"
       /\ n \in 1..Len(collections) /\ collections[n].status \in {"POSTED", "CANCELLED"}
    \/ kind = "supply" /\ n \in 1..Len(movements)

\* The keys a document's entries can have.
Named(kind, n) == {<<kind, n>>, <<kind, n, "cogs">>}

\* Every entry is that of a document that stands.
KeysInv ==
    /\ IsFiniteSet(DOMAIN books)
    /\ \A k \in DOMAIN books : Stands(k[1], k[2]) /\ k \in Named(k[1], k[2])

Owed(n) == IF invoices[n].line.terms = "CREDIT" THEN GrandTotal(n) ELSE 0
CostOf(n) == invoices[n].line.qty * movements[invoices[n].issue].cost

\* What cancelling invoice n finds in the books: what posting it put there.
InvoiceBooked(n) ==
    LET revenue == <<"invoice", n>>
        goods == <<"invoice", n, "cogs">>
    IN  /\ revenue \in DOMAIN books
        /\ books[revenue].receivable = Owed(n) /\ books[revenue].worth = 0
        /\ goods \in DOMAIN books <=> CostOf(n) > 0
        /\ CostOf(n) > 0 => books[goods].receivable = 0 /\ books[goods].worth = -CostOf(n)

BookedInv == \A n \in 1..Len(invoices) : Stands("invoice", n) => InvoiceBooked(n)

\* A key tells the document.
LEMMA NamedApart ==
  ASSUME NEW kind, NEW n
  PROVE  /\ <<kind, n>> # <<kind, n, "cogs">>
         /\ \A k \in Named(kind, n) : k[1] = kind /\ k[2] = n
<1>1. <<kind, n>> # <<kind, n, "cogs">>
  <2>1. Len(<<kind, n>>) = 2 /\ Len(<<kind, n, "cogs">>) = 3
    OBVIOUS
  <2>2. QED
    BY <2>1
<1>2. \A k \in Named(kind, n) : k[1] = kind /\ k[2] = n
  BY DEF Named
<1>3. QED
  BY <1>1, <1>2

\* Both columns of the books can be summed.
LEMMA BooksSummable ==
  ASSUME TypeInv, IsFiniteSet(DOMAIN books)
  PROVE  /\ Summable(books, "receivable", DOMAIN books)
         /\ Summable(books, "worth", DOMAIN books)
         /\ SumOf(books, "receivable") \in Int /\ SumOf(books, "worth") \in Int
<1>1. \A k \in DOMAIN books : books[k].receivable \in Int /\ books[k].worth \in Int
  BY OtherRows DEF BooksTyped, Entry
<1>2. Summable(books, "receivable", DOMAIN books) /\ Summable(books, "worth", DOMAIN books)
  BY <1>1 DEF Summable
<1>3. QED
  BY <1>2, SumOfType

\* A document that comes to stand adds its entries to those there are.
LEMMA PublishedKeys ==
  ASSUME KeysInv, policy.autoPosting, NEW entries, Published(entries),
         NEW kind, NEW n, DOMAIN entries \subseteq Named(kind, n), IsFiniteSet(DOMAIN entries),
         ~Stands(kind, n), Stands(kind, n)',
         \A l, m : Stands(l, m) => Stands(l, m)'
  PROVE  /\ KeysInv'
         /\ DOMAIN books' = DOMAIN books \cup DOMAIN entries
         /\ DOMAIN books \cap Named(kind, n) = {}
         /\ \A k \in DOMAIN books : books'[k] = books[k]
         /\ \A k \in DOMAIN entries : books'[k] = entries[k]
<1>1. books' = [k \in DOMAIN books \cup DOMAIN entries |->
                   IF k \in DOMAIN entries THEN entries[k] ELSE books[k]]
  BY DEF Published
<1>2. DOMAIN books \cap Named(kind, n) = {}
  BY NamedApart DEF KeysInv
<1>3. IsFiniteSet(DOMAIN books')
  BY <1>1, FS_Union DEF KeysInv
<1>4. ASSUME NEW k \in DOMAIN books' PROVE Stands(k[1], k[2])' /\ k \in Named(k[1], k[2])
  <2>1. CASE k \in DOMAIN books
    BY <2>1 DEF KeysInv
  <2>2. CASE k \in DOMAIN entries
    <3>1. k \in Named(kind, n) /\ k[1] = kind /\ k[2] = n
      BY <2>2, NamedApart
    <3>2. QED
      BY <3>1
  <2>3. QED
    BY <1>1, <2>1, <2>2
<1>5. KeysInv'
  BY <1>3, <1>4 DEF KeysInv
<1>6. QED
  BY <1>1, <1>2, <1>5

\* A document that comes to stand adds what it posts to both accounts.
LEMMA DocumentBooked ==
  ASSUME TypeInv, KeysInv, policy.autoPosting, NEW kind, NEW n,
         NEW r \in Int, NEW c \in Int, NEW w \in {-1, 1}, Published(DocumentEntries(kind, n, r, c, w)),
         ~Stands(kind, n), Stands(kind, n)',
         \A l, m : Stands(l, m) => Stands(l, m)'
  PROVE  /\ KeysInv'
         /\ \A k \in DOMAIN books : k \in DOMAIN books' /\ books'[k] = books[k]
         /\ \A k \in DOMAIN books' : k \in DOMAIN books \/ k \in Named(kind, n)
         /\ <<kind, n>> \in DOMAIN books'
         /\ books'[<<kind, n>>].receivable = r /\ books'[<<kind, n>>].worth = 0
         /\ <<kind, n, "cogs">> \in DOMAIN books' <=> c > 0
         /\ c > 0 => /\ books'[<<kind, n, "cogs">>].receivable = 0
                     /\ books'[<<kind, n, "cogs">>].worth = w * c
         /\ SumOf(books', "receivable") = SumOf(books, "receivable") + r
         /\ SumOf(books', "worth") = SumOf(books, "worth") + (IF c > 0 THEN w * c ELSE 0)
<1> DEFINE e == DocumentEntries(kind, n, r, c, w)
           x == <<kind, n>>
           y == <<kind, n, "cogs">>
           two == c > 0
<1>1. x # y /\ Named(kind, n) = {x, y}
  BY NamedApart DEF Named
<1>2. /\ DOMAIN e = {x} \cup (IF two THEN {y} ELSE {})
      /\ e[x] = Booking(r, 0)
      /\ two => e[y] = Booking(0, w * c)
  BY <1>1, Zenon DEF DocumentEntries
<1>3. DOMAIN e \subseteq Named(kind, n) /\ IsFiniteSet(DOMAIN e)
  <2>1. DOMAIN e \subseteq {x, y}
    BY <1>2
  <2>2. IsFiniteSet({x, y})
    <3>1. IsFiniteSet({} \cup {x})
      BY FS_EmptySet, FS_AddElement
    <3>2. IsFiniteSet(({} \cup {x}) \cup {y})
      BY <3>1, FS_AddElement
    <3>3. ({} \cup {x}) \cup {y} = {x, y}
      OBVIOUS
    <3>4. QED
      BY <3>2, <3>3
  <2>3. QED
    BY <1>1, <2>1, <2>2, FS_Subset
<1>4. Published(e)
  OBVIOUS
<1> HIDE DEF e
<1>5. /\ KeysInv' /\ DOMAIN books' = DOMAIN books \cup DOMAIN e
      /\ DOMAIN books \cap Named(kind, n) = {}
      /\ \A k \in DOMAIN books : books'[k] = books[k]
      /\ \A k \in DOMAIN e : books'[k] = e[k]
  BY <1>3, <1>4, PublishedKeys
<1> HIDE DEF x, y, two
<1>6. /\ x \notin DOMAIN books /\ y \notin DOMAIN books
      /\ DOMAIN books' = DOMAIN books \cup {x} \cup (IF two THEN {y} ELSE {})
      /\ books'[x].receivable = r /\ books'[x].worth = 0
      /\ two => books'[y].receivable = 0 /\ books'[y].worth = w * c
  BY <1>1, <1>2, <1>5 DEF Booking
<1>7. w * c \in Int /\ two \in BOOLEAN
  BY SMT DEF two
<1>8. /\ Summable(books, "receivable", DOMAIN books) /\ SumOf(books, "receivable") \in Int
      /\ Summable(books, "worth", DOMAIN books) /\ SumOf(books, "worth") \in Int
  BY BooksSummable DEF KeysInv
<1>9. SumOf(books', "receivable") = SumOf(books, "receivable") + r
  <2>1. /\ \A k \in DOMAIN books : books'[k].receivable = books[k].receivable
        /\ x # y /\ x \notin DOMAIN books /\ y \notin DOMAIN books
        /\ Summable(books, "receivable", DOMAIN books)
        /\ books'[x].receivable \in Int
    BY <1>1, <1>5, <1>6, <1>8
  <2>2. CASE two
    <3>1. books'[y].receivable \in Int /\ DOMAIN books' = DOMAIN books \cup {x, y}
      BY <1>6, <1>7, <2>2
    <3>2. SumOf(books', "receivable") = SumOf(books, "receivable") + books'[x].receivable + books'[y].receivable
      BY ONLY <2>1, <3>1, SumOfAddTwo
    <3>3. QED
      BY <1>6, <1>7, <1>8, <2>2, <3>2
  <2>3. CASE ~two
    <3>1. DOMAIN books' = DOMAIN books \cup {x}
      BY <1>6, <2>3
    <3>2. SumOf(books', "receivable") = SumOf(books, "receivable") + books'[x].receivable
      BY ONLY <2>1, <3>1, SumOfAdd
    <3>3. QED
      BY <1>6, <1>8, <2>3, <3>2
  <2>4. QED
    BY <1>7, <2>2, <2>3
<1>10. SumOf(books', "worth") = SumOf(books, "worth") + (IF two THEN w * c ELSE 0)
  <2>1. /\ \A k \in DOMAIN books : books'[k].worth = books[k].worth
        /\ x # y /\ x \notin DOMAIN books /\ y \notin DOMAIN books
        /\ Summable(books, "worth", DOMAIN books)
        /\ books'[x].worth \in Int
    BY <1>1, <1>5, <1>6, <1>8
  <2>2. CASE two
    <3>1. books'[y].worth \in Int /\ DOMAIN books' = DOMAIN books \cup {x, y}
      BY <1>6, <1>7, <2>2
    <3>2. SumOf(books', "worth") = SumOf(books, "worth") + books'[x].worth + books'[y].worth
      BY ONLY <2>1, <3>1, SumOfAddTwo
    <3>3. QED
      BY <1>6, <1>7, <1>8, <2>2, <3>2
  <2>3. CASE ~two
    <3>1. DOMAIN books' = DOMAIN books \cup {x}
      BY <1>6, <2>3
    <3>2. SumOf(books', "worth") = SumOf(books, "worth") + books'[x].worth
      BY ONLY <2>1, <3>1, SumOfAdd
    <3>3. QED
      BY <1>6, <1>8, <2>3, <3>2
  <2>4. QED
    BY <1>7, <2>2, <2>3
<1>11. QED
  BY <1>1, <1>5, <1>6, <1>9, <1>10 DEF x, y, two

\* A single entry.
OneEntry(kind, n, r, v) == [k \in {<<kind, n>>} |-> Booking(r, v)]

\* So does a document with a single entry.
LEMMA EntryBooked ==
  ASSUME TypeInv, KeysInv, policy.autoPosting, NEW kind, NEW n, NEW r \in Int, NEW v \in Int,
         Published(OneEntry(kind, n, r, v)),
         ~Stands(kind, n), Stands(kind, n)',
         \A l, m : Stands(l, m) => Stands(l, m)'
  PROVE  /\ KeysInv'
         /\ \A k \in DOMAIN books : k \in DOMAIN books' /\ books'[k] = books[k]
         /\ \A k \in DOMAIN books' : k \in DOMAIN books \/ k \in Named(kind, n)
         /\ SumOf(books', "receivable") = SumOf(books, "receivable") + r
         /\ SumOf(books', "worth") = SumOf(books, "worth") + v
<1> DEFINE x == <<kind, n>>
           e == OneEntry(kind, n, r, v)
<1>1. x \in Named(kind, n)
  BY DEF Named
<1>2. DOMAIN e = {x} /\ e[x].receivable = r /\ e[x].worth = v /\ Published(e)
  BY DEF OneEntry, Booking
<1> HIDE DEF e, x
<1>3. DOMAIN e \subseteq Named(kind, n) /\ IsFiniteSet(DOMAIN e)
  <2>1. IsFiniteSet({} \cup {x}) /\ {} \cup {x} = {x}
    BY FS_EmptySet, FS_AddElement
  <2>2. QED
    BY <1>1, <1>2, <2>1
<1>4. /\ KeysInv' /\ DOMAIN books' = DOMAIN books \cup DOMAIN e
      /\ DOMAIN books \cap Named(kind, n) = {}
      /\ \A k \in DOMAIN books : books'[k] = books[k]
      /\ \A k \in DOMAIN e : books'[k] = e[k]
  BY <1>2, <1>3, PublishedKeys
<1>5. /\ x \notin DOMAIN books /\ DOMAIN books' = DOMAIN books \cup {x}
      /\ books'[x].receivable = r /\ books'[x].worth = v
  BY <1>1, <1>2, <1>4
<1>6. /\ Summable(books, "receivable", DOMAIN books) /\ SumOf(books, "receivable") \in Int
      /\ Summable(books, "worth", DOMAIN books) /\ SumOf(books, "worth") \in Int
  BY BooksSummable DEF KeysInv
<1>7. SumOf(books', "receivable") = SumOf(books, "receivable") + r
  <2>1. /\ \A k \in DOMAIN books : books'[k].receivable = books[k].receivable
        /\ books'[x].receivable \in Int
    BY <1>4, <1>5
  <2>2. SumOf(books', "receivable") = SumOf(books, "receivable") + books'[x].receivable
    BY ONLY <1>5, <1>6, <2>1, SumOfAdd
  <2>3. QED
    BY <1>5, <2>2
<1>8. SumOf(books', "worth") = SumOf(books, "worth") + v
  <2>1. /\ \A k \in DOMAIN books : books'[k].worth = books[k].worth
        /\ books'[x].worth \in Int
    BY <1>4, <1>5
  <2>2. SumOf(books', "worth") = SumOf(books, "worth") + books'[x].worth
    BY ONLY <1>5, <1>6, <2>1, SumOfAdd
  <2>3. QED
    BY <1>5, <2>2
<1>9. QED
  BY <1>1, <1>2, <1>4, <1>7, <1>8

\* Taking an invoice's entries back takes back what they posted.
LEMMA InvoiceUnbooked ==
  ASSUME TypeInv, KeysInv, policy.autoPosting, NEW n \in 1..Len(invoices), InvoiceBooked(n),
         Unpublished(Named("invoice", n)), Owed(n) \in Int, CostOf(n) \in Int,
         \A l, m : Stands(l, m) /\ ~(l = "invoice" /\ m = n) => Stands(l, m)'
  PROVE  /\ KeysInv'
         /\ DOMAIN books' = DOMAIN books \ Named("invoice", n)
         /\ \A k \in DOMAIN books' : books'[k] = books[k]
         /\ SumOf(books', "receivable") = SumOf(books, "receivable") - Owed(n)
         /\ SumOf(books', "worth") =
               SumOf(books, "worth") + (IF CostOf(n) > 0 THEN CostOf(n) ELSE 0)
<1> DEFINE x == <<"invoice", n>>
           y == <<"invoice", n, "cogs">>
           two == CostOf(n) > 0
<1>1. x # y /\ Named("invoice", n) = {x, y}
  BY NamedApart DEF Named
<1>2. /\ x \in DOMAIN books /\ books[x].receivable = Owed(n) /\ books[x].worth = 0
      /\ y \in DOMAIN books <=> two
      /\ two => books[y].receivable = 0 /\ books[y].worth = -CostOf(n)
  BY DEF InvoiceBooked
<1>3. books' = [k \in DOMAIN books \ {x, y} |-> books[k]]
  BY <1>1 DEF Unpublished
<1> HIDE DEF x, y, two
<1>4. /\ DOMAIN books' = DOMAIN books \ {x, y}
      /\ \A k \in DOMAIN books' : books'[k] = books[k]
  BY <1>3
<1>5. KeysInv'
  <2>1. IsFiniteSet(DOMAIN books')
    BY <1>4, FS_Subset DEF KeysInv
  <2>2. ASSUME NEW k \in DOMAIN books' PROVE Stands(k[1], k[2])' /\ k \in Named(k[1], k[2])
    <3>1. Stands(k[1], k[2]) /\ k \in Named(k[1], k[2]) /\ k \notin Named("invoice", n)
      BY <1>1, <1>4 DEF KeysInv
    <3>2. ~(k[1] = "invoice" /\ k[2] = n)
      BY <3>1
    <3>3. QED
      BY <3>1, <3>2
  <2>3. QED
    BY <2>1, <2>2 DEF KeysInv
<1>6. /\ \A k \in DOMAIN books : books[k].receivable \in Int /\ books[k].worth \in Int
      /\ SumOf(books, "receivable") \in Int /\ SumOf(books, "worth") \in Int
  BY BooksSummable, OtherRows DEF KeysInv, BooksTyped, Entry
<1>7. Summable(books', "receivable", DOMAIN books') /\ Summable(books', "worth", DOMAIN books')
  BY <1>4, <1>5, <1>6 DEF Summable, KeysInv
<1>8. SumOf(books', "receivable") \in Int /\ SumOf(books', "worth") \in Int
  BY <1>7, SumOfType
<1>9. /\ x \notin DOMAIN books' /\ y \notin DOMAIN books'
      /\ \A k \in DOMAIN books' : /\ books[k].receivable = books'[k].receivable
                                  /\ books[k].worth = books'[k].worth
  BY <1>4
<1>10. CASE two
  <2>1. DOMAIN books = DOMAIN books' \cup {x, y}
    BY <1>2, <1>4, <1>10
  <2>2. /\ books[x].receivable \in Int /\ books[y].receivable \in Int
        /\ books[x].worth \in Int /\ books[y].worth \in Int
    BY <1>2, <1>6, <1>10
  <2>3. SumOf(books, "receivable") = SumOf(books', "receivable") + books[x].receivable + books[y].receivable
    BY ONLY <1>1, <1>7, <1>9, <2>1, <2>2, SumOfAddTwo
  <2>4. SumOf(books, "worth") = SumOf(books', "worth") + books[x].worth + books[y].worth
    BY ONLY <1>1, <1>7, <1>9, <2>1, <2>2, SumOfAddTwo
  <2>5. SumOf(books', "receivable") = SumOf(books, "receivable") - Owed(n)
    BY <1>2, <1>6, <1>8, <1>10, <2>3
  <2>6. SumOf(books', "worth") = SumOf(books, "worth") + CostOf(n)
    BY <1>2, <1>6, <1>8, <1>10, <2>4
  <2>7. QED
    BY <1>1, <1>4, <1>5, <1>10, <2>5, <2>6 DEF two
<1>11. CASE ~two
  <2>1. DOMAIN books = DOMAIN books' \cup {x}
    BY <1>2, <1>4, <1>11
  <2>2. books[x].receivable \in Int /\ books[x].worth \in Int
    BY <1>2, <1>6
  <2>3. SumOf(books, "receivable") = SumOf(books', "receivable") + books[x].receivable
    BY ONLY <1>7, <1>9, <2>1, <2>2, SumOfAdd
  <2>4. SumOf(books, "worth") = SumOf(books', "worth") + books[x].worth
    BY ONLY <1>7, <1>9, <2>1, <2>2, SumOfAdd
  <2>5. SumOf(books', "receivable") = SumOf(books, "receivable") - Owed(n)
    BY <1>2, <1>6, <1>8, <2>3
  <2>6. SumOf(books', "worth") = SumOf(books, "worth")
    BY <1>2, <1>6, <1>8, <2>4
  <2>7. QED
    BY <1>1, <1>4, <1>5, <1>6, <1>11, <2>5, <2>6 DEF two
<1>12. QED
  BY <1>10, <1>11

\* What stands stays where rows stay.
LEMMA AllStand ==
  ASSUME Len(invoices') >= Len(invoices), Len(notes') >= Len(notes),
         Len(collections') >= Len(collections), Len(movements') >= Len(movements),
         Len(invoices) \in Nat, Len(notes) \in Nat, Len(collections) \in Nat, Len(movements) \in Nat,
         Len(invoices') \in Nat, Len(notes') \in Nat, Len(collections') \in Nat, Len(movements') \in Nat,
         \A k \in 1..Len(invoices) :
            invoices[k].status \in {"POSTED", "COLLECTED"} =>
                invoices'[k].status \in {"POSTED", "COLLECTED"},
         \A k \in 1..Len(notes) : notes[k].status = "POSTED" => notes'[k].status = "POSTED",
         \A k \in 1..Len(collections) :
            collections[k].status \in {"POSTED", "CANCELLED"} =>
                collections'[k].status \in {"POSTED", "CANCELLED"}
  PROVE  \A l, m : Stands(l, m) => Stands(l, m)'
<1> SUFFICES ASSUME NEW l, NEW m, Stands(l, m) PROVE Stands(l, m)'
  OBVIOUS
<1>1. CASE l = "invoice" /\ m \in 1..Len(invoices) /\ invoices[m].status \in {"POSTED", "COLLECTED"}
  BY <1>1 DEF Stands
<1>2. CASE l = "note" /\ m \in 1..Len(notes) /\ notes[m].status = "POSTED"
  BY <1>2 DEF Stands
<1>3. CASE l = "collection" /\ m \in 1..Len(collections) /\ collections[m].status \in {"POSTED", "CANCELLED"}
  BY <1>3 DEF Stands
<1>4. CASE l = "supply" /\ m \in 1..Len(movements)
  BY <1>4 DEF Stands
<1>5. QED
  BY <1>1, <1>2, <1>3, <1>4 DEF Stands

\* Where one invoice changes, everything else that stands stays.
LEMMA OthersStand ==
  ASSUME NEW n \in 1..Len(invoices), Len(invoices') = Len(invoices),
         \A k \in 1..Len(invoices) : k # n => invoices'[k] = invoices[k],
         UNCHANGED <<notes, collections>>,
         Len(movements) \in Nat, Len(movements') \in Nat, Len(movements') >= Len(movements)
  PROVE  \A l, m : Stands(l, m) /\ ~(l = "invoice" /\ m = n) => Stands(l, m)'
<1> SUFFICES ASSUME NEW l, NEW m, Stands(l, m), ~(l = "invoice" /\ m = n) PROVE Stands(l, m)'
  OBVIOUS
<1>1. CASE l = "invoice" /\ m \in 1..Len(invoices) /\ invoices[m].status \in {"POSTED", "COLLECTED"}
  BY <1>1 DEF Stands
<1>2. CASE l = "note" /\ m \in 1..Len(notes) /\ notes[m].status = "POSTED"
  BY <1>2 DEF Stands
<1>3. CASE l = "collection" /\ m \in 1..Len(collections) /\ collections[m].status \in {"POSTED", "CANCELLED"}
  BY <1>3 DEF Stands
<1>4. CASE l = "supply" /\ m \in 1..Len(movements)
  BY <1>4 DEF Stands
<1>5. QED
  BY <1>1, <1>2, <1>3, <1>4 DEF Stands

\* An invoice that keeps its line, its goods' row and its keys finds what it booked.
LEMMA BookedStays ==
  ASSUME TypeInv, NEW d, Moves(d), NEW n \in 1..Len(invoices), Stands("invoice", n),
         InvoiceBooked(n), invoices'[n].line = invoices[n].line, invoices'[n].issue = invoices[n].issue,
         \A k \in Named("invoice", n) :
            /\ k \in DOMAIN books' <=> k \in DOMAIN books
            /\ k \in DOMAIN books => books'[k] = books[k]
  PROVE  InvoiceBooked(n)'
<1>1. invoices[n].issue \in 1..Len(movements)
  <2>1. IssueFine(n) /\ Len(movements) \in Nat
    BY LedgerState DEF TypeInv, IssueInv
  <2>2. QED
    BY <2>1 DEF IssueFine, Stands
<1>2. CostOf(n)' = CostOf(n) /\ Owed(n)' = Owed(n)
  BY <1>1 DEF CostOf, Owed, GrandTotal, Moves
<1>3. <<"invoice", n>> \in Named("invoice", n) /\ <<"invoice", n, "cogs">> \in Named("invoice", n)
  BY DEF Named
<1>4. QED
  BY <1>2, <1>3 DEF InvoiceBooked

\* The books stay in order and the accounts move by r and v.
Posts(r, v) ==
    /\ KeysInv' /\ BookedInv'
    /\ SumOf(books', "receivable") = SumOf(books, "receivable") + r
    /\ SumOf(books', "worth") = SumOf(books, "worth") + v

\* It takes this to find what the invoices booked.
LEMMA BookedKept ==
  ASSUME TypeInv, BookedInv, NEW d, Moves(d), NEW kind, NEW n,
         \A k : k \notin Named(kind, n) =>
            /\ k \in DOMAIN books' <=> k \in DOMAIN books
            /\ k \in DOMAIN books => books'[k] = books[k],
         \A j \in 1..Len(invoices') : Stands("invoice", j)' =>
            \/ InvoiceBooked(j)'
            \/ /\ ~(kind = "invoice" /\ n = j)
               /\ j \in 1..Len(invoices) /\ Stands("invoice", j)
               /\ invoices'[j].line = invoices[j].line /\ invoices'[j].issue = invoices[j].issue
  PROVE  BookedInv'
<1> SUFFICES ASSUME NEW j \in 1..Len(invoices'), Stands("invoice", j)' PROVE InvoiceBooked(j)'
  BY DEF BookedInv
<1>1. CASE /\ ~(kind = "invoice" /\ n = j)
           /\ j \in 1..Len(invoices) /\ Stands("invoice", j)
           /\ invoices'[j].line = invoices[j].line /\ invoices'[j].issue = invoices[j].issue
  <2>1. \A k \in Named("invoice", j) : k \notin Named(kind, n)
    <3>1. \A k \in Named("invoice", j) : k[1] = "invoice" /\ k[2] = j
      BY NamedApart
    <3>2. \A k \in Named(kind, n) : k[1] = kind /\ k[2] = n
      BY NamedApart
    <3>3. QED
      BY <1>1, <3>1, <3>2
  <2>2. InvoiceBooked(j)
    BY <1>1 DEF BookedInv
  <2>3. QED
    BY <1>1, <2>1, <2>2, BookedStays
<1>2. QED
  BY <1>1

\* Nothing is posted.
LEMMA BooksStay ==
  ASSUME TypeInv, KeysInv, BookedInv, NEW d, Moves(d), UNCHANGED books,
         \A l, m : Stands(l, m) => Stands(l, m)',
         \A j \in 1..Len(invoices') : Stands("invoice", j)' =>
            /\ j \in 1..Len(invoices) /\ Stands("invoice", j)
            /\ invoices'[j].line = invoices[j].line /\ invoices'[j].issue = invoices[j].issue
  PROVE  Posts(0, 0)
<1>1. KeysInv'
  BY DEF KeysInv
<1>2. BookedInv'
  <2>1. \A k : /\ k \in DOMAIN books' <=> k \in DOMAIN books
               /\ k \in DOMAIN books => books'[k] = books[k]
    OBVIOUS
  <2>2. QED
    BY <2>1, BookedKept
<1>3. SumOf(books, "receivable") \in Int /\ SumOf(books, "worth") \in Int
  BY BooksSummable DEF KeysInv
<1>4. QED
  BY <1>1, <1>2, <1>3 DEF Posts

\* What stands stays with the rows, and so does the books' order where nothing is posted.
LEMMA RowsStay ==
  ASSUME TypeInv, KeysInv, BookedInv, NEW d, Moves(d), UNCHANGED books,
         Len(invoices') \in Nat, Len(notes') \in Nat, Len(collections') \in Nat,
         Len(invoices') >= Len(invoices), Len(notes') >= Len(notes),
         Len(collections') >= Len(collections),
         \A k \in 1..Len(invoices) :
            /\ invoices[k].status \in {"POSTED", "COLLECTED"} <=>
                  invoices'[k].status \in {"POSTED", "COLLECTED"}
            /\ invoices'[k].line = invoices[k].line /\ invoices'[k].issue = invoices[k].issue,
         \A k \in 1..Len(invoices') : k > Len(invoices) => invoices'[k].status = "DRAFT",
         \A k \in 1..Len(notes) : notes[k].status = "POSTED" => notes'[k].status = "POSTED",
         \A k \in 1..Len(collections) :
            collections[k].status \in {"POSTED", "CANCELLED"} =>
                collections'[k].status \in {"POSTED", "CANCELLED"}
  PROVE  Posts(0, 0)
<1>1. /\ Len(invoices) \in Nat /\ Len(notes) \in Nat /\ Len(collections) \in Nat
      /\ Len(movements) \in Nat /\ Len(movements') \in Nat /\ Len(movements') >= Len(movements)
  BY RowFacts, LedgerState DEF TypeInv, Moves
<1>2. \A l, m : Stands(l, m) => Stands(l, m)'
  <2>1. \A k \in 1..Len(invoices) :
           invoices[k].status \in {"POSTED", "COLLECTED"} =>
               invoices'[k].status \in {"POSTED", "COLLECTED"}
    OBVIOUS
  <2>2. QED
    BY <1>1, <2>1, AllStand
<1>3. ASSUME NEW j \in 1..Len(invoices'), Stands("invoice", j)'
      PROVE  /\ j \in 1..Len(invoices) /\ Stands("invoice", j)
             /\ invoices'[j].line = invoices[j].line /\ invoices'[j].issue = invoices[j].issue
  <2>1. invoices'[j].status \in {"POSTED", "COLLECTED"}
    BY <1>3 DEF Stands
  <2>2. j \in 1..Len(invoices)
    BY <1>1, <2>1
  <2>3. QED
    BY <2>1, <2>2 DEF Stands
<1>4. QED
  BY <1>2, <1>3, BooksStay

\* The receivable account moves by r, the worth of the goods in the books by what the stock
\* comes to be worth more, as long as no slot is short.
Accounts(r) ==
    /\ KeysInv' /\ BookedInv'
    /\ SumOf(books', "receivable") = SumOf(books, "receivable") + r
    /\ Ledger!NeverShort' =>
          /\ Ledger!NeverShort
          /\ \E v \in Int : /\ SumOf(books', "worth") = SumOf(books, "worth") + v
                          /\ Ledger!Value(movements') = Ledger!Value(movements) + v

\* That is so when what is posted is what the rows are worth.
LEMMA AccountsMove ==
  ASSUME TypeInv, KeysInv, NEW r, NEW v \in Int, NEW d \in Int, Moves(d), Posts(r, v),
         Ledger!NeverShort => v = d
  PROVE  Accounts(r)
<1>1. ASSUME Ledger!NeverShort'
      PROVE  /\ Ledger!NeverShort
             /\ SumOf(books', "worth") = SumOf(books, "worth") + v
             /\ Ledger!Value(movements') = Ledger!Value(movements) + v
  BY <1>1 DEF Moves, Posts
<1>2. QED
  BY <1>1 DEF Accounts, Posts

\* Creating and approving post nothing; nor does cancelling a draft.
LEMMA CreateInvoiceBooks ==
  ASSUME TypeInv, KeysInv, BookedInv, NEW line \in Payloads, CreateInvoice(line)
  PROVE  Accounts(0)
<1>1. /\ Len(invoices') = Len(invoices) + 1
      /\ \A k \in 1..Len(invoices) : invoices'[k] = invoices[k]
      /\ invoices'[Len(invoices) + 1].status = "DRAFT"
  BY CreateInvoiceEffect
<1>2. UNCHANGED <<notes, collections, books, stock>> /\ Ledger!PricedInv
  BY DEF CreateInvoice, TypeInv
<1>3. Moves(0)
  BY <1>2, StockStays
<1>4. Len(invoices) \in Nat /\ Len(notes) \in Nat /\ Len(collections) \in Nat
  BY RowFacts
<1>5. \A k \in 1..Len(invoices') : k > Len(invoices) => invoices'[k].status = "DRAFT"
  <2>1. \A k \in 1..Len(invoices') : k > Len(invoices) => k = Len(invoices) + 1
    BY <1>1, <1>4
  <2>2. QED
    BY <1>1, <2>1
<1>6. Posts(0, 0)
  BY <1>1, <1>2, <1>3, <1>4, <1>5, RowsStay
<1>7. QED
  BY <1>3, <1>6, AccountsMove

\* Where nothing but notes and collections changes, nothing is posted.
LEMMA QuietBooks ==
  ASSUME TypeInv, KeysInv, BookedInv, UNCHANGED <<invoices, books>>, Moves(0),
         Len(notes') \in Nat, Len(collections') \in Nat,
         Len(notes') >= Len(notes), Len(collections') >= Len(collections),
         \A k \in 1..Len(notes) : notes[k].status = "POSTED" => notes'[k].status = "POSTED",
         \A k \in 1..Len(collections) :
            collections[k].status \in {"POSTED", "CANCELLED"} =>
                collections'[k].status \in {"POSTED", "CANCELLED"}
  PROVE  Accounts(0)
<1>1. Len(invoices) \in Nat /\ Len(notes) \in Nat /\ Len(collections) \in Nat
  BY RowFacts
<1>2. \A k \in 1..Len(invoices') : ~(k > Len(invoices))
  BY <1>1
<1>3. Posts(0, 0)
  BY <1>1, <1>2, RowsStay
<1>4. QED
  BY <1>3, AccountsMove

\* A note and a collection that are created, a collection that is cancelled.
LEMMA CreateNoteBooks ==
  ASSUME TypeInv, KeysInv, BookedInv, NEW n \in 1..Len(invoices), NEW q \in Returnable, CreateNote(n, q)
  PROVE  Accounts(0)
<1>1. Len(notes') = Len(notes) + 1 /\ (\A k \in 1..Len(notes) : notes'[k] = notes[k]) /\ Moves(0)
  BY CreateNoteEffect
<1>2. UNCHANGED <<invoices, collections, books>> /\ Len(notes) \in Nat /\ Len(collections) \in Nat
  BY RowFacts DEF CreateNote
<1>3. QED
  BY <1>1, <1>2, QuietBooks

\* Creating a collection books nothing.
LEMMA CreateCollectionBooks ==
  ASSUME TypeInv, KeysInv, BookedInv, NEW amount \in Amounts, NEW method \in {"AUTO", "MANUAL"},
         NEW lines \in {<<>>} \cup [1..Len(invoices) -> Amounts \cup {0}],
         CreateCollection(amount, method, lines)
  PROVE  Accounts(0)
<1>1. /\ Len(collections') = Len(collections) + 1 /\ Moves(0)
      /\ \A k \in 1..Len(collections) : collections'[k] = collections[k]
  BY CreateCollectionEffect
<1>2. UNCHANGED <<invoices, notes, books>> /\ Len(notes) \in Nat /\ Len(collections) \in Nat
  BY RowFacts DEF CreateCollection
<1>3. QED
  BY <1>1, <1>2, QuietBooks

\* Neither does cancelling one: its entry stays.
LEMMA CancelCollectionBooks ==
  ASSUME TypeInv, KeysInv, BookedInv, NEW c \in 1..Len(collections), CancelCollection(c)
  PROVE  Accounts(0)
<1>1. /\ \/ /\ collections[c].status = "DRAFT"
            /\ collections'[c].status = "VOID" /\ invoices' = invoices
         \/ /\ collections[c].status = "POSTED"
            /\ collections'[c].status = "CANCELLED"
            /\ \A n \in 1..Len(invoices) : Collects(n, -Line(c, n))
      /\ Len(invoices') = Len(invoices) /\ Len(collections') = Len(collections)
      /\ \A k \in 1..Len(collections) : k # c => collections'[k] = collections[k]
      /\ UNCHANGED <<notes, books>> /\ Moves(0)
  BY CancelCollectionEffect
<1>2. /\ Len(invoices) \in Nat /\ Len(notes) \in Nat /\ Len(collections) \in Nat
      /\ \A n \in 1..Len(invoices) : Line(c, n) \in Nat
  BY RowFacts
<1>3. \A k \in 1..Len(collections) :
         collections[k].status \in {"POSTED", "CANCELLED"} =>
             collections'[k].status \in {"POSTED", "CANCELLED"}
  BY <1>1
<1>4. ASSUME NEW k \in 1..Len(invoices)
      PROVE  /\ invoices[k].status \in {"POSTED", "COLLECTED"} <=>
                   invoices'[k].status \in {"POSTED", "COLLECTED"}
             /\ invoices'[k].line = invoices[k].line /\ invoices'[k].issue = invoices[k].issue
  <2>1. CASE invoices' = invoices
    BY <2>1
  <2>2. CASE Collects(k, -Line(c, k))
    <3>1. ~(-Line(c, k) > 0)
      BY <1>2
    <3>2. QED
      BY <2>2, <3>1 DEF Collects
  <2>3. QED
    BY <1>1, <2>1, <2>2
<1>5. \A k \in 1..Len(invoices') : ~(k > Len(invoices))
  BY <1>1, <1>2
<1>6. Posts(0, 0)
  BY <1>1, <1>2, <1>3, <1>4, <1>5, RowsStay
<1>7. QED
  BY <1>1, <1>6, AccountsMove

\* Posting an invoice books what it is owed and what its goods cost.
LEMMA PostInvoiceBooks ==
  ASSUME TypeInv, KeysInv, BookedInv, policy.autoPosting,
         NEW n \in 1..Len(invoices), NEW due \in DueDates, PostInvoice(n, due)
  PROVE  Accounts(Owed(n))
<1> DEFINE line == invoices[n].line
           avg == balances[line.slot].avg
           c == line.qty * avg
           d == (-line.qty) * avg
           v == IF c > 0 THEN (-1) * c ELSE 0
<1>1. /\ Len(invoices') = Len(invoices)
      /\ invoices'[n].line = line /\ invoices'[n].status = "POSTED"
      /\ invoices'[n].issue = Len(movements) + 1
      /\ \A k \in 1..Len(invoices) : k # n => invoices'[k] = invoices[k]
      /\ Moves(d) /\ movements'[Len(movements) + 1].cost = avg
  BY PostInvoiceEffect
<1>2. /\ invoices[n].status = "DRAFT" /\ UNCHANGED <<notes, collections, policy>>
      /\ Published(DocumentEntries("invoice", n, Owed(n), c, -1))
  BY DEF PostInvoice, Owed
<1>3. /\ line.qty \in Nat \ {0} /\ avg \in Int /\ Owed(n) \in Int
      /\ Ledger!NeverShort => avg >= 0
  BY LineFacts, LedgerState DEF TypeInv, Owed
<1>4. c \in Int /\ d \in Int /\ v \in Int /\ (avg >= 0 => v = d)
  <2>1. \A x \in Nat, y \in Int : /\ x * y \in Int /\ (-x) * y \in Int /\ (-1) * (x * y) \in Int
                                 /\ (-1) * (x * y) = (-x) * y /\ (y >= 0 => x * y >= 0)
    BY SMT
  <2> HIDE DEF avg, line
  <2>2. /\ c \in Int /\ d \in Int /\ (-1) * c \in Int /\ (-1) * c = d /\ (avg >= 0 => c >= 0)
    BY <1>3, <2>1
  <2> HIDE DEF c, d
  <2>3. c = 0 => d = 0
    BY <2>2
  <2>4. QED
    BY <2>2, <2>3
<1>5. /\ Len(invoices) \in Nat /\ Len(notes) \in Nat /\ Len(collections) \in Nat
      /\ Len(movements) \in Nat /\ Len(movements') \in Nat /\ Len(movements') >= Len(movements)
  BY <1>1, RowFacts, LedgerState DEF TypeInv, Moves
<1> HIDE DEF d, v, c, avg
<1>6. ~Stands("invoice", n) /\ Stands("invoice", n)'
  BY <1>1, <1>2 DEF Stands
<1>7. \A l, m : Stands(l, m) => Stands(l, m)'
  <2>1. \A l, m : Stands(l, m) /\ ~(l = "invoice" /\ m = n) => Stands(l, m)'
    BY <1>1, <1>2, <1>5, OthersStand
  <2>2. QED
    BY <1>6, <2>1
<1>8. /\ KeysInv'
      /\ \A k \in DOMAIN books : k \in DOMAIN books' /\ books'[k] = books[k]
      /\ \A k \in DOMAIN books' : k \in DOMAIN books \/ k \in Named("invoice", n)
      /\ <<"invoice", n>> \in DOMAIN books'
      /\ books'[<<"invoice", n>>].receivable = Owed(n) /\ books'[<<"invoice", n>>].worth = 0
      /\ <<"invoice", n, "cogs">> \in DOMAIN books' <=> c > 0
      /\ c > 0 => /\ books'[<<"invoice", n, "cogs">>].receivable = 0
                  /\ books'[<<"invoice", n, "cogs">>].worth = (-1) * c
      /\ SumOf(books', "receivable") = SumOf(books, "receivable") + Owed(n)
      /\ SumOf(books', "worth") = SumOf(books, "worth") + (IF c > 0 THEN (-1) * c ELSE 0)
  BY <1>2, <1>3, <1>4, <1>6, <1>7, DocumentBooked
<1>9. InvoiceBooked(n)'
  <2>1. Owed(n)' = Owed(n) /\ CostOf(n)' = c
    BY <1>1 DEF Owed, GrandTotal, CostOf, c
  <2>2. (-1) * c = -c
    BY <1>4
  <2>3. QED
    BY <1>8, <2>1, <2>2 DEF InvoiceBooked
<1>10. BookedInv'
  <2>1. \A k : k \notin Named("invoice", n) =>
           /\ k \in DOMAIN books' <=> k \in DOMAIN books
           /\ k \in DOMAIN books => books'[k] = books[k]
    BY <1>8
  <2>2. ASSUME NEW j \in 1..Len(invoices'), Stands("invoice", j)'
        PROVE  \/ InvoiceBooked(j)'
               \/ /\ ~("invoice" = "invoice" /\ n = j)
                  /\ j \in 1..Len(invoices) /\ Stands("invoice", j)
                  /\ invoices'[j].line = invoices[j].line /\ invoices'[j].issue = invoices[j].issue
    <3>1. CASE j = n
      BY <1>9, <3>1
    <3>2. CASE j # n
      BY <1>1, <2>2, <3>2 DEF Stands
    <3>3. QED
      BY <3>1, <3>2
  <2>3. Moves(d) /\ <<"invoice", n>> \in Named("invoice", n)
    BY <1>1 DEF Named
  <2>4. QED
    BY ONLY TypeInv, BookedInv, <2>1, <2>2, <2>3, BookedKept
<1>11. Posts(Owed(n), v)
  BY <1>8, <1>10 DEF Posts, v
<1>12. QED
  BY <1>1, <1>3, <1>4, <1>11, AccountsMove

\* Cancelling a posted invoice takes both back.
LEMMA CancelInvoiceBooks ==
  ASSUME TypeInv, KeysInv, BookedInv, policy.autoPosting,
         NEW n \in 1..Len(invoices), CancelInvoice(n)
  PROVE  Accounts(IF invoices[n].status = "POSTED" THEN -Owed(n) ELSE 0)
<1>1. /\ Len(invoices') = Len(invoices)
      /\ invoices'[n] = [invoices[n] EXCEPT !.status = "CANCELLED"]
      /\ \A k \in 1..Len(invoices) : k # n => invoices'[k] = invoices[k]
      /\ \/ /\ invoices[n].status = "DRAFT"
            /\ Moves(0) /\ books' = books
         \/ /\ invoices[n].status = "POSTED"
            /\ Moves(CostOf(n))
            /\ Unpublished(Named("invoice", n))
  BY CancelInvoiceEffect DEF Named, CostOf
<1>2. /\ invoices'[n].line = invoices[n].line /\ invoices'[n].issue = invoices[n].issue
      /\ invoices'[n].status = "CANCELLED"
  BY <1>1, RowFacts DEF Invoice
<1>3. UNCHANGED <<notes, collections, policy>>
  BY DEF CancelInvoice
<1>4. /\ Len(invoices) \in Nat /\ Len(notes) \in Nat /\ Len(collections) \in Nat
      /\ Len(movements) \in Nat
  BY RowFacts, LedgerState DEF TypeInv
<1>5. CASE invoices[n].status = "DRAFT"
  <2>1. Moves(0) /\ UNCHANGED books
    BY <1>1, <1>5
  <2>2. \A k \in 1..Len(invoices) :
           /\ invoices[k].status \in {"POSTED", "COLLECTED"} <=>
                 invoices'[k].status \in {"POSTED", "COLLECTED"}
           /\ invoices'[k].line = invoices[k].line /\ invoices'[k].issue = invoices[k].issue
    BY <1>1, <1>2, <1>5
  <2>3. \A k \in 1..Len(invoices') : ~(k > Len(invoices))
    BY <1>1, <1>4
  <2>4. Posts(0, 0)
    BY <1>1, <1>3, <1>4, <2>1, <2>2, <2>3, RowsStay
  <2>5. Accounts(0)
    BY <2>1, <2>4, AccountsMove
  <2>6. QED
    BY <1>5, <2>5
<1>6. CASE invoices[n].status = "POSTED"
  <2>1. Moves(CostOf(n)) /\ Unpublished(Named("invoice", n))
    BY <1>1, <1>6
  <2>2. Owed(n) \in Int /\ CostOf(n) \in Int /\ (Ledger!NeverShort => CostOf(n) >= 0)
    <3>1. IssueFine(n)
      BY DEF TypeInv, IssueInv
    <3>2. invoices[n].issue \in 1..Len(movements)
      BY <1>4, <1>6, <3>1 DEF IssueFine
    <3>3. /\ movements[invoices[n].issue].cost \in Int
          /\ Ledger!NeverShort => movements[invoices[n].issue].cost >= 0
      BY <3>2, LedgerState DEF TypeInv
    <3>4. \A x \in Nat, y \in Int : x * y \in Int /\ (y >= 0 => x * y >= 0)
      BY SMT
    <3>5. invoices[n].line.qty \in Nat /\ Owed(n) \in Int
      BY LineFacts DEF Owed
    <3>6. QED
      BY <3>3, <3>4, <3>5 DEF CostOf
  <2>3. Len(movements') \in Nat /\ Len(movements') >= Len(movements)
    BY <2>1 DEF Moves
  <2>4. \A l, m : Stands(l, m) /\ ~(l = "invoice" /\ m = n) => Stands(l, m)'
    BY <1>1, <1>3, <1>4, <2>3, OthersStand
  <2>5. InvoiceBooked(n)
    BY <1>6 DEF BookedInv, Stands
  <2>6. /\ KeysInv'
        /\ DOMAIN books' = DOMAIN books \ Named("invoice", n)
        /\ \A k \in DOMAIN books' : books'[k] = books[k]
        /\ SumOf(books', "receivable") = SumOf(books, "receivable") - Owed(n)
        /\ SumOf(books', "worth") =
              SumOf(books, "worth") + (IF CostOf(n) > 0 THEN CostOf(n) ELSE 0)
    BY <2>1, <2>2, <2>4, <2>5, InvoiceUnbooked
  <2>7. BookedInv'
    <3>1. \A k : k \notin Named("invoice", n) =>
             /\ k \in DOMAIN books' <=> k \in DOMAIN books
             /\ k \in DOMAIN books => books'[k] = books[k]
      BY <2>6
    <3>2. ASSUME NEW j \in 1..Len(invoices'), Stands("invoice", j)'
          PROVE  /\ ~("invoice" = "invoice" /\ n = j)
                 /\ j \in 1..Len(invoices) /\ Stands("invoice", j)
                 /\ invoices'[j].line = invoices[j].line /\ invoices'[j].issue = invoices[j].issue
      BY <1>1, <1>2, <3>2 DEF Stands
    <3>3. QED
      BY <2>1, <3>1, <3>2, BookedKept
  <2> DEFINE v == IF CostOf(n) > 0 THEN CostOf(n) ELSE 0
             r == -Owed(n)
  <2>8. SumOf(books, "receivable") \in Int
    BY BooksSummable DEF KeysInv
  <2>9. Posts(r, v)
    BY <2>2, <2>6, <2>7, <2>8 DEF Posts
  <2>10. v \in Int /\ (Ledger!NeverShort => v = CostOf(n))
    BY <2>2
  <2> HIDE DEF v, r
  <2>11. Accounts(r)
    BY <2>1, <2>2, <2>9, <2>10, AccountsMove
  <2>12. QED
    BY <1>6, <2>11 DEF r
<1>7. QED
  BY <1>1, <1>5, <1>6

\* Where documents other than invoices come to stand, the invoices find what they booked.
LEMMA OthersBooked ==
  ASSUME TypeInv, BookedInv, NEW d, Moves(d), NEW kind, NEW n, kind # "invoice",
         \A k \in DOMAIN books : k \in DOMAIN books' /\ books'[k] = books[k],
         \A k \in DOMAIN books' : k \in DOMAIN books \/ k \in Named(kind, n),
         Len(invoices') = Len(invoices),
         \A j \in 1..Len(invoices) :
            /\ invoices[j].status \in {"POSTED", "COLLECTED"} <=>
                  invoices'[j].status \in {"POSTED", "COLLECTED"}
            /\ invoices'[j].line = invoices[j].line /\ invoices'[j].issue = invoices[j].issue
  PROVE  BookedInv'
<1>1. \A k : k \notin Named(kind, n) =>
         /\ k \in DOMAIN books' <=> k \in DOMAIN books
         /\ k \in DOMAIN books => books'[k] = books[k]
  OBVIOUS
<1>2. ASSUME NEW j \in 1..Len(invoices'), Stands("invoice", j)'
      PROVE  /\ ~(kind = "invoice" /\ n = j)
             /\ j \in 1..Len(invoices) /\ Stands("invoice", j)
             /\ invoices'[j].line = invoices[j].line /\ invoices'[j].issue = invoices[j].issue
  BY <1>2 DEF Stands
<1>3. <<kind, n>> \in Named(kind, n)
  BY DEF Named
<1>4. QED
  BY ONLY TypeInv, BookedInv, Moves(d), <1>1, <1>2, <1>3, BookedKept

\* Posting a note credits its price and books its goods in at the cost they left at.
LEMMA PostNoteBooks ==
  ASSUME TypeInv, KeysInv, BookedInv, policy.autoPosting, NEW m \in 1..Len(notes), PostNote(m)
  PROVE  Accounts(-(notes[m].qty * invoices[notes[m].invoice].line.price))
<1> DEFINE q == notes[m].qty
           p == invoices[notes[m].invoice].line.price
           u == movements[invoices[notes[m].invoice].issue].cost
           c == q * u
           r == -(q * p)
           v == IF c > 0 THEN 1 * c ELSE 0
<1>1. /\ UNCHANGED <<invoices, collections, policy>> /\ notes[m].status = "DRAFT"
      /\ Len(notes') = Len(notes)
      /\ notes'[m] = [notes[m] EXCEPT !.status = "POSTED"]
      /\ \A k \in 1..Len(notes) : k # m => notes'[k] = notes[k]
      /\ Moves(c) /\ Published(DocumentEntries("note", m, r, c, 1))
  BY PostNoteEffect
<1>2. notes'[m].status = "POSTED"
  BY <1>1, RowFacts DEF Note
<1>3. /\ Len(invoices) \in Nat /\ Len(notes) \in Nat /\ Len(collections) \in Nat
      /\ Len(movements) \in Nat /\ Len(movements') \in Nat /\ Len(movements') >= Len(movements)
  BY <1>1, RowFacts, LedgerState DEF TypeInv, Moves
<1>4. q \in Nat /\ p \in Nat /\ u \in Int /\ (Ledger!NeverShort => u >= 0)
  <2> DEFINE n == notes[m].invoice
  <2>1. n \in 1..Len(invoices) /\ q \in Nat
    BY RowFacts
  <2>2. invoices[n].issue # 0 /\ invoices[n].issue \in 0..Len(movements) /\ p \in Nat
    BY <2>1, RowFacts, OtherRows, LineFacts
  <2>3. invoices[n].issue \in 1..Len(movements)
    BY <1>3, <2>2
  <2>4. QED
    BY <2>1, <2>2, <2>3, LedgerState DEF TypeInv
<1>5. c \in Int /\ r \in Int /\ v \in Int /\ (u >= 0 => v = c)
  <2>1. \A x \in Nat, y \in Int : x * y \in Int /\ -(x * y) \in Int /\ (y >= 0 => x * y >= 0)
    BY SMT
  <2> HIDE DEF q, p, u
  <2>2. c \in Int /\ r \in Int /\ (u >= 0 => c >= 0)
    BY <1>4, <2>1
  <2> HIDE DEF c, r
  <2>3. QED
    BY <2>2
<1> HIDE DEF q, p, u, c, r, v
<1>6. ~Stands("note", m) /\ Stands("note", m)'
  BY <1>1, <1>2 DEF Stands
<1>7. \A l, k : Stands(l, k) => Stands(l, k)'
  <2>1. \A k \in 1..Len(notes) : notes[k].status = "POSTED" => notes'[k].status = "POSTED"
    BY <1>1, <1>2
  <2>2. /\ \A k \in 1..Len(invoices) :
              invoices[k].status \in {"POSTED", "COLLECTED"} =>
                  invoices'[k].status \in {"POSTED", "COLLECTED"}
        /\ \A k \in 1..Len(collections) :
              collections[k].status \in {"POSTED", "CANCELLED"} =>
                  collections'[k].status \in {"POSTED", "CANCELLED"}
        /\ invoices' = invoices /\ collections' = collections
    BY <1>1
  <2>3. QED
    BY <1>1, <1>3, <2>1, <2>2, AllStand
<1>8. /\ KeysInv'
      /\ \A k \in DOMAIN books : k \in DOMAIN books' /\ books'[k] = books[k]
      /\ \A k \in DOMAIN books' : k \in DOMAIN books \/ k \in Named("note", m)
      /\ SumOf(books', "receivable") = SumOf(books, "receivable") + r
      /\ SumOf(books', "worth") = SumOf(books, "worth") + (IF c > 0 THEN 1 * c ELSE 0)
  <2>1. Published(DocumentEntries("note", m, r, c, 1)) /\ r \in Int /\ c \in Int /\ 1 \in {-1, 1}
    BY <1>1, <1>5
  <2>2. QED
    BY ONLY TypeInv, KeysInv, policy.autoPosting, <1>6, <1>7, <2>1, DocumentBooked
<1>9. BookedInv'
  BY <1>1, <1>8, OthersBooked
<1>10. Posts(r, v)
  BY <1>8, <1>9 DEF Posts, v
<1>11. Accounts(r)
  BY <1>1, <1>4, <1>5, <1>10, AccountsMove
<1>12. QED
  BY <1>11 DEF r, q, p

\* Posting a collection credits all of it.
LEMMA PostCollectionBooks ==
  ASSUME TypeInv, KeysInv, BookedInv, policy.autoPosting,
         NEW c \in 1..Len(collections), PostCollection(c)
  PROVE  Accounts(-collections[c].amount)
<1> DEFINE r == -collections[c].amount
<1>1. /\ collections[c].status = "DRAFT" /\ Len(invoices') = Len(invoices)
      /\ \A n \in 1..Len(invoices) : Collects(n, LineOf(PostedLines(c), n))
      /\ Len(collections') = Len(collections) /\ collections'[c].status = "POSTED"
      /\ \A k \in 1..Len(collections) : k # c => collections'[k] = collections[k]
      /\ Published(OneEntry("collection", c, r, 0))
      /\ Moves(0)
  BY PostCollectionEffect DEF OneEntry
<1>2. UNCHANGED <<notes, policy>> /\ r \in Int
  BY RowFacts DEF PostCollection
<1>3. /\ Len(invoices) \in Nat /\ Len(notes) \in Nat /\ Len(collections) \in Nat
      /\ Len(movements) \in Nat /\ Len(movements') \in Nat /\ Len(movements') >= Len(movements)
  BY <1>1, RowFacts, LedgerState DEF TypeInv, Moves
<1>4. ASSUME NEW j \in 1..Len(invoices)
      PROVE  /\ invoices[j].status \in {"POSTED", "COLLECTED"} <=>
                   invoices'[j].status \in {"POSTED", "COLLECTED"}
             /\ invoices'[j].line = invoices[j].line /\ invoices'[j].issue = invoices[j].issue
  <2> DEFINE got == LineOf(PostedLines(c), j)
  <2>1. got \in Nat /\ (got # 0 => invoices[j].status \in {"POSTED", "COLLECTED"})
    BY PostedLinesTyped
  <2>2. Collects(j, got)
    BY <1>1
  <2> HIDE DEF got
  <2>3. QED
    BY <2>1, <2>2 DEF Collects
<1> HIDE DEF r
<1>5. ~Stands("collection", c) /\ Stands("collection", c)'
  BY <1>1 DEF Stands
<1>6. \A l, k : Stands(l, k) => Stands(l, k)'
  <2>1. \A k \in 1..Len(collections) :
           collections[k].status \in {"POSTED", "CANCELLED"} =>
               collections'[k].status \in {"POSTED", "CANCELLED"}
    BY <1>1
  <2>2. /\ \A k \in 1..Len(invoices) :
              invoices[k].status \in {"POSTED", "COLLECTED"} =>
                  invoices'[k].status \in {"POSTED", "COLLECTED"}
        /\ \A k \in 1..Len(notes) : notes[k].status = "POSTED" => notes'[k].status = "POSTED"
        /\ Len(invoices') = Len(invoices) /\ notes' = notes /\ Len(collections') = Len(collections)
    BY <1>1, <1>2, <1>4
  <2>3. QED
    BY <1>3, <2>1, <2>2, AllStand
<1>7. /\ KeysInv'
      /\ \A k \in DOMAIN books : k \in DOMAIN books' /\ books'[k] = books[k]
      /\ \A k \in DOMAIN books' : k \in DOMAIN books \/ k \in Named("collection", c)
      /\ SumOf(books', "receivable") = SumOf(books, "receivable") + r
      /\ SumOf(books', "worth") = SumOf(books, "worth") + 0
  BY <1>1, <1>2, <1>5, <1>6, EntryBooked
<1>8. BookedInv'
  BY <1>1, <1>4, <1>7, OthersBooked
<1>9. Posts(r, 0)
  BY <1>7, <1>8 DEF Posts
<1>10. Accounts(r)
  BY <1>1, <1>9, AccountsMove
<1>11. QED
  BY <1>10 DEF r

\* Goods that are bought are booked at their cost.
LEMMA SupplyBooks ==
  ASSUME TypeInv, KeysInv, BookedInv, policy.autoPosting,
         NEW s \in Slots, NEW q \in Quantities, NEW c \in Costs, Supply(s, q, c)
  PROVE  Accounts(0)
<1> SUFFICES ASSUME NEW k, k = Len(movements) + 1 PROVE Accounts(0)
  OBVIOUS
<1> DEFINE v == q * c
<1>1. /\ UNCHANGED <<invoices, notes, collections, policy>>
      /\ Published(OneEntry("supply", k, 0, v))
      /\ v \in Int /\ Moves(v) /\ Len(movements') = k
  BY SupplyEffect DEF OneEntry
<1>2. /\ Len(invoices) \in Nat /\ Len(notes) \in Nat /\ Len(collections) \in Nat
      /\ Len(movements) \in Nat /\ Len(movements') \in Nat /\ Len(movements') >= Len(movements)
  BY <1>1, RowFacts, LedgerState DEF TypeInv, Moves
<1>3. k \notin 1..Len(movements) /\ k \in 1..Len(movements')
  BY <1>1, <1>2
<1> HIDE DEF v
<1>4. ~Stands("supply", k) /\ Stands("supply", k)'
  BY <1>3 DEF Stands
<1>5. \A l, m : Stands(l, m) => Stands(l, m)'
  <2>1. /\ \A i \in 1..Len(invoices) :
              invoices[i].status \in {"POSTED", "COLLECTED"} =>
                  invoices'[i].status \in {"POSTED", "COLLECTED"}
        /\ \A i \in 1..Len(notes) : notes[i].status = "POSTED" => notes'[i].status = "POSTED"
        /\ \A i \in 1..Len(collections) :
              collections[i].status \in {"POSTED", "CANCELLED"} =>
                  collections'[i].status \in {"POSTED", "CANCELLED"}
        /\ invoices' = invoices /\ notes' = notes /\ collections' = collections
    BY <1>1
  <2>2. QED
    BY <1>2, <2>1, AllStand
<1>6. /\ KeysInv'
      /\ \A x \in DOMAIN books : x \in DOMAIN books' /\ books'[x] = books[x]
      /\ \A x \in DOMAIN books' : x \in DOMAIN books \/ x \in Named("supply", k)
      /\ SumOf(books', "receivable") = SumOf(books, "receivable") + 0
      /\ SumOf(books', "worth") = SumOf(books, "worth") + v
  BY <1>1, <1>4, <1>5, EntryBooked
<1>7. BookedInv'
  BY <1>1, <1>6, OthersBooked
<1>8. Posts(0, v)
  BY <1>6, <1>7 DEF Posts
<1>9. QED
  BY <1>1, <1>8, AccountsMove

\* The settings stay.
LEMMA PolicyStays ==
  ASSUME [Next]_vars
  PROVE  policy' = policy
BY DEF Next, vars, CreateInvoice, PostInvoice, CancelInvoice, Approve, CreateNote, PostNote,
       CreateCollection, PostCollection, CancelCollection, Supply

\* Where documents and books stay as they are, so does the order of the books.
LEMMA StillBooks ==
  ASSUME TypeInv, KeysInv, BookedInv, UNCHANGED <<invoices, notes, collections, books, stock>>
  PROVE  Accounts(0)
<1>1. Moves(0) /\ Len(notes) \in Nat /\ Len(collections) \in Nat
  BY StockStays, RowFacts DEF TypeInv
<1>2. QED
  BY <1>1, QuietBooks

-----------------------------------------------------------------------------
(* The inventory account                                                   *)

\* The goods in the books are worth what the ledger is worth.
InventoryFine ==
    Ledger!NeverShort => SumOf(books, "worth") = Ledger!Value(movements)

BooksInv == policy.autoPosting => KeysInv /\ BookedInv /\ InventoryFine

\* Every step books what it moves.
LEMMA StepBooks ==
  ASSUME TypeInv, BooksInv, [Next]_vars
  PROVE  BooksInv'
<1>1. SUFFICES ASSUME policy.autoPosting PROVE KeysInv' /\ BookedInv' /\ InventoryFine'
  BY PolicyStays DEF BooksInv
<1>2. KeysInv /\ BookedInv /\ InventoryFine
  BY <1>1 DEF BooksInv
<1>3. ASSUME NEW r, Accounts(r) PROVE KeysInv' /\ BookedInv' /\ InventoryFine'
  BY <1>2, <1>3 DEF Accounts, InventoryFine
<1>4. CASE UNCHANGED vars
  <2>1. UNCHANGED <<invoices, notes, collections, books, stock>>
    BY <1>4 DEF vars, stock
  <2>2. QED
    BY <1>2, <1>3, <2>1, StillBooks
<1>5. CASE Next
  <2>1. ASSUME NEW line \in Payloads, CreateInvoice(line) PROVE \E r : Accounts(r)
    BY <1>2, <2>1, CreateInvoiceBooks
  <2>2. ASSUME NEW n \in 1..Len(invoices), NEW due \in DueDates, PostInvoice(n, due)
        PROVE  \E r : Accounts(r)
    BY <1>1, <1>2, <2>2, PostInvoiceBooks
  <2>3. ASSUME NEW n \in 1..Len(invoices), CancelInvoice(n) PROVE \E r : Accounts(r)
    BY <1>1, <1>2, <2>3, CancelInvoiceBooks
  <2>4. ASSUME NEW n, NEW gate, Approve(gate, n) PROVE \E r : Accounts(r)
    <3>1. UNCHANGED <<invoices, notes, collections, books, stock>>
      BY <2>4 DEF Approve
    <3>2. QED
      BY <1>2, <3>1, StillBooks
  <2>5. ASSUME NEW n \in 1..Len(invoices), NEW q \in Returnable, CreateNote(n, q)
        PROVE  \E r : Accounts(r)
    BY <1>2, <2>5, CreateNoteBooks
  <2>6. ASSUME NEW m \in 1..Len(notes), PostNote(m) PROVE \E r : Accounts(r)
    BY <1>1, <1>2, <2>6, PostNoteBooks
  <2>7. ASSUME NEW amount \in Amounts, NEW method \in {"AUTO", "MANUAL"},
               NEW lines \in {<<>>} \cup [1..Len(invoices) -> Amounts \cup {0}],
               CreateCollection(amount, method, lines)
        PROVE  \E r : Accounts(r)
    BY <1>2, <2>7, CreateCollectionBooks
  <2>8. ASSUME NEW c \in 1..Len(collections), PostCollection(c) PROVE \E r : Accounts(r)
    BY <1>1, <1>2, <2>8, PostCollectionBooks
  <2>9. ASSUME NEW c \in 1..Len(collections), CancelCollection(c) PROVE \E r : Accounts(r)
    BY <1>2, <2>9, CancelCollectionBooks
  <2>10. ASSUME NEW s \in Slots, NEW q \in Quantities, NEW c \in Costs, Supply(s, q, c)
         PROVE  \E r : Accounts(r)
    BY <1>1, <1>2, <2>10, SupplyBooks
  <2>11. \E r : Accounts(r)
    BY <1>5, <2>1, <2>2, <2>3, <2>4, <2>5, <2>6, <2>7, <2>8, <2>9, <2>10 DEF Next
  <2>12. QED
    BY <1>3, <2>11
<1>6. QED
  BY <1>4, <1>5

\* At first there is nothing to book and nothing booked.
LEMMA InitBooks == Init => BooksInv
<1> SUFFICES ASSUME Init PROVE KeysInv /\ BookedInv /\ InventoryFine
  BY DEF BooksInv
<1>1. DOMAIN books = {} /\ Len(invoices) = 0 /\ 1..0 = {}
  BY EmptySeq, SMT DEF Init
<1>2. KeysInv /\ BookedInv
  BY <1>1, FS_EmptySet DEF KeysInv, BookedInv
<1>3. Ledger!Value(movements) = 0
  <2>1. /\ movements = <<>> /\ allowNegative \in BOOLEAN
        /\ balances = [s \in Ledger!Slots |-> Ledger!NoRow]
    BY SameShort, PoliciesAssumption DEF Init, Stock!NoRow, Ledger!NoRow
  <2>2. QED
    BY <2>1, Ledger!EmptyPriced, StockAssumption
<1>4. SumOf(books, "worth") = 0
  <2>1. Summable(books, "worth", DOMAIN books)
    BY <1>1, FS_EmptySet DEF Summable
  <2>2. QED
    BY <1>1, <2>1, SumOfType
<1>5. QED
  BY <1>2, <1>3, <1>4 DEF InventoryFine

\* So they always are.
LEMMA SpecBooks == Spec => []BooksInv
BY InitBooks, StepBooks, SpecTyped, PTL DEF Spec

\* The books differ from what their entries are worth by the rounding of the lines.
LEMMA BooksNear ==
  ASSUME TypeInv, IsFiniteSet(DOMAIN books)
  PROVE  LET gap == LineUnit * Account("inventory") - SumOf(books, "worth")
             slack == LineUnit * Cardinality({k \in DOMAIN books : books[k].inventory # 0})
         IN  -slack <= 2 * gap /\ 2 * gap <= slack
<1>1. ASSUME NEW k \in DOMAIN books
      PROVE  /\ books[k].inventory \in Int /\ books[k].worth \in Int
             /\ books[k].inventory = Stored(books[k].worth)
             /\ books[k].inventory = 0 => books[k].worth = 0
  <2>1. books[k] \in Entry
    BY DEF TypeInv, BooksTyped
  <2>2. QED
    BY <2>1 DEF Entry
<1>2. Summable(books, "inventory", DOMAIN books) /\ Summable(books, "worth", DOMAIN books)
  BY <1>1 DEF Summable
<1>3. \A k \in DOMAIN books :
         /\ -LineUnit <= 2 * (LineUnit * books[k].inventory - books[k].worth)
         /\ 2 * (LineUnit * books[k].inventory - books[k].worth) <= LineUnit
         /\ books[k].inventory = 0 => books[k].worth = 0
  BY <1>1, StoredNear
<1>4. Account("inventory") = SumOf(books, "inventory")
  BY Zenon DEF Account, SumOf
<1>5. LineUnit \in Nat
  BY LineUnitAssumption
<1>6. QED
  BY <1>2, <1>3, <1>4, <1>5, SumsNear

\* With auto-posting, and as long as no slot was ever short, the inventory account is what
\* the stock ledger is worth, but for half a unit of a line at most for every entry about
\* goods that stands: for all documents, in every order, at whatever average the goods left.
THEOREM SalesInventoryReconciles == Spec => []InventoryReconciles
<1>1. TypeInv /\ BooksInv => InventoryReconciles
  <2> DEFINE value == Total([n \in 1..Len(movements) |-> movements[n].qty * movements[n].cost],
                            Len(movements))
             gap == LineUnit * Account("inventory") - value
             slack == LineUnit * Cardinality({k \in DOMAIN books : books[k].inventory # 0})
  <2> SUFFICES ASSUME TypeInv, BooksInv, policy.autoPosting, \A s \in Slots : ~Stock!EverShort(s)
               PROVE  -slack <= 2 * gap /\ 2 * gap <= slack
    BY DEF InventoryReconciles
  <2>1. SumOf(books, "worth") = Ledger!Value(movements) /\ IsFiniteSet(DOMAIN books)
    BY SameShort DEF BooksInv, InventoryFine, KeysInv
  <2>2. Ledger!Value(movements) = value
    BY SameShort DEF Ledger!Value
  <2>3. QED
    BY <2>1, <2>2, BooksNear
<1>2. QED
  BY <1>1, SpecTyped, SpecBooks, PTL

-----------------------------------------------------------------------------
(* The receivable account                                                  *)

\* What is still claimed of invoice n, what note m credits, and what collection c holds of
\* money that no invoice shows.
Claim(n) ==
    (IF invoices[n].status \in {"POSTED", "COLLECTED"} THEN Owed(n) ELSE 0) - invoices[n].collected
Credit(m) ==
    IF notes[m].status = "POSTED"
    THEN notes[m].qty * invoices[notes[m].invoice].line.price ELSE 0
Spare(c) ==
    IF collections[c].status = "POSTED" THEN collections[c].amount - LineSum(collections[c].lines)
    ELSE IF collections[c].status = "CANCELLED" THEN collections[c].amount
    ELSE 0

Claims == [n \in 1..Len(invoices) |-> Claim(n)]
Credits == [m \in 1..Len(notes) |-> Credit(m)]
Spares == [c \in 1..Len(collections) |-> Spare(c)]

Claimed == Total(Claims, Len(invoices))

\* What the documents make of the receivable account.
Net == Claimed - Credited - Unapplied

\* The parts of the account are integers.
LEMMA NetTyped ==
  ASSUME TypeInv
  PROVE  /\ Len(invoices) \in Nat /\ Len(notes) \in Nat /\ Len(collections) \in Nat
         /\ \A n \in 1..Len(invoices) : Claim(n) \in Int /\ Owed(n) \in Int
         /\ \A m \in 1..Len(notes) : Credit(m) \in Int
         /\ \A c \in 1..Len(collections) : Spare(c) \in Int /\ LineSum(collections[c].lines) \in Int
         /\ Claims \in [1..Len(invoices) -> Int]
         /\ Credits \in [1..Len(notes) -> Int]
         /\ Spares \in [1..Len(collections) -> Int]
         /\ Claimed \in Int
         /\ Credited = Total(Credits, Len(notes)) /\ Credited \in Int
         /\ Unapplied = Total(Spares, Len(collections)) /\ Unapplied \in Int
<1>1. Len(invoices) \in Nat /\ Len(notes) \in Nat /\ Len(collections) \in Nat
  BY RowFacts
<1>2. \A n \in 1..Len(invoices) : Claim(n) \in Int /\ Owed(n) \in Int
  BY RowFacts, LineFacts DEF Claim, Owed
<1>3. ASSUME NEW m \in 1..Len(notes) PROVE Credit(m) \in Int
  <2>1. notes[m].qty \in Nat /\ invoices[notes[m].invoice].line.price \in Nat
    BY RowFacts, LineFacts
  <2>2. \A x, y \in Nat : x * y \in Int
    BY SMT
  <2>3. QED
    BY <2>1, <2>2 DEF Credit
<1>4. ASSUME NEW c \in 1..Len(collections)
      PROVE  Spare(c) \in Int /\ LineSum(collections[c].lines) \in Int
  <2>1. collections[c].lines \in Seq(Nat) /\ collections[c].amount \in Int
    BY RowFacts
  <2> DEFINE ls == collections[c].lines
             N == Len(ls)
  <2>2. N \in Nat /\ ls \in [1..N -> Int]
    BY <2>1
  <2> HIDE DEF ls, N
  <2>3. Total(ls, N) \in Int
    BY <2>2, TotalType
  <2>4. LineSum(collections[c].lines) \in Int
    BY <2>3 DEF LineSum, ls, N
  <2>5. QED
    BY <2>1, <2>4 DEF Spare
<1>5. /\ Claims \in [1..Len(invoices) -> Int] /\ Credits \in [1..Len(notes) -> Int]
      /\ Spares \in [1..Len(collections) -> Int]
  BY <1>2, <1>3, <1>4 DEF Claims, Credits, Spares
<1>6. Credited = Total(Credits, Len(notes)) /\ Unapplied = Total(Spares, Len(collections))
  BY DEF Credited, Credits, Credit, Unapplied, Spares, Spare
<1>7. Claimed \in Int /\ Credited \in Int /\ Unapplied \in Int
  BY <1>1, <1>5, <1>6, TotalType DEF Claimed
<1>8. QED
  BY <1>1, <1>2, <1>3, <1>4, <1>5, <1>6, <1>7

\* What keeps each part.
LEMMA ClaimedStays ==
  ASSUME Len(invoices') = Len(invoices), \A n \in 1..Len(invoices) : Claim(n)' = Claim(n)
  PROVE  Claimed' = Claimed
<1>1. Claims' = Claims
  BY DEF Claims
<1>2. QED
  BY <1>1 DEF Claimed

\* What notes credit depends on the notes and on the invoices' prices.
LEMMA CreditedStays ==
  ASSUME TypeInv, UNCHANGED notes, \A n \in 1..Len(invoices) : invoices'[n].line = invoices[n].line
  PROVE  Credited' = Credited
<1>1. \A m \in 1..Len(notes) : notes[m].invoice \in 1..Len(invoices)
  BY RowFacts
<1>2. Credits' = Credits
  BY <1>1 DEF Credits, Credit
<1>3. Credited = Total(Credits, Len(notes)) /\ Credited' = Total(Credits', Len(notes'))
  BY DEF Credited, Credits, Credit
<1>4. QED
  BY <1>2, <1>3

\* The money no invoice shows depends on the collections.
LEMMA UnappliedStays ==
  ASSUME UNCHANGED collections
  PROVE  Unapplied' = Unapplied
BY DEF Unapplied, LineSum

\* What changes one.
LEMMA ClaimedMoves ==
  ASSUME TypeInv, NEW n \in 1..Len(invoices), Len(invoices') = Len(invoices), NEW d \in Int,
         Claim(n)' = Claim(n) + d,
         \A k \in 1..Len(invoices) : k # n => invoices'[k] = invoices[k]
  PROVE  Claimed' = Claimed + d
<1> DEFINE N == Len(invoices)
           f == Claims
           g == Claims'
<1>1. N \in Nat /\ f \in [1..N -> Int] /\ n \in 1..N
  BY NetTyped
<1>2. g = [k \in 1..N |-> g[k]] /\ g[n] = f[n] + d
  BY DEF Claims
<1>3. \A k \in 1..N : k # n => g[k] = f[k]
  BY DEF Claims, Claim, Owed, GrandTotal
<1>4. Claimed' = Total(g, N) /\ Claimed = Total(f, N)
  BY DEF Claimed
<1> HIDE DEF f, g, N
<1>5. QED
  BY <1>1, <1>2, <1>3, <1>4, TotalMoves

\* A note that credits d more adds d to what notes credit.
LEMMA CreditedMoves ==
  ASSUME TypeInv, NEW m \in 1..Len(notes), Len(notes') = Len(notes), NEW d \in Int,
         Credit(m)' = Credit(m) + d, UNCHANGED invoices,
         \A k \in 1..Len(notes) : k # m => notes'[k] = notes[k]
  PROVE  Credited' = Credited + d
<1> DEFINE N == Len(notes)
           f == Credits
           g == Credits'
<1>1. N \in Nat /\ f \in [1..N -> Int] /\ m \in 1..N
  BY NetTyped
<1>2. g = [k \in 1..N |-> g[k]] /\ g[m] = f[m] + d
  BY DEF Credits
<1>3. \A k \in 1..N : k # m => g[k] = f[k]
  BY DEF Credits, Credit
<1>4. Credited' = Total(g, N) /\ Credited = Total(f, N)
  BY DEF Credited, Credits, Credit
<1> HIDE DEF f, g, N
<1>5. QED
  BY <1>1, <1>2, <1>3, <1>4, TotalMoves

\* A collection that holds d more adds d to what no invoice shows.
LEMMA UnappliedMoves ==
  ASSUME TypeInv, NEW c \in 1..Len(collections), Len(collections') = Len(collections), NEW d \in Int,
         Spare(c)' = Spare(c) + d,
         \A k \in 1..Len(collections) : k # c => collections'[k] = collections[k]
  PROVE  Unapplied' = Unapplied + d
<1> DEFINE N == Len(collections)
           f == Spares
           g == Spares'
<1>1. N \in Nat /\ f \in [1..N -> Int] /\ c \in 1..N
  BY NetTyped
<1>2. g = [k \in 1..N |-> g[k]] /\ g[c] = f[c] + d
  BY DEF Spares
<1>3. \A k \in 1..N : k # c => g[k] = f[k]
  BY DEF Spares, Spare, LineSum
<1>4. Unapplied' = Total(g, N) /\ Unapplied = Total(f, N)
  BY DEF Unapplied, Spares, Spare
<1> HIDE DEF f, g, N
<1>5. QED
  BY <1>1, <1>2, <1>3, <1>4, TotalMoves

\* A new row adds nothing.
LEMMA ClaimedPads ==
  ASSUME TypeInv, Len(invoices') = Len(invoices) + 1,
         \A k \in 1..Len(invoices) : invoices'[k] = invoices[k],
         invoices'[Len(invoices) + 1].status = "DRAFT", invoices'[Len(invoices) + 1].collected = 0
  PROVE  Claimed' = Claimed
<1> SUFFICES ASSUME NEW N, N = Len(invoices) PROVE Claimed' = Claimed
  OBVIOUS
<1> DEFINE f == Claims
           g == Claims'
<1>1. N \in Nat /\ f \in [1..N -> Int]
  BY NetTyped
<1>2. g = [k \in 1..(N+1) |-> g[k]] /\ \A k \in 1..N : g[k] = f[k]
  BY <1>1 DEF Claims, Claim, Owed, GrandTotal
<1>3. g[N+1] = 0
  <2>1. N+1 \in 1..(N+1)
    BY <1>1
  <2>2. QED
    BY <2>1 DEF Claims, Claim
<1>4. Claimed' = Total(g, N+1) /\ Claimed = Total(f, N)
  BY DEF Claimed
<1> HIDE DEF f, g
<1>5. QED
  BY <1>1, <1>2, <1>3, <1>4, TotalPadOne

\* A draft note credits nothing.
LEMMA CreditedPads ==
  ASSUME TypeInv, Len(notes') = Len(notes) + 1, \A k \in 1..Len(notes) : notes'[k] = notes[k],
         notes'[Len(notes) + 1].status = "DRAFT", UNCHANGED invoices
  PROVE  Credited' = Credited
<1> SUFFICES ASSUME NEW N, N = Len(notes) PROVE Credited' = Credited
  OBVIOUS
<1> DEFINE f == Credits
           g == Credits'
<1>1. N \in Nat /\ f \in [1..N -> Int]
  BY NetTyped
<1>2. g = [k \in 1..(N+1) |-> g[k]] /\ \A k \in 1..N : g[k] = f[k]
  BY <1>1 DEF Credits, Credit
<1>3. g[N+1] = 0
  <2>1. N+1 \in 1..(N+1)
    BY <1>1
  <2>2. QED
    BY <2>1 DEF Credits, Credit
<1>4. Credited' = Total(g, N+1) /\ Credited = Total(f, N)
  BY DEF Credited, Credits, Credit
<1> HIDE DEF f, g
<1>5. QED
  BY <1>1, <1>2, <1>3, <1>4, TotalPadOne

\* A draft collection holds nothing.
LEMMA UnappliedPads ==
  ASSUME TypeInv, Len(collections') = Len(collections) + 1,
         \A k \in 1..Len(collections) : collections'[k] = collections[k],
         collections'[Len(collections) + 1].status = "DRAFT"
  PROVE  Unapplied' = Unapplied
<1> SUFFICES ASSUME NEW N, N = Len(collections) PROVE Unapplied' = Unapplied
  OBVIOUS
<1> DEFINE f == Spares
           g == Spares'
<1>1. N \in Nat /\ f \in [1..N -> Int]
  BY NetTyped
<1>2. g = [k \in 1..(N+1) |-> g[k]] /\ \A k \in 1..N : g[k] = f[k]
  BY <1>1 DEF Spares, Spare, LineSum
<1>3. g[N+1] = 0
  <2>1. N+1 \in 1..(N+1)
    BY <1>1
  <2>2. QED
    BY <2>1 DEF Spares, Spare
<1>4. Unapplied' = Total(g, N+1) /\ Unapplied = Total(f, N)
  BY DEF Unapplied, Spares, Spare
<1> HIDE DEF f, g
<1>5. QED
  BY <1>1, <1>2, <1>3, <1>4, TotalPadOne

\* What collecting from an invoice takes off its claim.
LEMMA ClaimCollects ==
  ASSUME TypeInv, NEW n \in 1..Len(invoices), NEW got \in Int, Collects(n, got),
         got > 0 => invoices[n].status \in {"POSTED", "COLLECTED"}
  PROVE  Claim(n)' = Claim(n) - got
<1>1. invoices'[n].status \in {"POSTED", "COLLECTED"} <=> invoices[n].status \in {"POSTED", "COLLECTED"}
  BY DEF Collects
<1>2. Owed(n)' = Owed(n) /\ invoices'[n].collected = invoices[n].collected + got
  BY DEF Owed, GrandTotal, Collects
<1>3. Owed(n) \in Int /\ invoices[n].collected \in Int
  BY NetTyped, RowFacts
<1>4. Claim(n)' = (IF invoices[n].status \in {"POSTED", "COLLECTED"} THEN Owed(n) ELSE 0)
                  - (invoices[n].collected + got)
  BY <1>1, <1>2 DEF Claim
<1>5. QED
  BY <1>3, <1>4 DEF Claim

\* What is taken off every invoice's claim is taken off their total.
LEMMA ClaimedFalls ==
  ASSUME TypeInv, Len(invoices') = Len(invoices), NEW got, got \in [1..Len(invoices) -> Int],
         \A n \in 1..Len(invoices) : Claim(n)' = Claim(n) - got[n]
  PROVE  Claimed' = Claimed - Total(got, Len(invoices))
<1> DEFINE N == Len(invoices)
           f == Claims
           g == Claims'
<1>1. N \in Nat /\ f \in [1..N -> Int] /\ got \in [1..N -> Int]
  BY NetTyped
<1>2. g = [k \in 1..N |-> g[k]] /\ \A k \in 1..N : g[k] = f[k] - got[k]
  BY DEF Claims
<1>3. Claimed' = Total(g, N) /\ Claimed = Total(f, N)
  BY DEF Claimed
<1> HIDE DEF f, g, N
<1>4. \A k \in 1..N : g[k] \in Int /\ f[k] = g[k] + got[k]
  <2> SUFFICES ASSUME NEW k \in 1..N PROVE g[k] \in Int /\ f[k] = g[k] + got[k]
    OBVIOUS
  <2>1. f[k] \in Int /\ got[k] \in Int /\ g[k] = f[k] - got[k]
    BY <1>1, <1>2
  <2>2. QED
    BY <2>1
<1>5. g \in [1..N -> Int]
  BY <1>2, <1>4, Zenon
<1>6. Total(f, N) = Total(g, N) + Total(got, N)
  BY ONLY <1>1, <1>4, <1>5, TotalAdd
<1>7. Total(f, N) \in Int /\ Total(g, N) \in Int /\ Total(got, N) \in Int
  BY <1>1, <1>5, TotalType
<1>8. Claimed' = Claimed - Total(got, N)
  BY <1>3, <1>6, <1>7
<1>9. QED
  BY <1>8 DEF N

\* Posting an invoice claims what it is owed.
LEMMA PostInvoiceNet ==
  ASSUME TypeInv, NEW n \in 1..Len(invoices), NEW due \in DueDates, PostInvoice(n, due)
  PROVE  Net' = Net + Owed(n)
<1>1. /\ Len(invoices') = Len(invoices)
      /\ invoices'[n].line = invoices[n].line /\ invoices'[n].status = "POSTED"
      /\ invoices'[n].collected = invoices[n].collected
      /\ \A k \in 1..Len(invoices) : k # n => invoices'[k] = invoices[k]
  BY PostInvoiceEffect
<1>2. invoices[n].status = "DRAFT" /\ UNCHANGED <<notes, collections>>
  BY DEF PostInvoice
<1>3. Owed(n) \in Int /\ Claim(n) \in Int /\ invoices[n].collected \in Int
  BY NetTyped, RowFacts
<1>4. Claim(n)' = Owed(n) - invoices[n].collected /\ Claim(n) = 0 - invoices[n].collected
  BY <1>1, <1>2 DEF Claim, Owed, GrandTotal
<1>5. Claim(n)' = Claim(n) + Owed(n)
  BY <1>3, <1>4
<1>6. Claimed' = Claimed + Owed(n)
  BY <1>1, <1>3, <1>5, ClaimedMoves
<1>7. Credited' = Credited /\ Unapplied' = Unapplied
  <2>1. \A k \in 1..Len(invoices) : invoices'[k].line = invoices[k].line
    BY <1>1
  <2>2. QED
    BY <1>2, <2>1, CreditedStays, UnappliedStays
<1>8. Claimed \in Int /\ Credited \in Int /\ Unapplied \in Int
  BY NetTyped
<1>9. QED
  BY <1>3, <1>6, <1>7, <1>8 DEF Net

\* Cancelling one gives that up.
LEMMA CancelInvoiceNet ==
  ASSUME TypeInv, NEW n \in 1..Len(invoices), CancelInvoice(n)
  PROVE  Net' = Net + (IF invoices[n].status = "POSTED" THEN -Owed(n) ELSE 0)
<1> DEFINE d == IF invoices[n].status = "POSTED" THEN -Owed(n) ELSE 0
<1>1. /\ Len(invoices') = Len(invoices)
      /\ invoices'[n] = [invoices[n] EXCEPT !.status = "CANCELLED"]
      /\ \A k \in 1..Len(invoices) : k # n => invoices'[k] = invoices[k]
      /\ invoices[n].status \in {"DRAFT", "POSTED"}
  BY CancelInvoiceEffect
<1>2. UNCHANGED <<notes, collections>>
  BY DEF CancelInvoice
<1>3. Owed(n) \in Int /\ Claim(n) \in Int /\ invoices[n].collected \in Int
  BY NetTyped, RowFacts
<1>4. /\ invoices'[n].status = "CANCELLED" /\ invoices'[n].line = invoices[n].line
      /\ invoices'[n].collected = invoices[n].collected
  BY <1>1, RowFacts DEF Invoice
<1>5. Claim(n)' = 0 - invoices[n].collected
  BY <1>4 DEF Claim
<1>6. d \in Int /\ Claim(n)' = Claim(n) + d
  BY <1>1, <1>3, <1>5 DEF Claim
<1> HIDE DEF d
<1>7. Claimed' = Claimed + d
  BY <1>1, <1>6, ClaimedMoves
<1>8. Credited' = Credited /\ Unapplied' = Unapplied
  <2>1. \A k \in 1..Len(invoices) : invoices'[k].line = invoices[k].line
    BY <1>1, <1>4
  <2>2. QED
    BY <1>1, <1>2, <2>1, CreditedStays, UnappliedStays
<1>9. Claimed \in Int /\ Credited \in Int /\ Unapplied \in Int
  BY NetTyped
<1>10. Net' = Net + d
  BY <1>6, <1>7, <1>8, <1>9 DEF Net
<1>11. QED
  BY <1>10 DEF d

\* Posting a note credits it.
LEMMA PostNoteNet ==
  ASSUME TypeInv, NEW m \in 1..Len(notes), PostNote(m)
  PROVE  Net' = Net - notes[m].qty * invoices[notes[m].invoice].line.price
<1> DEFINE d == notes[m].qty * invoices[notes[m].invoice].line.price
<1>1. /\ UNCHANGED <<invoices, collections>> /\ notes[m].status = "DRAFT"
      /\ Len(notes') = Len(notes)
      /\ notes'[m] = [notes[m] EXCEPT !.status = "POSTED"]
      /\ \A k \in 1..Len(notes) : k # m => notes'[k] = notes[k]
  BY PostNoteEffect
<1>2. notes'[m].status = "POSTED" /\ notes'[m].invoice = notes[m].invoice /\ notes'[m].qty = notes[m].qty
  BY <1>1, RowFacts DEF Note
<1>3. d \in Int
  <2>1. notes[m].qty \in Nat /\ invoices[notes[m].invoice].line.price \in Nat
    BY RowFacts, LineFacts
  <2>2. \A x, y \in Nat : x * y \in Int
    BY SMT
  <2>3. QED
    BY <2>1, <2>2
<1>4. Credit(m)' = d /\ Credit(m) = 0
  BY <1>1, <1>2 DEF Credit
<1> HIDE DEF d
<1>5. Credited' = Credited + d
  BY <1>1, <1>3, <1>4, CreditedMoves
<1>6. Claimed' = Claimed /\ Unapplied' = Unapplied
  BY <1>1, UnappliedStays DEF Claimed, Claims, Claim, Owed, GrandTotal
<1>7. Claimed \in Int /\ Credited \in Int /\ Unapplied \in Int
  BY NetTyped
<1>8. Net' = Net - d
  BY <1>3, <1>5, <1>6, <1>7 DEF Net
<1>9. QED
  BY <1>8 DEF d

\* Posting a collection takes all of it off, what is allocated and what is not.
LEMMA PostCollectionNet ==
  ASSUME TypeInv, NEW c \in 1..Len(collections), PostCollection(c)
  PROVE  Net' = Net - collections[c].amount
<1> DEFINE lines == PostedLines(c)
           N == Len(invoices)
           got == [n \in 1..N |-> LineOf(lines, n)]
           s == LineSum(lines)
           a == collections[c].amount
<1>1. /\ collections[c].status = "DRAFT"
      /\ Len(invoices') = N
      /\ \A n \in 1..N : Collects(n, LineOf(lines, n))
      /\ Len(collections') = Len(collections)
      /\ collections'[c].status = "POSTED" /\ collections'[c].lines = lines
      /\ collections'[c].amount = a
      /\ \A k \in 1..Len(collections) : k # c => collections'[k] = collections[k]
  BY PostCollectionEffect
<1>2. UNCHANGED notes
  BY DEF PostCollection
<1>3. /\ lines \in Seq(Nat) /\ Len(lines) <= N
      /\ \A n \in 1..N : /\ LineOf(lines, n) \in Nat
                         /\ LineOf(lines, n) # 0 => invoices[n].status \in {"POSTED", "COLLECTED"}
  BY PostedLinesTyped
<1>4. N \in Nat /\ a \in Int
  BY RowFacts
<1>5. Claimed' = Claimed - s
  <2>1. got \in [1..N -> Int] /\ Total(got, N) = s
    <3> HIDE DEF lines, N
    <3>1. QED
      BY <1>3, <1>4, LinesSum DEF LineSum
  <2>2. \A n \in 1..N : Claim(n)' = Claim(n) - got[n]
    <3> SUFFICES ASSUME NEW n \in 1..N PROVE Claim(n)' = Claim(n) - LineOf(lines, n)
      OBVIOUS
    <3>1. /\ LineOf(lines, n) \in Int /\ Collects(n, LineOf(lines, n))
          /\ LineOf(lines, n) > 0 => invoices[n].status \in {"POSTED", "COLLECTED"}
      BY <1>1, <1>3
    <3> HIDE DEF lines
    <3>2. QED
      BY <3>1, ClaimCollects
  <2> HIDE DEF got
  <2>3. QED
    BY <1>1, <2>1, <2>2, ClaimedFalls
<1>6. s \in Int
  <2> HIDE DEF lines
  <2> DEFINE K == Len(lines)
  <2>1. K \in Nat /\ lines \in [1..K -> Int]
    BY <1>3
  <2> HIDE DEF K
  <2>2. Total(lines, K) \in Int
    BY <2>1, TotalType
  <2>3. QED
    BY <2>2 DEF LineSum, K
<1>7. Spare(c)' = a - s /\ Spare(c) = 0
  BY <1>1 DEF Spare, LineSum
<1>8. Credited' = Credited
  <2>1. \A n \in 1..Len(invoices) : invoices'[n].line = invoices[n].line
    BY <1>1 DEF Collects
  <2>2. QED
    BY <1>2, <2>1, CreditedStays
<1> HIDE DEF s, a, lines
<1>9. Unapplied' = Unapplied + (a - s)
  <2>1. a - s \in Int /\ Spare(c)' = Spare(c) + (a - s)
    BY <1>4, <1>6, <1>7
  <2>2. QED
    BY <1>1, <2>1, UnappliedMoves
<1>10. Claimed \in Int /\ Credited \in Int /\ Unapplied \in Int
  BY NetTyped
<1>11. Net' = Net - a
  BY <1>4, <1>5, <1>6, <1>8, <1>9, <1>10 DEF Net
<1>12. QED
  BY <1>11 DEF a

\* Cancelling one only moves money: from the invoices to what no invoice shows.
LEMMA CancelCollectionNet ==
  ASSUME TypeInv, NEW c \in 1..Len(collections), CancelCollection(c)
  PROVE  Net' = Net
<1> DEFINE lines == collections[c].lines
           N == Len(invoices)
           s == LineSum(lines)
           a == collections[c].amount
<1>1. /\ Len(invoices') = N
      /\ Len(collections') = Len(collections)
      /\ collections'[c].lines = lines /\ collections'[c].amount = a
      /\ \A k \in 1..Len(collections) : k # c => collections'[k] = collections[k]
      /\ UNCHANGED notes
  BY CancelCollectionEffect
<1>2. /\ N \in Nat /\ a \in Int /\ lines \in Seq(Nat) /\ Len(lines) <= N
      /\ \A n \in 1..N : LineOf(lines, n) \in Nat /\ Line(c, n) = LineOf(lines, n)
  <2>1. /\ N \in Nat /\ a \in Int /\ lines \in Seq(Nat)
        /\ \A n \in Nat \ {0} : Line(c, n) \in Nat
    BY RowFacts
  <2>2. Len(lines) <= N
    BY OtherRows
  <2>3. \A n \in 1..N : n \in Nat \ {0}
    BY <2>1
  <2>4. QED
    BY <2>1, <2>2, <2>3 DEF Line
<1>3. s \in Int /\ Claimed \in Int /\ Credited \in Int /\ Unapplied \in Int
  BY NetTyped
<1>4. CASE collections[c].status = "DRAFT"
  <2>1. collections'[c].status = "VOID" /\ invoices' = invoices
    BY <1>4, CancelCollectionEffect
  <2>2. Spare(c)' = 0 /\ Spare(c) = 0
    BY <1>4, <2>1 DEF Spare
  <2>3. Unapplied' = Unapplied + 0
    BY <1>1, <2>2, UnappliedMoves
  <2>4. Claimed' = Claimed /\ Credited' = Credited
    BY <1>1, <2>1, CreditedStays DEF Claimed, Claims, Claim, Owed, GrandTotal
  <2>5. QED
    BY <1>3, <2>3, <2>4 DEF Net
<1>5. CASE collections[c].status = "POSTED"
  <2>1. collections'[c].status = "CANCELLED" /\ \A n \in 1..N : Collects(n, -Line(c, n))
    BY <1>5, CancelCollectionEffect
  <2>2. Spare(c)' = a /\ Spare(c) = a - s
    BY <1>1, <1>5, <2>1 DEF Spare
  <2>3. Credited' = Credited
    <3>1. \A n \in 1..Len(invoices) : invoices'[n].line = invoices[n].line
      BY <2>1 DEF Collects
    <3>2. QED
      BY <1>1, <3>1, CreditedStays
  <2> DEFINE got == [n \in 1..N |-> LineOf(lines, n)]
             back == [n \in 1..N |-> -LineOf(lines, n)]
  <2>4. \A n \in 1..N : Claim(n)' = Claim(n) - back[n]
    <3> SUFFICES ASSUME NEW n \in 1..N PROVE Claim(n)' = Claim(n) - (-LineOf(lines, n))
      OBVIOUS
    <3>1. /\ -LineOf(lines, n) \in Int /\ Collects(n, -LineOf(lines, n))
          /\ ~(-LineOf(lines, n) > 0)
      BY <1>2, <2>1
    <3> HIDE DEF lines
    <3>2. QED
      BY <3>1, ClaimCollects
  <2> HIDE DEF lines
  <2>5. got \in [1..N -> Int] /\ Total(got, N) = s
    <3> HIDE DEF N
    <3>1. QED
      BY <1>2, LinesSum DEF LineSum
  <2>6. back \in [1..N -> Int] /\ \A n \in 1..N : back[n] = -got[n]
    BY <1>2
  <2> HIDE DEF got, back
  <2>7. Total(back, N) = -s
    BY <1>2, <2>5, <2>6, TotalNegate
  <2>8. Claimed' = Claimed - Total(back, N)
    BY <1>1, <2>4, <2>6, ClaimedFalls
  <2> HIDE DEF s, a
  <2>9. Unapplied' = Unapplied + s
    <3>1. Spare(c)' = Spare(c) + s
      BY <1>2, <1>3, <2>2
    <3>2. QED
      BY <1>1, <1>3, <3>1, UnappliedMoves
  <2>10. QED
    BY <1>3, <2>3, <2>7, <2>8, <2>9 DEF Net
<1>6. QED
  BY <1>4, <1>5, CancelCollectionEffect

\* The sum of the receivable account is what the documents make of it.
ReceivableInv ==
    policy.autoPosting => KeysInv /\ BookedInv /\ SumOf(books, "receivable") = Net

\* Where the documents stay as they are, so does what they make of the account.
LEMMA StillNet ==
  ASSUME TypeInv, UNCHANGED <<invoices, notes, collections>>
  PROVE  Net' = Net
<1>1. Credited' = Credited /\ Unapplied' = Unapplied
  BY CreditedStays, UnappliedStays
<1>2. Claimed' = Claimed
  BY DEF Claimed, Claims, Claim, Owed, GrandTotal
<1>3. QED
  BY <1>1, <1>2 DEF Net

\* A draft makes nothing of it.
LEMMA DraftNet ==
  ASSUME TypeInv
  PROVE  /\ \A line \in Payloads : CreateInvoice(line) => Net' = Net
         /\ \A n \in 1..Len(invoices), q \in Returnable : CreateNote(n, q) => Net' = Net
         /\ \A amount \in Amounts, method \in {"AUTO", "MANUAL"},
               lines \in {<<>>} \cup [1..Len(invoices) -> Amounts \cup {0}] :
               CreateCollection(amount, method, lines) => Net' = Net
<1>1. ASSUME NEW line \in Payloads, CreateInvoice(line) PROVE Net' = Net
  <2>1. /\ Len(invoices') = Len(invoices) + 1
        /\ \A k \in 1..Len(invoices) : invoices'[k] = invoices[k]
        /\ invoices'[Len(invoices) + 1].status = "DRAFT" /\ invoices'[Len(invoices) + 1].collected = 0
    BY <1>1, CreateInvoiceEffect
  <2>2. UNCHANGED <<notes, collections>>
    BY <1>1 DEF CreateInvoice
  <2>3. Claimed' = Claimed
    BY <2>1, ClaimedPads
  <2>4. Credited' = Credited /\ Unapplied' = Unapplied
    BY <2>1, <2>2, CreditedStays, UnappliedStays
  <2>5. QED
    BY <2>3, <2>4 DEF Net
<1>2. ASSUME NEW n \in 1..Len(invoices), NEW q \in Returnable, CreateNote(n, q) PROVE Net' = Net
  <2>1. /\ Len(notes') = Len(notes) + 1 /\ \A k \in 1..Len(notes) : notes'[k] = notes[k]
        /\ notes'[Len(notes) + 1].status = "DRAFT"
    BY <1>2, CreateNoteEffect
  <2>2. UNCHANGED <<invoices, collections>>
    BY <1>2 DEF CreateNote
  <2>3. Credited' = Credited
    BY <2>1, <2>2, CreditedPads
  <2>4. Claimed' = Claimed /\ Unapplied' = Unapplied
    BY <2>2, UnappliedStays DEF Claimed, Claims, Claim, Owed, GrandTotal
  <2>5. QED
    BY <2>3, <2>4 DEF Net
<1>3. ASSUME NEW amount \in Amounts, NEW method \in {"AUTO", "MANUAL"},
             NEW lines \in {<<>>} \cup [1..Len(invoices) -> Amounts \cup {0}],
             CreateCollection(amount, method, lines)
      PROVE  Net' = Net
  <2>1. /\ Len(collections') = Len(collections) + 1
        /\ \A k \in 1..Len(collections) : collections'[k] = collections[k]
        /\ collections'[Len(collections) + 1].status = "DRAFT"
    BY <1>3, CreateCollectionEffect
  <2>2. UNCHANGED <<invoices, notes>>
    BY <1>3 DEF CreateCollection
  <2>3. Unapplied' = Unapplied
    BY <2>1, UnappliedPads
  <2>4. Claimed' = Claimed /\ Credited' = Credited
    BY <2>2, CreditedStays DEF Claimed, Claims, Claim, Owed, GrandTotal
  <2>5. QED
    BY <2>3, <2>4 DEF Net
<1>4. QED
  BY <1>1, <1>2, <1>3

\* Every step posts to the account what it changes.
LEMMA StepReceivable ==
  ASSUME TypeInv, ReceivableInv, [Next]_vars
  PROVE  ReceivableInv'
<1>1. SUFFICES ASSUME policy.autoPosting
               PROVE  KeysInv' /\ BookedInv' /\ SumOf(books', "receivable") = Net'
  BY PolicyStays DEF ReceivableInv
<1>2. KeysInv /\ BookedInv /\ SumOf(books, "receivable") = Net /\ Net \in Int
  BY <1>1, NetTyped DEF ReceivableInv, Net
<1>3. ASSUME NEW r, Accounts(r), Net' = Net + r
      PROVE  KeysInv' /\ BookedInv' /\ SumOf(books', "receivable") = Net'
  BY <1>2, <1>3 DEF Accounts
<1>4. Net = Net + 0
  BY <1>2
<1>5. CASE UNCHANGED vars
  <2>1. UNCHANGED <<invoices, notes, collections, books, stock>>
    BY <1>5 DEF vars, stock
  <2>2. QED
    BY <1>2, <1>3, <1>4, <2>1, StillBooks, StillNet
<1>6. CASE Next
  <2>1. ASSUME NEW line \in Payloads, CreateInvoice(line) PROVE \E r : Accounts(r) /\ Net' = Net + r
    BY <1>2, <1>4, <2>1, CreateInvoiceBooks, DraftNet
  <2>2. ASSUME NEW n \in 1..Len(invoices), NEW due \in DueDates, PostInvoice(n, due)
        PROVE  \E r : Accounts(r) /\ Net' = Net + r
    BY <1>1, <1>2, <2>2, PostInvoiceBooks, PostInvoiceNet
  <2>3. ASSUME NEW n \in 1..Len(invoices), CancelInvoice(n) PROVE \E r : Accounts(r) /\ Net' = Net + r
    BY <1>1, <1>2, <2>3, CancelInvoiceBooks, CancelInvoiceNet
  <2>4. ASSUME NEW n, NEW gate, Approve(gate, n) PROVE \E r : Accounts(r) /\ Net' = Net + r
    <3>1. UNCHANGED <<invoices, notes, collections, books, stock>>
      BY <2>4 DEF Approve
    <3>2. QED
      BY <1>2, <1>4, <3>1, StillBooks, StillNet
  <2>5. ASSUME NEW n \in 1..Len(invoices), NEW q \in Returnable, CreateNote(n, q)
        PROVE  \E r : Accounts(r) /\ Net' = Net + r
    BY <1>2, <1>4, <2>5, CreateNoteBooks, DraftNet
  <2>6. ASSUME NEW m \in 1..Len(notes), PostNote(m) PROVE \E r : Accounts(r) /\ Net' = Net + r
    <3> DEFINE d == notes[m].qty * invoices[notes[m].invoice].line.price
    <3>1. Accounts(-d) /\ Net' = Net - d
      BY <1>1, <1>2, <2>6, PostNoteBooks, PostNoteNet
    <3>2. d \in Int
      <4>1. notes[m].qty \in Nat /\ invoices[notes[m].invoice].line.price \in Nat
        BY RowFacts, LineFacts
      <4>2. \A x, y \in Nat : x * y \in Int
        BY SMT
      <4>3. QED
        BY <4>1, <4>2
    <3> HIDE DEF d
    <3>3. Net - d = Net + (-d)
      BY <1>2, <3>2
    <3>4. QED
      BY <3>1, <3>3
  <2>7. ASSUME NEW amount \in Amounts, NEW method \in {"AUTO", "MANUAL"},
               NEW lines \in {<<>>} \cup [1..Len(invoices) -> Amounts \cup {0}],
               CreateCollection(amount, method, lines)
        PROVE  \E r : Accounts(r) /\ Net' = Net + r
    BY <1>2, <1>4, <2>7, CreateCollectionBooks, DraftNet
  <2>8. ASSUME NEW c \in 1..Len(collections), PostCollection(c)
        PROVE  \E r : Accounts(r) /\ Net' = Net + r
    <3>1. /\ Accounts(-collections[c].amount) /\ Net' = Net - collections[c].amount
          /\ collections[c].amount \in Int
      BY <1>1, <1>2, <2>8, PostCollectionBooks, PostCollectionNet, RowFacts
    <3>2. Net - collections[c].amount = Net + (-collections[c].amount)
      BY <1>2, <3>1
    <3>3. QED
      BY <3>1, <3>2
  <2>9. ASSUME NEW c \in 1..Len(collections), CancelCollection(c)
        PROVE  \E r : Accounts(r) /\ Net' = Net + r
    BY <1>2, <1>4, <2>9, CancelCollectionBooks, CancelCollectionNet
  <2>10. ASSUME NEW s \in Slots, NEW q \in Quantities, NEW c \in Costs, Supply(s, q, c)
         PROVE  \E r : Accounts(r) /\ Net' = Net + r
    <3>1. UNCHANGED <<invoices, notes, collections>>
      BY <2>10 DEF Supply
    <3>2. QED
      BY <1>1, <1>2, <1>4, <2>10, <3>1, SupplyBooks, StillNet
  <2>11. \E r : Accounts(r) /\ Net' = Net + r
    BY <1>6, <2>1, <2>2, <2>3, <2>4, <2>5, <2>6, <2>7, <2>8, <2>9, <2>10 DEF Next
  <2>12. QED
    BY <1>3, <2>11
<1>7. QED
  BY <1>5, <1>6

\* At first nothing is owed.
LEMMA InitReceivable == Init => ReceivableInv
<1> SUFFICES ASSUME Init PROVE KeysInv /\ BookedInv /\ SumOf(books, "receivable") = Net
  BY DEF ReceivableInv
<1>1. /\ DOMAIN books = {} /\ 1..0 = {}
      /\ Len(invoices) = 0 /\ Len(notes) = 0 /\ Len(collections) = 0
  BY EmptySeq, SMT DEF Init
<1>2. KeysInv /\ BookedInv
  BY <1>1, FS_EmptySet DEF KeysInv, BookedInv
<1>3. Claimed = 0 /\ Credited = 0 /\ Unapplied = 0
  <2>1. TypeInv
    BY InitTyped
  <2>2. /\ Claims \in [1..0 -> Int] /\ Credits \in [1..0 -> Int] /\ Spares \in [1..0 -> Int]
        /\ Claimed = Total(Claims, 0) /\ Credited = Total(Credits, 0) /\ Unapplied = Total(Spares, 0)
    BY <1>1, <2>1, NetTyped DEF Claimed
  <2>3. QED
    BY <2>2, TotalEmpty
<1>4. SumOf(books, "receivable") = 0
  <2>1. Summable(books, "receivable", DOMAIN books)
    BY <1>1, FS_EmptySet DEF Summable
  <2>2. QED
    BY <1>1, <2>1, SumOfType
<1>5. QED
  BY <1>2, <1>3, <1>4 DEF Net

\* So it always is.
LEMMA SpecReceivable == Spec => []ReceivableInv
BY InitReceivable, StepReceivable, SpecTyped, PTL DEF Spec

\* The customer's exposure is what is claimed and what was collected elsewhere.
LEMMA ExposureClaimed ==
  ASSUME TypeInv
  PROVE  Exposure - Elsewhere = Claimed /\ Exposure \in Int /\ Elsewhere \in Int
<1> DEFINE N == Len(invoices)
           f == Claims
           e == [n \in 1..N |->
                    IF invoices[n].status \in {"POSTED", "COLLECTED"}
                    THEN GrandTotal(n) - invoices[n].collected ELSE 0]
           w == [n \in 1..N |->
                    IF invoices[n].status \in {"POSTED", "COLLECTED"}
                    THEN IF invoices[n].line.terms = "CREDIT" THEN 0 ELSE GrandTotal(n)
                    ELSE invoices[n].collected]
<1>1. /\ Exposure = Total(e, N) /\ Elsewhere = Total(w, N) /\ Claimed = Total(f, N)
      /\ N \in Nat /\ f \in [1..N -> Int]
  BY NetTyped DEF Exposure, Elsewhere, Claimed
<1>2. \A n \in 1..N : e[n] \in Int /\ w[n] \in Int /\ e[n] = f[n] + w[n]
  <2> SUFFICES ASSUME NEW n \in 1..N PROVE e[n] \in Int /\ w[n] \in Int /\ e[n] = f[n] + w[n]
    OBVIOUS
  <2>1. GrandTotal(n) \in Int /\ invoices[n].collected \in Int
    BY LineFacts, RowFacts
  <2>2. f[n] = (IF invoices[n].status \in {"POSTED", "COLLECTED"}
                THEN IF invoices[n].line.terms = "CREDIT" THEN GrandTotal(n) ELSE 0
                ELSE 0) - invoices[n].collected
    BY DEF Claims, Claim, Owed
  <2> HIDE DEF f
  <2>3. QED
    BY <2>1, <2>2
<1>3. e \in [1..N -> Int] /\ w \in [1..N -> Int]
  BY <1>2
<1> HIDE DEF e, w, f, N
<1>4. Total(e, N) = Total(f, N) + Total(w, N)
  BY ONLY <1>1, <1>2, <1>3, TotalAdd
<1>5. Total(e, N) \in Int /\ Total(f, N) \in Int /\ Total(w, N) \in Int
  BY <1>1, <1>3, TotalType
<1>6. QED
  BY <1>1, <1>4, <1>5

\* With auto-posting the receivable account is the customer's credit exposure less what
\* notes credit, less the money no standing invoice shows and less what was sold for cash:
\* through cancellations and returns in any order.
THEOREM SalesReceivablesExplained == Spec => []ReceivablesExplained
<1>1. TypeInv /\ ReceivableInv => ReceivablesExplained
  <2> SUFFICES ASSUME TypeInv, ReceivableInv, policy.autoPosting
               PROVE  Account("receivable") = Exposure - Credited - Unapplied - Elsewhere
    BY DEF ReceivablesExplained
  <2>1. SumOf(books, "receivable") = Claimed - Credited - Unapplied
    BY DEF ReceivableInv, Net
  <2>2. Account("receivable") = SumOf(books, "receivable")
    BY Zenon DEF Account, SumOf
  <2>3. /\ Exposure - Elsewhere = Claimed /\ Exposure \in Int /\ Elsewhere \in Int
        /\ Credited \in Int /\ Unapplied \in Int
    BY ExposureClaimed, NetTyped
  <2>4. QED
    BY <2>1, <2>2, <2>3
<1>2. QED
  BY <1>1, SpecTyped, SpecReceivable, PTL
=============================================================================
