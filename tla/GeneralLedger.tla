--------------------------- MODULE GeneralLedger ---------------------------
(***************************************************************************)
(* What a set of double-entry books promises, with no entries, statuses or *)
(* documents: for every date a vector of account totals.  A recording adds *)
(* a vector that sums to zero to one date the books are open for; nothing  *)
(* else ever changes the books.  Corrections are recordings too.           *)
(***************************************************************************)
EXTENDS Integers, RunningTotals

CONSTANTS NumAccounts, Dates

VARIABLES
    book,       \* for every date, what was recorded on every account
    openDates   \* the dates the books are open for

vars == <<book, openDates>>

Accounts == 1..NumAccounts

Init ==
    /\ book = [d \in Dates |-> [a \in Accounts |-> 0]]
    /\ openDates = {}

\* A balanced recording on an open date.
Record(d) ==
    LET added == [a \in Accounts |-> book'[d][a] - book[d][a]]
    IN  /\ d \in openDates
        /\ Total(added, NumAccounts) = 0
        /\ book' = [book EXCEPT ![d] = [a \in Accounts |-> @[a] + added[a]]]
        /\ UNCHANGED openDates

\* Dates open and shut.
Calendar == openDates' \in SUBSET Dates /\ UNCHANGED book

Next == Calendar \/ \E d \in Dates : Record(d)

Spec == Init /\ [][Next]_vars
=============================================================================
