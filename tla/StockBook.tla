----------------------------- MODULE StockBook -----------------------------
(***************************************************************************)
(* What the inventory module promises its callers, with no ledger, cache   *)
(* or cost: a book of quantities.  A request changes the quantity of one   *)
(* slot, or moves goods of an item between two warehouses; it may leave a  *)
(* slot short (below zero) only if the company's policy allows negative    *)
(* stock, or, for a request that carries the per-movement override, if the *)
(* slot was never touched before.                                          *)
(***************************************************************************)
EXTENDS Integers

CONSTANTS Warehouses, Items

VARIABLES
    book,           \* the quantity of every slot
    touched,        \* the slots some request has changed
    allowNegative   \* the company's policy

vars == <<book, touched, allowNegative>>

Slots == Warehouses \X Items

Init ==
    /\ book = [s \in Slots |-> 0]
    /\ touched = {}
    /\ allowNegative = FALSE

\* The step changes no slot outside S.
OnlyIn(S) == \A s \in Slots \ S : book'[s] = book[s]

\* Slot s is not left short, unless the policy allows it.
Covered(s) == book'[s] >= 0 \/ allowNegative

\* One slot changes; the override excuses a shortage on an untouched slot only.
Change(s) ==
    /\ touched' = touched \cup {s}
    /\ UNCHANGED allowNegative
    /\ book'[s] # book[s]
    /\ OnlyIn({s})
    /\ Covered(s) \/ s \notin touched
    /\ book' \in [Slots -> Int]

\* Goods of one item change warehouse.
Move(s, t) ==
    /\ s # t /\ s[2] = t[2]
    /\ touched' = touched \cup {s, t}
    /\ UNCHANGED allowNegative
    /\ book'[s] # book[s]
    /\ book'[s] + book'[t] = book[s] + book[t]
    /\ OnlyIn({s, t})
    /\ Covered(s) /\ Covered(t)
    /\ book' \in [Slots -> Int]

\* The policy changes; a shortage it allowed stays.
SetPolicy ==
    /\ allowNegative' \in BOOLEAN
    /\ UNCHANGED <<book, touched>>

Next ==
    \/ SetPolicy
    \/ \E s \in Slots : Change(s)
    \/ \E s, t \in Slots : Move(s, t)

Spec == Init /\ [][Next]_vars
=============================================================================
