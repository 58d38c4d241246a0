----------------------------- MODULE Allocation -----------------------------
(* Sharing a payment among the documents it may settle, the oldest due first: the loop that *)
(* sales/service.py (_auto_allocate) and purchasing/service.py (_auto_allocate_payment)     *)
(* have in common.                                                                          *)
EXTENDS Integers, Sequences, RunningTotals

\* Document m comes before document n: by due date, then by id.
Before(due, m, n) == due[m] < due[n] \/ (due[m] = due[n] /\ m < n)

\* What is open on the documents that come before n.
OpenBefore(open, due, n) ==
    Total([m \in 1..Len(open) |-> IF Before(due, m, n) THEN open[m] ELSE 0], Len(open))

\* What every document gets of amount: what those before it leave, up to what is open on it.
Shares(amount, open, due) ==
    [n \in 1..Len(open) |->
        LET left == amount - OpenBefore(open, due, n)
        IN  IF left <= 0 THEN 0 ELSE IF left < open[n] THEN left ELSE open[n]]

\* The document's line of a payment's lines, 0 if it has none.
LineOf(lines, n) == IF n <= Len(lines) THEN lines[n] ELSE 0
=============================================================================
