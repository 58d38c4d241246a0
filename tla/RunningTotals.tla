--------------------------- MODULE RunningTotals ---------------------------
(* Sums of finite sequences of integers, written as the recursive function  *)
(* of partial sums so that facts about them can be proved                   *)
(* (RunningTotalsTheorems) as well as evaluated.                            *)
EXTENDS Integers

\* The partial sums of f over 1..n, from 0 for none of it.
RunningTotal(f, n) ==
    LET r[k \in 0..n] == IF k = 0 THEN 0 ELSE r[k-1] + f[k]
    IN  r

\* f[1] + ... + f[n].
Total(f, n) == RunningTotal(f, n)[n]
=============================================================================
