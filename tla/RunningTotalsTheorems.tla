------------------------ MODULE RunningTotalsTheorems ------------------------
(***************************************************************************)
(* Facts about RunningTotals, for every function and every length, about   *)
(* the sum of a column over a finite set of records, and about the shares  *)
(* of a payment that Allocation computes.                                  *)
(*                                                                         *)
(* The provers cannot instantiate an induction rule that takes a predicate *)
(* as a parameter, so induction is done here with a set: LeastNatural says *)
(* that a non-empty set of naturals has a least element, and a lemma is    *)
(* proved by looking at the least n that would refute it.                  *)
(***************************************************************************)
EXTENDS RunningTotals, Allocation, FiniteSetsExt, FiniteSetTheorems, TLAPS

\* Every non-empty set of naturals has a least element.  It follows from the library's
\* fact that strict inclusion is well-founded on the finite sets of naturals, applied to
\* the intervals 0..n.
LEMMA LeastNatural ==
  ASSUME NEW T, T \subseteq Nat, T # {}
  PROVE  \E m \in T : \A k \in T : m <= k
<1> DEFINE F == {0..n : n \in T}
<1>1. IsWellFoundedOn(StrictSubsetOrdering(Nat), FiniteSubsetsOf(Nat))
  BY FS_StrictSubsetOrderingWellFounded, Zenon
<1>2. F \subseteq FiniteSubsetsOf(Nat) /\ F # {}
  <2>1. ASSUME NEW n \in T PROVE 0..n \in FiniteSubsetsOf(Nat)
    <3>1. IsFiniteSet(0..n)
      BY FS_Interval, n \in Int, 0 \in Int
    <3>2. 0..n \in SUBSET Nat
      BY SMT
    <3>3. QED
      BY <3>1, <3>2, Zenon DEF FiniteSubsetsOf
  <2>2. QED
    BY <2>1, Zenon
<1>3. PICK x \in F : \A y \in F : ~(<<y, x>> \in StrictSubsetOrdering(Nat))
  BY <1>1, <1>2, WFMin, Zenon
<1>4. PICK m \in T : x = 0..m
  OBVIOUS
<1>5. ASSUME NEW k \in T, k < m PROVE FALSE
  <2>1. 0..k \subseteq 0..m /\ 0..k # 0..m /\ 0..k \subseteq Nat /\ 0..m \subseteq Nat
    BY <1>5, m \in 0..m, ~(m \in 0..k), SMT
  <2>2. <<0..k, 0..m>> \in StrictSubsetOrdering(Nat)
    BY <2>1, SMT DEF StrictSubsetOrdering
  <2>3. QED
    BY <1>3, <1>4, <2>2, 0..k \in F, Zenon
<1>6. QED
  BY <1>5, SMT

\* A function of partial sums exists for every f and n, so the recursive definition of
\* RunningTotal defines one.
LEMMA RunningTotalExists ==
  ASSUME NEW f, NEW n \in Nat, f \in [1..n -> Int]
  PROVE  \E r \in [0..n -> Int] :
            r = [k \in 0..n |-> IF k = 0 THEN 0 ELSE r[k-1] + f[k]]
<1> DEFINE Sums(r, m) == r = [k \in 0..m |-> IF k = 0 THEN 0 ELSE r[k-1] + f[k]]
           Bad == {m \in 0..n : ~\E r \in [0..m -> Int] : Sums(r, m)}
<1>1. SUFFICES ASSUME Bad # {} PROVE FALSE
  BY n \in 0..n, Zenon
<1>2. PICK m \in Bad : \A k \in Bad : m <= k
  BY <1>1, LeastNatural, Bad \subseteq Nat
<1>3. CASE m = 0
  <2>1. Sums([k \in 0..0 |-> 0], 0)
    BY SMT
  <2>2. QED
    BY <1>2, <1>3, <2>1, [k \in 0..0 |-> 0] \in [0..0 -> Int]
<1>4. CASE m > 0
  <2>1. m-1 \in 0..n /\ m-1 \notin Bad /\ m \in 1..n
    <3>1. m \in 0..n /\ m \in Nat
      BY <1>2
    <3>2. m-1 \in 0..n /\ m \in 1..n /\ ~(m <= m-1)
      BY <1>4, <3>1, SMT
    <3>3. QED
      BY <1>2, <3>2, Zenon
  <2>2. PICK r \in [0..(m-1) -> Int] : Sums(r, m-1)
    BY <2>1
  <2> DEFINE t == [k \in 0..m |-> IF k = m THEN r[m-1] + f[m] ELSE r[k]]
  <2>3. t \in [0..m -> Int]
    BY <2>1, SMT
  <2>4. Sums(t, m)
    <3>1. \A k \in 0..(m-1) : r[k] = IF k = 0 THEN 0 ELSE r[k-1] + f[k]
      BY <2>2, Zenon
    <3>2. ASSUME NEW k \in 0..m PROVE t[k] = IF k = 0 THEN 0 ELSE t[k-1] + f[k]
      BY <1>4, <3>1, SMT
    <3>3. QED
      BY <3>2, Zenon
  <2>5. QED
    BY <1>2, <2>3, <2>4, Zenon
<1>5. QED
  BY <1>2, <1>3, <1>4, SMT

\* The defining equations of the partial sums.
LEMMA RunningTotalDef ==
  ASSUME NEW f, NEW n \in Nat, f \in [1..n -> Int]
  PROVE  /\ RunningTotal(f, n) \in [0..n -> Int]
         /\ RunningTotal(f, n)[0] = 0
         /\ \A k \in 1..n : RunningTotal(f, n)[k] = RunningTotal(f, n)[k-1] + f[k]
<1> DEFINE Sums(r) == r = [k \in 0..n |-> IF k = 0 THEN 0 ELSE r[k-1] + f[k]]
           R == RunningTotal(f, n)
<1>1. PICK p \in [0..n -> Int] : Sums(p)
  BY RunningTotalExists
<1>2. Sums(R)
  <2>1. R = CHOOSE r : Sums(r)
    BY DEF RunningTotal
  <2>2. QED
    BY <1>1, <2>1, Zenon
<1> HIDE DEF R
<1>3. R[0] = 0 /\ \A k \in 1..n : R[k] = R[k-1] + f[k]
  <2>1. \A k \in 0..n : R[k] = IF k = 0 THEN 0 ELSE R[k-1] + f[k]
    BY <1>2, Zenon
  <2>2. QED
    BY <2>1, SMT
<1>4. \A k \in 0..n : R[k] = p[k]
  <2> DEFINE Bad == {k \in 0..n : R[k] # p[k]}
  <2>1. SUFFICES ASSUME Bad # {} PROVE FALSE
    BY SMT
  <2>2. PICK m \in Bad : \A k \in Bad : m <= k
    BY <2>1, LeastNatural, Bad \subseteq Nat
  <2>3. \A k \in 0..n : p[k] = IF k = 0 THEN 0 ELSE p[k-1] + f[k]
    BY <1>1, Zenon
  <2>4. m # 0
    BY <1>3, <2>2, <2>3, SMT
  <2>5. R[m-1] = p[m-1]
    BY <2>2, <2>4, SMT
  <2>6. QED
    BY <1>3, <2>2, <2>3, <2>4, <2>5, SMT
<1>5. R \in [0..n -> Int]
  <2>1. R = [k \in 0..n |-> IF k = 0 THEN 0 ELSE R[k-1] + f[k]]
    BY <1>2
  <2>2. \A k \in 0..n : (IF k = 0 THEN 0 ELSE R[k-1] + f[k]) \in Int
    BY <1>4, <2>1, SMT
  <2> DEFINE e(k) == IF k = 0 THEN 0 ELSE R[k-1] + f[k]
  <2>3. R = [k \in 0..n |-> e(k)] /\ \A k \in 0..n : e(k) \in Int
    BY <2>1, <2>2, Zenon
  <2> HIDE DEF e
  <2>4. QED
    BY <2>3, Zenon
<1>6. QED
  BY <1>3, <1>5 DEF R

\* A total is an integer.
LEMMA TotalType ==
  ASSUME NEW f, NEW n \in Nat, f \in [1..n -> Int]
  PROVE  Total(f, n) \in Int
BY RunningTotalDef, n \in 0..n DEF Total

\* The total of nothing.
LEMMA TotalEmpty ==
  ASSUME NEW f, f \in [1..0 -> Int]
  PROVE  Total(f, 0) = 0
BY RunningTotalDef, 0 \in Nat DEF Total

\* Functions that agree on 1..n have the same partial sums there, however far each goes.
LEMMA RunningTotalAgrees ==
  ASSUME NEW n \in Nat, NEW m \in Nat, n <= m,
         NEW f, f \in [1..n -> Int], NEW g, g \in [1..m -> Int],
         \A k \in 1..n : f[k] = g[k]
  PROVE  \A k \in 0..n : RunningTotal(f, n)[k] = RunningTotal(g, m)[k]
<1> DEFINE R == RunningTotal(f, n)
           S == RunningTotal(g, m)
           Bad == {k \in 0..n : R[k] # S[k]}
<1>1. R[0] = 0 /\ \A k \in 1..n : R[k] = R[k-1] + f[k]
  BY RunningTotalDef
<1>2. S[0] = 0 /\ \A k \in 1..m : S[k] = S[k-1] + g[k]
  BY RunningTotalDef
<1> HIDE DEF R, S
<1>3. SUFFICES ASSUME Bad # {} PROVE FALSE
  BY DEF R, S
<1>4. PICK b \in Bad : \A k \in Bad : b <= k
  BY <1>3, LeastNatural, Bad \subseteq Nat
<1>5. b # 0
  BY <1>1, <1>2, <1>4, SMT
<1>6. R[b-1] = S[b-1]
  BY <1>4, <1>5, SMT
<1>7. QED
  BY <1>1, <1>2, <1>4, <1>5, <1>6, SMT

\* One more term adds that term.
LEMMA TotalStep ==
  ASSUME NEW n \in Nat, NEW f, f \in [1..n -> Int], NEW g, g \in [1..(n+1) -> Int],
         \A k \in 1..n : f[k] = g[k]
  PROVE  Total(g, n+1) = Total(f, n) + g[n+1]
<1>1. RunningTotal(g, n+1)[n+1] = RunningTotal(g, n+1)[n] + g[n+1]
  <2>1. \A k \in 1..(n+1) : RunningTotal(g, n+1)[k] = RunningTotal(g, n+1)[k-1] + g[k]
    BY RunningTotalDef, n+1 \in Nat
  <2>2. n+1 \in 1..(n+1) /\ (n+1)-1 = n
    BY SMT
  <2>3. QED
    BY <2>1, <2>2
<1>2. RunningTotal(f, n)[n] = RunningTotal(g, n+1)[n]
  BY RunningTotalAgrees, n+1 \in Nat, n <= n+1, n \in 0..n
<1>3. QED
  BY <1>1, <1>2 DEF Total

\* One term that differs moves the total by the difference.
LEMMA TotalChange ==
  ASSUME NEW n \in Nat, NEW p \in 1..n, NEW f, f \in [1..n -> Int], NEW g, g \in [1..n -> Int],
         \A k \in 1..n : k # p => g[k] = f[k]
  PROVE  Total(g, n) = Total(f, n) + g[p] - f[p]
<1> DEFINE R == RunningTotal(f, n)
           S == RunningTotal(g, n)
           Moved(k) == IF k < p THEN 0 ELSE g[p] - f[p]
           Bad == {k \in 0..n : S[k] # R[k] + Moved(k)}
<1>1. R \in [0..n -> Int] /\ R[0] = 0 /\ \A k \in 1..n : R[k] = R[k-1] + f[k]
  BY RunningTotalDef
<1>2. S \in [0..n -> Int] /\ S[0] = 0 /\ \A k \in 1..n : S[k] = S[k-1] + g[k]
  BY RunningTotalDef
<1> HIDE DEF R, S
<1>3. Bad = {}
  <2> SUFFICES ASSUME Bad # {} PROVE FALSE
    OBVIOUS
  <2>1. PICK b \in Bad : \A k \in Bad : b <= k
    BY LeastNatural, Bad \subseteq Nat
  <2>2. b # 0
    BY <1>1, <1>2, <2>1, SMT
  <2>3. S[b-1] = R[b-1] + Moved(b-1)
    BY <2>1, <2>2, SMT
  <2>4. b \in 1..n /\ f[b] \in Int /\ g[b] \in Int /\ f[p] \in Int /\ g[p] \in Int
        /\ R[b-1] \in Int /\ S[b-1] \in Int
    <3>1. b \in 1..n /\ b-1 \in 0..n
      BY <2>1, <2>2, SMT
    <3> QED BY <1>1, <1>2, <3>1
  <2>5. S[b] = S[b-1] + g[b] /\ R[b] = R[b-1] + f[b]
    BY <1>1, <1>2, <2>4
  <2>6. S[b] = R[b] + Moved(b)
    <3>1. CASE b = p
      <4>1. Moved(b-1) = 0 /\ Moved(b) = g[b] - f[b]
        BY <2>4, <3>1, SMT
      <4> HIDE DEF Moved
      <4> QED BY <2>3, <2>4, <2>5, <4>1
    <3>2. CASE b # p
      <4>1. Moved(b-1) = Moved(b) /\ Moved(b) \in Int
        BY <2>4, <3>2, SMT
      <4>2. g[b] = f[b]
        BY <2>4, <3>2
      <4> HIDE DEF Moved
      <4> QED BY <2>3, <2>4, <2>5, <4>1, <4>2
    <3> QED BY <3>1, <3>2
  <2> QED BY <2>1, <2>6
<1>4. S[n] = R[n] + Moved(n)
  BY <1>3
<1> QED BY <1>1, <1>2, <1>4, SMT DEF Total, R, S

\* A set that holds 0, and with every number below n the next one, holds all of 0..n.
LEMMA UpTo ==
  ASSUME NEW n \in Nat, NEW S, 0 \in S, \A k \in 0..(n-1) : k \in S => k+1 \in S
  PROVE  \A k \in 0..n : k \in S
<1> DEFINE Bad == {k \in 0..n : k \notin S}
<1>1. SUFFICES ASSUME Bad # {} PROVE FALSE
  BY SMT
<1>2. PICK b \in Bad : \A k \in Bad : b <= k
  BY <1>1, LeastNatural, Bad \subseteq Nat
<1>3. b \in Nat /\ b <= n /\ b # 0 /\ b \notin S
  BY <1>2, SMT
<1>4. b-1 \in 0..(n-1) /\ b-1 \in 0..n /\ ~(b <= b-1) /\ (b-1)+1 = b
  BY <1>3, SMT
<1>5. b-1 \in S
  BY <1>2, <1>4
<1> QED BY <1>3, <1>4, <1>5

\* Functions that agree on 1..n have the same total.
LEMMA TotalSame ==
  ASSUME NEW n \in Nat, NEW f, f \in [1..n -> Int], NEW g, g \in [1..n -> Int],
         \A k \in 1..n : f[k] = g[k]
  PROVE  Total(f, n) = Total(g, n)
<1>1. n \in 0..n /\ n <= n
  BY SMT
<1> QED BY <1>1, RunningTotalAgrees DEF Total

\* The total of zeros.
LEMMA TotalZero ==
  ASSUME NEW n \in Nat, NEW f, f \in [1..n -> Int], \A k \in 1..n : f[k] = 0
  PROVE  Total(f, n) = 0
<1> DEFINE R == RunningTotal(f, n)
           S == {k \in 0..n : R[k] = 0}
<1>1. R[0] = 0 /\ \A k \in 1..n : R[k] = R[k-1] + f[k]
  BY RunningTotalDef
<1> HIDE DEF R
<1>2. ASSUME NEW k \in 0..(n-1), k \in S PROVE k+1 \in S
  <2>1. k+1 \in 1..n /\ k+1 \in 0..n /\ (k+1)-1 = k
    BY SMT
  <2>2. R[k+1] = R[k] + f[k+1] /\ f[k+1] = 0 /\ R[k] = 0
    BY <1>1, <1>2, <2>1
  <2> QED BY <2>1, <2>2
<1>3. 0 \in S /\ n \in 0..n
  BY <1>1
<1> HIDE DEF S
<1>4. n \in S
  BY <1>2, <1>3, UpTo
<1> QED BY <1>4 DEF S, R, Total

\* Totals add up term by term.
LEMMA TotalAdd ==
  ASSUME NEW n \in Nat, NEW f, f \in [1..n -> Int], NEW g, g \in [1..n -> Int],
         NEW h, h \in [1..n -> Int], \A k \in 1..n : h[k] = f[k] + g[k]
  PROVE  Total(h, n) = Total(f, n) + Total(g, n)
<1> DEFINE R == RunningTotal(f, n)
           Q == RunningTotal(g, n)
           P == RunningTotal(h, n)
           S == {k \in 0..n : P[k] = R[k] + Q[k]}
<1>1. R \in [0..n -> Int] /\ R[0] = 0 /\ \A k \in 1..n : R[k] = R[k-1] + f[k]
  BY RunningTotalDef
<1>2. Q \in [0..n -> Int] /\ Q[0] = 0 /\ \A k \in 1..n : Q[k] = Q[k-1] + g[k]
  BY RunningTotalDef
<1>3. P \in [0..n -> Int] /\ P[0] = 0 /\ \A k \in 1..n : P[k] = P[k-1] + h[k]
  BY RunningTotalDef
<1> HIDE DEF R, Q, P
<1>4. ASSUME NEW k \in 0..(n-1), k \in S PROVE k+1 \in S
  <2>1. k+1 \in 1..n /\ k+1 \in 0..n /\ k \in 0..n /\ (k+1)-1 = k
    BY SMT
  <2>2. P[k+1] = P[k] + h[k+1] /\ R[k+1] = R[k] + f[k+1] /\ Q[k+1] = Q[k] + g[k+1]
    BY <1>1, <1>2, <1>3, <2>1
  <2>3. h[k+1] = f[k+1] + g[k+1] /\ P[k] = R[k] + Q[k]
    BY <1>4, <2>1
  <2>4. R[k] \in Int /\ Q[k] \in Int /\ f[k+1] \in Int /\ g[k+1] \in Int
    BY <1>1, <1>2, <2>1
  <2>5. P[k+1] = R[k+1] + Q[k+1]
    BY ONLY <2>2, <2>3, <2>4
  <2> QED BY <2>1, <2>5
<1>5. 0 \in S /\ n \in 0..n
  BY <1>1, <1>2, <1>3
<1> HIDE DEF S
<1>6. n \in S
  BY <1>4, <1>5, UpTo
<1> QED BY <1>6 DEF S, R, Q, P, Total

\* The total of opposites is the opposite of the total.
LEMMA TotalNegate ==
  ASSUME NEW n \in Nat, NEW f, f \in [1..n -> Int], NEW g, g \in [1..n -> Int],
         \A k \in 1..n : g[k] = -f[k]
  PROVE  Total(g, n) = -Total(f, n)
<1> DEFINE z == [k \in 1..n |-> 0]
<1>1. z \in [1..n -> Int] /\ \A k \in 1..n : z[k] = 0
  OBVIOUS
<1>2. \A k \in 1..n : z[k] = f[k] + g[k]
  <2> SUFFICES ASSUME NEW k \in 1..n PROVE z[k] = f[k] + g[k]
    OBVIOUS
  <2>1. f[k] \in Int /\ g[k] = -f[k]
    OBVIOUS
  <2> QED BY <2>1
<1> HIDE DEF z
<1>3. Total(z, n) = 0
  BY <1>1, TotalZero
<1>4. Total(z, n) = Total(f, n) + Total(g, n)
  BY <1>1, <1>2, TotalAdd
<1>5. Total(f, n) \in Int /\ Total(g, n) \in Int
  BY TotalType
<1> QED BY <1>3, <1>4, <1>5

\* One term that moves by d moves the total by d.
LEMMA TotalMoves ==
  ASSUME NEW n \in Nat, NEW f, f \in [1..n -> Int], NEW g, g = [k \in 1..n |-> g[k]],
         NEW p \in 1..n, NEW d \in Int, g[p] = f[p] + d, \A k \in 1..n : k # p => g[k] = f[k]
  PROVE  Total(g, n) = Total(f, n) + d
<1>1. \A k \in 1..n : g[k] \in Int
  <2> SUFFICES ASSUME NEW k \in 1..n PROVE g[k] \in Int
    OBVIOUS
  <2>1. f[k] \in Int
    OBVIOUS
  <2>2. QED
    BY <2>1
<1>2. g \in [1..n -> Int]
  BY <1>1, Zenon
<1>3. Total(g, n) = Total(f, n) + g[p] - f[p]
  BY <1>2, TotalChange
<1>4. Total(f, n) \in Int /\ f[p] \in Int
  BY TotalType
<1>5. QED
  BY <1>3, <1>4

\* Naturals add up to a natural.
LEMMA TotalNatural ==
  ASSUME NEW n \in Nat, NEW f, f \in [1..n -> Int], \A k \in 1..n : f[k] >= 0
  PROVE  Total(f, n) >= 0
<1> DEFINE R == RunningTotal(f, n)
           S == {k \in 0..n : R[k] >= 0}
<1>1. R \in [0..n -> Int] /\ R[0] = 0 /\ \A k \in 1..n : R[k] = R[k-1] + f[k]
  BY RunningTotalDef
<1> HIDE DEF R
<1>2. 0 \in S
  BY <1>1, SMT
<1>3. ASSUME NEW k \in 0..(n-1), k \in S PROVE k+1 \in S
  <2>1. k \in Int /\ k+1 \in 1..n /\ k+1 \in 0..n /\ (k+1)-1 = k /\ k \in 0..n
    BY <1>3, SMT
  <2>2. R[k+1] = R[k] + f[k+1] /\ R[k] \in Int /\ R[k] >= 0 /\ f[k+1] \in Int /\ f[k+1] >= 0
    BY <1>1, <1>3, <2>1
  <2>3. QED
    BY <2>1, <2>2
<1>4. \A k \in 0..n : k \in S
  <2> HIDE DEF S
  <2>1. n \in Nat
    OBVIOUS
  <2>2. QED
    BY ONLY <1>2, <1>3, <2>1, UpTo
<1>5. n \in 0..n
  BY SMT
<1>6. QED
  BY <1>4, <1>5 DEF Total, R

\* Larger values have a larger total.
LEMMA TotalMonotone ==
  ASSUME NEW n \in Nat, NEW f, f \in [1..n -> Int], NEW g, g \in [1..n -> Int],
         \A k \in 1..n : f[k] <= g[k]
  PROVE  Total(f, n) <= Total(g, n)
<1> DEFINE h == [k \in 1..n |-> g[k] - f[k]]
<1>1. /\ h \in [1..n -> Int] /\ \A k \in 1..n : h[k] >= 0
      /\ \A k \in 1..n : g[k] = f[k] + h[k]
  <2>1. ASSUME NEW k \in 1..n PROVE h[k] \in Int /\ h[k] >= 0 /\ g[k] = f[k] + h[k]
    <3>1. f[k] \in Int /\ g[k] \in Int /\ f[k] <= g[k] /\ h[k] = g[k] - f[k]
      OBVIOUS
    <3> HIDE DEF h
    <3>2. QED
      BY ONLY <3>1, SMT
  <2>2. QED
    BY <2>1
<1> HIDE DEF h
<1>2. Total(h, n) >= 0
  BY <1>1, TotalNatural
<1>3. Total(g, n) = Total(f, n) + Total(h, n)
  BY ONLY <1>1, TotalAdd, n \in Nat, f \in [1..n -> Int], g \in [1..n -> Int]
<1>4. Total(f, n) \in Int /\ Total(h, n) \in Int
  BY <1>1, TotalType
<1>5. QED
  BY <1>2, <1>3, <1>4, SMT

\* Zeroes at the end do not count.
LEMMA TotalPad ==
  ASSUME NEW n \in Nat, NEW m \in Nat, n <= m,
         NEW f, f \in [1..n -> Int], NEW g, g \in [1..m -> Int],
         \A k \in 1..n : g[k] = f[k], \A k \in (n+1)..m : g[k] = 0
  PROVE  Total(g, m) = Total(f, n)
<1> DEFINE R == RunningTotal(g, m)
           S == {k \in 0..(m-n) : R[n+k] = Total(f, n)}
<1>1. R \in [0..m -> Int] /\ \A k \in 1..m : R[k] = R[k-1] + g[k]
  BY RunningTotalDef
<1>2. R[n] = Total(f, n)
  <2>1. n \in 0..n
    BY SMT
  <2>2. \A k \in 0..n : RunningTotal(f, n)[k] = RunningTotal(g, m)[k]
    BY RunningTotalAgrees
  <2>3. QED
    BY <2>1, <2>2 DEF Total
<1> HIDE DEF R
<1>3. 0 \in S
  BY <1>2, SMT
<1>4. ASSUME NEW k \in 0..((m-n)-1), k \in S PROVE k+1 \in S
  <2>1. /\ k \in Int /\ n + (k+1) \in 1..m /\ n + (k+1) \in (n+1)..m /\ k+1 \in 0..(m-n)
        /\ (n + (k+1)) - 1 = n + k /\ n + k \in 0..m
    BY SMT
  <2>2. R[n + (k+1)] = R[n + k] + g[n + (k+1)] /\ R[n + k] \in Int
    BY <1>1, <2>1
  <2>3. g[n + (k+1)] = 0
    BY <2>1
  <2>4. R[n + k] = Total(f, n)
    BY <1>4
  <2>5. R[n + (k+1)] = Total(f, n)
    BY <2>2, <2>3, <2>4, SMT
  <2>6. QED
    BY <2>1, <2>5
<1>5. \A k \in 0..(m-n) : k \in S
  <2> HIDE DEF S
  <2>1. m - n \in Nat
    BY SMT
  <2>2. QED
    BY ONLY <1>3, <1>4, <2>1, UpTo
<1>6. m - n \in 0..(m-n) /\ n + (m-n) = m
  BY SMT
<1>7. QED
  BY <1>5, <1>6 DEF Total, R

\* Nor does a new term that is zero.
LEMMA TotalPadOne ==
  ASSUME NEW n \in Nat, NEW f, f \in [1..n -> Int], NEW g, g = [k \in 1..(n+1) |-> g[k]],
         \A k \in 1..n : g[k] = f[k], g[n+1] = 0
  PROVE  Total(g, n+1) = Total(f, n)
<1>1. \A k \in 1..(n+1) : g[k] \in Int
  <2> SUFFICES ASSUME NEW k \in 1..(n+1) PROVE g[k] \in Int
    OBVIOUS
  <2>1. CASE k \in 1..n
    BY <2>1
  <2>2. CASE k \notin 1..n
    <3>1. k = n+1
      BY <2>2
    <3>2. QED
      BY <3>1
  <2>3. QED
    BY <2>1, <2>2
<1>2. g \in [1..(n+1) -> Int]
  BY <1>1, Zenon
<1>3. Total(g, n+1) = Total(f, n) + g[n+1]
  BY <1>2, TotalStep
<1>4. Total(f, n) \in Int
  BY TotalType
<1>5. QED
  BY <1>3, <1>4


\* The n rows each total 0; totals holds the totals of the m columns.
BalancedTable(row, totals, n, m) ==
    /\ n \in Nat /\ m \in Nat
    /\ row \in [1..n -> [1..m -> Int]] /\ totals \in [1..m -> Int]
    /\ \A k \in 1..n : Total(row[k], m) = 0
    /\ \A a \in 1..m : totals[a] = Total([k \in 1..n |-> row[k][a]], n)

\* Rows that each total 0 have columns whose totals total 0.
LEMMA BalancedRows ==
  ASSUME NEW row, NEW totals, NEW n, NEW m, BalancedTable(row, totals, n, m)
  PROVE  Total(totals, m) = 0
<1> USE DEF BalancedTable
<1> DEFINE column == [a \in 1..m |-> [k \in 1..n |-> row[k][a]]]
           R(a) == RunningTotal(column[a], n)
           sums(k) == [a \in 1..m |-> R(a)[k]]
           S == {k \in 0..n : Total(sums(k), m) = 0}
<1>0. ASSUME NEW f, f \in [1..m -> Int], NEW g, g \in [1..m -> Int],
             NEW h, h \in [1..m -> Int], \A a \in 1..m : h[a] = f[a] + g[a]
      PROVE  Total(h, m) = Total(f, m) + Total(g, m)
  BY ONLY <1>0, TotalAdd, m \in Nat
<1>1. ASSUME NEW a \in 1..m
      PROVE  /\ column[a] \in [1..n -> Int]
             /\ R(a) \in [0..n -> Int] /\ R(a)[0] = 0
             /\ \A k \in 1..n : R(a)[k] = R(a)[k-1] + row[k][a]
  <2>1. \A k \in 1..n : row[k][a] \in Int
    OBVIOUS
  <2>2. column[a] = [k \in 1..n |-> row[k][a]]
    OBVIOUS
  <2> DEFINE f == column[a]
  <2>3. f \in [1..n -> Int] /\ \A k \in 1..n : f[k] = row[k][a]
    BY <2>1, <2>2
  <2> HIDE DEF f
  <2>4. /\ RunningTotal(f, n) \in [0..n -> Int] /\ RunningTotal(f, n)[0] = 0
        /\ \A k \in 1..n : RunningTotal(f, n)[k] = RunningTotal(f, n)[k-1] + f[k]
    BY <2>3, RunningTotalDef
  <2> QED BY <2>3, <2>4 DEF f
<1> HIDE DEF R
<1>2. \A k \in 0..n : sums(k) \in [1..m -> Int]
  BY <1>1
<1>3. Total(sums(0), m) = 0
  <2>1. \A a \in 1..m : sums(0)[a] = 0
    BY <1>1
  <2>2. sums(0) \in [1..m -> Int]
    BY <1>2, 0 \in 0..n
  <2> HIDE DEF sums
  <2> QED BY <2>1, <2>2, TotalZero
<1>4. ASSUME NEW k \in 0..(n-1), k \in S PROVE k+1 \in S
  <2>1. k+1 \in 1..n /\ k+1 \in 0..n /\ k \in 0..n /\ (k+1)-1 = k
    BY SMT
  <2>2. \A a \in 1..m : sums(k+1)[a] = sums(k)[a] + row[k+1][a]
    BY <1>1, <2>1
  <2>3. sums(k) \in [1..m -> Int] /\ sums(k+1) \in [1..m -> Int] /\ row[k+1] \in [1..m -> Int]
    BY <1>2, <2>1
  <2>4. Total(sums(k), m) = 0 /\ Total(row[k+1], m) = 0
    BY <1>4, <2>1
  <2> HIDE DEF sums
  <2>5. Total(sums(k+1), m) = Total(sums(k), m) + Total(row[k+1], m)
    BY <1>0, <2>2, <2>3
  <2> QED BY <2>1, <2>4, <2>5
<1>5. 0 \in S /\ n \in 0..n
  BY <1>3
<1> HIDE DEF S
<1>6. n \in S
  BY <1>4, <1>5, UpTo
<1>7. Total(sums(n), m) = 0 /\ sums(n) \in [1..m -> Int]
  BY <1>2, <1>5, <1>6 DEF S
<1>8. \A a \in 1..m : sums(n)[a] = totals[a]
  BY DEF R, Total
<1> HIDE DEF sums
<1>9. Total(sums(n), m) = Total(totals, m)
  <2> DEFINE f == sums(n)
  <2>1. f \in [1..m -> Int] /\ (\A a \in 1..m : f[a] = totals[a]) /\ totals \in [1..m -> Int] /\ m \in Nat
    BY <1>7, <1>8
  <2> HIDE DEF f
  <2>2. Total(f, m) = Total(totals, m)
    BY ONLY <2>1, TotalSame
  <2> QED BY <2>2 DEF f
<1> QED BY <1>7, <1>9

-----------------------------------------------------------------------------
(* Sums over finite sets                                                   *)

\* What the records of b put into column a.
SumOf(b, a) == MapThenSumSet(LAMBDA k : b[k][a], DOMAIN b)

\* The recursion that MapThenSumSet unfolds to, for one set.
Sum1(b, a, g, s) ==
    IF s = {} THEN 0
    ELSE LET x == CHOOSE y \in s : TRUE IN b[x][a] + g[s \ {x}]

\* g holds the sum of every subset of D.
SumsUp(b, a, g, D) ==
    g \in [SUBSET D -> Int] /\ \A s \in SUBSET D : g[s] = Sum1(b, a, g, s)

\* Column a of b has an integer for every key of D.
Summable(b, a, D) == IsFiniteSet(D) /\ \A k \in D : b[k][a] \in Int

\* A set without one of its elements is smaller by one.
LEMMA WithoutOne ==
  ASSUME NEW D, IsFiniteSet(D), NEW s \in SUBSET D, NEW x \in s
  PROVE  /\ IsFiniteSet(s) /\ Cardinality(s) \in Nat /\ s \ {x} \in SUBSET D
         /\ Cardinality(s \ {x}) = Cardinality(s) - 1 /\ Cardinality(s) # 0
         /\ Cardinality(s) <= Cardinality(D)
<1>1. IsFiniteSet(s) /\ Cardinality(s) <= Cardinality(D)
  BY FS_Subset
<1>2. Cardinality(s \ {x}) = Cardinality(s) - 1
  BY <1>1, FS_RemoveElement
<1>3. Cardinality(s) \in Nat /\ Cardinality(s) # 0
  BY <1>1, FS_CardinalityType, FS_EmptySet
<1>4. QED
  BY <1>1, <1>2, <1>3

\* Every subset of a finite set has a sum.
LEMMA SumsExist ==
  ASSUME NEW b, NEW a, NEW D, Summable(b, a, D)
  PROVE  \E g : SumsUp(b, a, g, D)
<1> DEFINE N == Cardinality(D)
           Level(n) == {s \in SUBSET D : Cardinality(s) <= n}
           Sums(g, n) == g \in [Level(n) -> Int] /\ \A s \in Level(n) : g[s] = Sum1(b, a, g, s)
           S == {n \in 0..N : \E g : Sums(g, n)}
<1>1. IsFiniteSet(D) /\ N \in Nat
  BY FS_CardinalityType DEF Summable
<1>2. \A s \in SUBSET D : /\ IsFiniteSet(s) /\ Cardinality(s) \in Nat /\ Cardinality(s) <= N
                          /\ (Cardinality(s) = 0 <=> s = {})
  BY <1>1, FS_Subset, FS_CardinalityType, FS_EmptySet
<1>3. 0 \in S
  <2> DEFINE g == [s \in Level(0) |-> 0]
  <2>1. \A s \in Level(0) : s = {}
    BY <1>2
  <2>2. Sums(g, 0)
    BY <2>1 DEF Sum1
  <2> HIDE DEF g, Sums
  <2>3. QED
    BY <1>1, <2>2
<1>4. ASSUME NEW n \in 0..(N-1), n \in S PROVE n+1 \in S
  <2>1. PICK g : Sums(g, n)
    BY <1>4
  <2> DEFINE h == [s \in Level(n+1) |-> Sum1(b, a, g, s)]
  <2>2. n \in Nat /\ n + 1 \in 0..N
    BY <1>1
  <2>3. Level(n) \subseteq Level(n+1)
    BY <1>2, <2>2
  <2>4. \A s \in Level(n) : h[s] = g[s]
    BY <2>1, <2>3
  <2>5. ASSUME NEW s \in Level(n+1), s # {}
        PROVE  LET x == CHOOSE y \in s : TRUE IN x \in s /\ x \in D /\ s \ {x} \in Level(n)
    <3> DEFINE x == CHOOSE y \in s : TRUE
    <3>1. x \in s
      BY <2>5
    <3>2. Cardinality(s \ {x}) = Cardinality(s) - 1 /\ s \ {x} \in SUBSET D
          /\ Cardinality(s) \in Nat /\ Cardinality(s) <= n + 1
      BY <1>1, <3>1, WithoutOne
    <3>3. QED
      BY <2>2, <3>1, <3>2
  <2>6. \A s \in Level(n+1) : Sum1(b, a, g, s) \in Int
    <3> TAKE s \in Level(n+1)
    <3>1. CASE s = {}
      BY <3>1 DEF Sum1
    <3>2. CASE s # {}
      <4> DEFINE x == CHOOSE y \in s : TRUE
      <4>1. x \in D /\ s \ {x} \in Level(n)
        BY <2>5, <3>2
      <4>2. b[x][a] \in Int /\ g[s \ {x}] \in Int
        BY <2>1, <4>1 DEF Summable
      <4>3. QED
        BY <3>2, <4>2 DEF Sum1
    <3>3. QED
      BY <3>1, <3>2
  <2>7. \A s \in Level(n+1) : Sum1(b, a, g, s) = Sum1(b, a, h, s)
    <3> TAKE s \in Level(n+1)
    <3>1. CASE s = {}
      BY <3>1 DEF Sum1
    <3>2. CASE s # {}
      <4> DEFINE x == CHOOSE y \in s : TRUE
      <4>1. s \ {x} \in Level(n)
        BY <2>5, <3>2
      <4>2. h[s \ {x}] = g[s \ {x}]
        BY <2>4, <4>1
      <4> HIDE DEF h
      <4>3. QED
        BY <3>2, <4>2 DEF Sum1
    <3>3. QED
      BY <3>1, <3>2
  <2>8. Sums(h, n+1)
    BY <2>6, <2>7
  <2>9. QED
    BY <2>2, <2>8
<1>5. \A n \in 0..N : n \in S
  <2> HIDE DEF S, N
  <2>1. QED
    BY ONLY <1>1, <1>3, <1>4, UpTo
<1>6. PICK g : Sums(g, N)
  BY <1>1, <1>5, N \in 0..N
<1>7. Level(N) = SUBSET D
  BY <1>2
<1>8. QED
  BY <1>6, <1>7 DEF SumsUp

\* The order in which the elements are taken does not matter.
LEMMA AnyElementFirst ==
  ASSUME NEW b, NEW a, NEW D, Summable(b, a, D), NEW g, SumsUp(b, a, g, D)
  PROVE  \A s \in SUBSET D : \A x \in s : g[s] = b[x][a] + g[s \ {x}]
<1> DEFINE N == Cardinality(D)
           S == {n \in 0..N : \A s \in SUBSET D : Cardinality(s) = n =>
                                 \A x \in s : g[s] = b[x][a] + g[s \ {x}]}
<1>1. IsFiniteSet(D) /\ N \in Nat
  BY FS_CardinalityType DEF Summable
<1>2. 0 \in S
  <2>1. ASSUME NEW s \in SUBSET D, Cardinality(s) = 0, NEW x \in s PROVE FALSE
    BY <1>1, <2>1, WithoutOne
  <2>2. QED
    BY <1>1, <2>1
<1>3. ASSUME NEW n \in 0..(N-1), n \in S PROVE n+1 \in S
  <2>1. n + 1 \in 0..N /\ n \in Nat
    BY <1>1
  <2>2. ASSUME NEW s \in SUBSET D, Cardinality(s) = n + 1, NEW x \in s
        PROVE  g[s] = b[x][a] + g[s \ {x}]
    <3> DEFINE y == CHOOSE z \in s : TRUE
    <3>1. y \in s /\ g[s] = b[y][a] + g[s \ {y}]
      BY DEF SumsUp, Sum1
    <3> HIDE DEF y
    <3>2. CASE x = y
      BY <3>1, <3>2
    <3>3. CASE x # y
      <4>1. /\ s \ {x} \in SUBSET D /\ s \ {y} \in SUBSET D
            /\ Cardinality(s \ {x}) = n /\ Cardinality(s \ {y}) = n
        BY <1>1, <2>1, <2>2, <3>1, WithoutOne, SMT
      <4>2. y \in s \ {x} /\ x \in s \ {y}
        BY <3>1, <3>3
      <4>3. /\ g[s \ {x}] = b[y][a] + g[(s \ {x}) \ {y}]
            /\ g[s \ {y}] = b[x][a] + g[(s \ {y}) \ {x}]
        BY <1>3, <4>1, <4>2
      <4>4. (s \ {x}) \ {y} = (s \ {y}) \ {x} /\ (s \ {x}) \ {y} \in SUBSET D
        OBVIOUS
      <4>5. b[x][a] \in Int /\ b[y][a] \in Int /\ g[(s \ {x}) \ {y}] \in Int
        BY <3>1, <4>4 DEF Summable, SumsUp
      <4> DEFINE bx == b[x][a]
                 by == b[y][a]
                 r == g[(s \ {x}) \ {y}]
      <4>6. /\ g[s] = by + (bx + r) /\ g[s \ {x}] = by + r
            /\ bx \in Int /\ by \in Int /\ r \in Int
        BY <3>1, <4>3, <4>4, <4>5, Zenon
      <4> HIDE DEF bx, by, r
      <4>7. g[s] = bx + g[s \ {x}]
        BY ONLY <4>6, SMT
      <4>8. QED
        BY <4>7 DEF bx
    <3>4. QED
      BY <3>2, <3>3
  <2>3. QED
    BY <2>1, <2>2
<1>4. \A n \in 0..N : n \in S
  <2> HIDE DEF S, N
  <2>1. QED
    BY ONLY <1>1, <1>2, <1>3, UpTo
<1>5. ASSUME NEW s \in SUBSET D, NEW x \in s PROVE g[s] = b[x][a] + g[s \ {x}]
  <2>1. Cardinality(s) \in 0..N
    BY <1>1, FS_Subset, FS_CardinalityType
  <2>2. QED
    BY <1>4, <2>1
<1>6. QED
  BY <1>5

\* Sums of the same values are the same.
LEMMA SumsAgree ==
  ASSUME NEW b, NEW a, NEW D, Summable(b, a, D), NEW g, SumsUp(b, a, g, D),
         NEW c, NEW E, D \subseteq E, NEW h,
         \A s \in SUBSET E : h[s] = Sum1(c, a, h, s),
         \A k \in D : c[k][a] = b[k][a]
  PROVE  \A s \in SUBSET D : h[s] = g[s]
<1> DEFINE N == Cardinality(D)
           S == {n \in 0..N : \A s \in SUBSET D : Cardinality(s) = n => h[s] = g[s]}
<1>1. IsFiniteSet(D) /\ N \in Nat
  BY FS_CardinalityType DEF Summable
<1>2. 0 \in S
  <2>1. ASSUME NEW s \in SUBSET D, Cardinality(s) = 0 PROVE h[s] = g[s]
    <3>1. s = {}
      BY <1>1, <2>1, FS_EmptySet, FS_Subset
    <3>2. s \in SUBSET E
      BY <3>1
    <3>3. QED
      BY <3>1, <3>2 DEF SumsUp, Sum1
  <2>2. QED
    BY <1>1, <2>1
<1>3. ASSUME NEW n \in 0..(N-1), n \in S PROVE n+1 \in S
  <2>1. n + 1 \in 0..N /\ n \in Nat
    BY <1>1
  <2>2. ASSUME NEW s \in SUBSET D, Cardinality(s) = n + 1 PROVE h[s] = g[s]
    <3> DEFINE y == CHOOSE z \in s : TRUE
    <3>1. s # {}
      BY <2>1, <2>2, FS_EmptySet, SMT
    <3>2. y \in s /\ g[s] = b[y][a] + g[s \ {y}] /\ h[s] = c[y][a] + h[s \ {y}]
      BY <3>1 DEF SumsUp, Sum1
    <3> HIDE DEF y
    <3>3. s \ {y} \in SUBSET D /\ Cardinality(s \ {y}) = n
      BY <1>1, <2>1, <2>2, <3>2, WithoutOne, SMT
    <3>4. QED
      BY <1>3, <3>2, <3>3
  <2>3. QED
    BY <2>1, <2>2
<1>4. \A n \in 0..N : n \in S
  <2> HIDE DEF S, N
  <2>1. QED
    BY ONLY <1>1, <1>2, <1>3, UpTo
<1>5. ASSUME NEW s \in SUBSET D PROVE h[s] = g[s]
  <2>1. Cardinality(s) \in 0..N
    BY <1>1, FS_Subset, FS_CardinalityType
  <2>2. QED
    BY <1>4, <2>1
<1>6. QED
  BY <1>5

\* A sum is what the recursion yields for the whole domain.
LEMMA SumOfDef ==
  ASSUME NEW b, NEW a, Summable(b, a, DOMAIN b)
  PROVE  \E g : SumsUp(b, a, g, DOMAIN b) /\ SumOf(b, a) = g[DOMAIN b]
<1> DEFINE D == DOMAIN b
           Iter(g) == g = [s \in SUBSET D |-> Sum1(b, a, g, s)]
           iter == CHOOSE g : Iter(g)
<1>1. \E g : SumsUp(b, a, g, D)
  BY SumsExist
<1>2. \E g : Iter(g)
  BY <1>1 DEF SumsUp
<1>3. Iter(iter)
  BY <1>2
<1>4. SumOf(b, a) = iter[D]
  BY Zenon DEF SumOf, MapThenSumSet, MapThenFoldSet, Sum1
<1>5. SumsUp(b, a, iter, D)
  <2> HIDE DEF iter
  <2>1. \A s \in SUBSET D : iter[s] = Sum1(b, a, iter, s)
    BY <1>3
  <2>2. PICK g : SumsUp(b, a, g, D)
    BY <1>1
  <2>3. \A s \in SUBSET D : iter[s] = g[s]
    <3> HIDE DEF D
    <3>1. Summable(b, a, D)
      BY DEF D
    <3>2. QED
      BY ONLY <2>1, <2>2, <3>1, SumsAgree
  <2>4. iter = [s \in SUBSET D |-> iter[s]]
    BY <1>3
  <2>5. QED
    BY <2>1, <2>2, <2>3, <2>4 DEF SumsUp
<1>6. QED
  BY <1>4, <1>5

\* Columns of integers sum up to an integer, nothing to zero.
LEMMA SumOfType ==
  ASSUME NEW b, NEW a, Summable(b, a, DOMAIN b)
  PROVE  SumOf(b, a) \in Int /\ (DOMAIN b = {} => SumOf(b, a) = 0)
<1>1. PICK g : SumsUp(b, a, g, DOMAIN b) /\ SumOf(b, a) = g[DOMAIN b]
  BY SumOfDef
<1>2. QED
  BY <1>1 DEF SumsUp, Sum1

\* A new key adds its value.
LEMMA SumOfAdd ==
  ASSUME NEW b, NEW a, Summable(b, a, DOMAIN b), NEW c, NEW x, x \notin DOMAIN b,
         DOMAIN c = DOMAIN b \cup {x}, \A k \in DOMAIN b : c[k][a] = b[k][a], c[x][a] \in Int
  PROVE  Summable(c, a, DOMAIN c) /\ SumOf(c, a) = SumOf(b, a) + c[x][a]
<1> DEFINE D == DOMAIN b
           E == DOMAIN c
<1>1. Summable(c, a, E)
  BY FS_AddElement DEF Summable
<1>2. PICK g : SumsUp(b, a, g, D) /\ SumOf(b, a) = g[D]
  BY SumOfDef
<1>3. PICK h : SumsUp(c, a, h, E) /\ SumOf(c, a) = h[E]
  BY <1>1, SumOfDef
<1>4. x \in E /\ E \ {x} = D /\ D \subseteq E /\ Summable(b, a, D)
  OBVIOUS
<1>5. \A k \in D : c[k][a] = b[k][a]
  OBVIOUS
<1> HIDE DEF D, E
<1>6. h[E] = c[x][a] + h[D]
  BY <1>1, <1>3, <1>4, AnyElementFirst
<1>7. h[D] = g[D]
  <2>1. \A s \in SUBSET E : h[s] = Sum1(c, a, h, s)
    BY <1>3 DEF SumsUp
  <2>2. \A s \in SUBSET D : h[s] = g[s]
    BY ONLY <1>2, <1>4, <1>5, <2>1, SumsAgree
  <2>3. QED
    BY <2>2
<1>8. c[x][a] \in Int /\ g[D] \in Int
  BY <1>2 DEF SumsUp
<1>9. QED
  BY <1>1, <1>2, <1>3, <1>6, <1>7, <1>8 DEF D, E

\* Two new keys add theirs.
LEMMA SumOfAddTwo ==
  ASSUME NEW b, NEW a, Summable(b, a, DOMAIN b), NEW c, NEW x, NEW y, x # y,
         x \notin DOMAIN b, y \notin DOMAIN b, DOMAIN c = DOMAIN b \cup {x, y},
         \A k \in DOMAIN b : c[k][a] = b[k][a], c[x][a] \in Int, c[y][a] \in Int
  PROVE  SumOf(c, a) = SumOf(b, a) + c[x][a] + c[y][a]
<1> DEFINE d == [k \in DOMAIN b \cup {x} |-> c[k]]
<1>1. SumOf(b, a) \in Int
  BY SumOfType
<1>2. /\ DOMAIN d = DOMAIN b \cup {x} /\ \A k \in DOMAIN d : c[k][a] = d[k][a]
      /\ \A k \in DOMAIN b : d[k][a] = b[k][a]
      /\ d[x][a] = c[x][a]
  OBVIOUS
<1>3. DOMAIN c = DOMAIN d \cup {y} /\ y \notin DOMAIN d
  BY <1>2
<1> HIDE DEF d
<1>4. Summable(d, a, DOMAIN d) /\ SumOf(d, a) = SumOf(b, a) + d[x][a]
  BY <1>2, SumOfAdd
<1>5. SumOf(c, a) = SumOf(d, a) + c[y][a]
  BY <1>2, <1>3, <1>4, SumOfAdd
<1>6. QED
  BY <1>1, <1>2, <1>4, <1>5

\* Columns that differ by a factor L, and by half of L at most in every row, and only where
\* the first is not zero, have sums that differ by half of L for every such row at most.
LEMMA SumsNear ==
  ASSUME NEW b, NEW x, NEW y, NEW L \in Nat,
         Summable(b, x, DOMAIN b), Summable(b, y, DOMAIN b),
         \A k \in DOMAIN b :
            /\ -L <= 2 * (L * b[k][x] - b[k][y]) /\ 2 * (L * b[k][x] - b[k][y]) <= L
            /\ b[k][x] = 0 => b[k][y] = 0
  PROVE  LET gap == L * SumOf(b, x) - SumOf(b, y)
             slack == L * Cardinality({k \in DOMAIN b : b[k][x] # 0})
         IN  -slack <= 2 * gap /\ 2 * gap <= slack
<1> DEFINE D == DOMAIN b
           M == Cardinality(D)
           Rows(s) == {k \in s : b[k][x] # 0}
           Near(g, h, r) == -(L * r) <= 2 * (L * g - h) /\ 2 * (L * g - h) <= L * r
<1>1. PICK g : SumsUp(b, x, g, D) /\ SumOf(b, x) = g[D]
  BY SumOfDef
<1>2. PICK h : SumsUp(b, y, h, D) /\ SumOf(b, y) = h[D]
  BY SumOfDef
<1> DEFINE S == {n \in 0..M : \A s \in SUBSET D :
                                 Cardinality(s) = n => Near(g[s], h[s], Cardinality(Rows(s)))}
<1>3. IsFiniteSet(D) /\ M \in Nat
  BY FS_CardinalityType DEF Summable
<1>4. \A s \in SUBSET D : /\ g[s] \in Int /\ h[s] \in Int
                          /\ IsFiniteSet(Rows(s)) /\ Cardinality(Rows(s)) \in Nat
  <2> TAKE s \in SUBSET D
  <2>1. g[s] \in Int /\ h[s] \in Int
    BY <1>1, <1>2 DEF SumsUp
  <2>2. IsFiniteSet(Rows(s))
    BY <1>3, FS_Subset, Rows(s) \subseteq D
  <2>3. QED
    BY <2>1, <2>2, FS_CardinalityType
<1>5. 0 \in S
  <2>1. ASSUME NEW s \in SUBSET D, Cardinality(s) = 0
        PROVE  Near(g[s], h[s], Cardinality(Rows(s)))
    <3>1. s = {}
      BY <1>3, <2>1, FS_EmptySet, FS_Subset
    <3>2. g[s] = 0 /\ h[s] = 0
      BY <1>1, <1>2, <3>1 DEF SumsUp, Sum1
    <3>3. Cardinality(Rows(s)) = 0
      BY <3>1, FS_EmptySet
    <3>4. QED
      BY <3>2, <3>3, SMT
  <2>2. QED
    BY <1>3, <2>1
<1>6. ASSUME NEW n \in 0..(M-1), n \in S PROVE n+1 \in S
  <2>1. n + 1 \in 0..M /\ n \in Nat
    BY <1>3
  <2>2. ASSUME NEW s \in SUBSET D, Cardinality(s) = n + 1
        PROVE  Near(g[s], h[s], Cardinality(Rows(s)))
    <3> DEFINE e == CHOOSE z \in s : TRUE
               t == s \ {e}
    <3>1. s # {}
      BY ONLY <2>1, <2>2, FS_EmptySet, SMT
    <3>2. e \in s /\ g[s] = b[e][x] + g[t] /\ h[s] = b[e][y] + h[t]
      BY <1>1, <1>2, <3>1 DEF SumsUp, Sum1
    <3> HIDE DEF e
    <3>3. t \in SUBSET D /\ Cardinality(t) = n
      BY <1>3, <2>1, <2>2, <3>2, WithoutOne, SMT
    <3>4. Near(g[t], h[t], Cardinality(Rows(t)))
      BY <1>6, <3>3
    <3>5. b[e][x] \in Int /\ b[e][y] \in Int
      BY <3>2 DEF Summable
    <3>6. /\ -L <= 2 * (L * b[e][x] - b[e][y]) /\ 2 * (L * b[e][x] - b[e][y]) <= L
          /\ b[e][x] = 0 => b[e][y] = 0
      BY <3>2
    <3>7. CASE b[e][x] = 0
      <4>1. Rows(s) = Rows(t)
        BY <3>7
      <4>2. g[s] = g[t] /\ h[s] = h[t]
        <5>1. g[t] \in Int /\ h[t] \in Int /\ b[e][y] = 0
          BY <1>4, <3>3, <3>6, <3>7
        <5>2. QED
          BY ONLY <3>2, <3>7, <5>1, SMT
      <4>3. QED
        BY <3>4, <4>1, <4>2
    <3>8. CASE b[e][x] # 0
      <4>1. e \in Rows(s) /\ Rows(t) = Rows(s) \ {e}
        BY <3>2, <3>8
      <4>2. Cardinality(Rows(s)) = Cardinality(Rows(t)) + 1
        <5> DEFINE rs == Rows(s)
                   rt == Rows(t)
        <5>1. IsFiniteSet(rs) /\ Cardinality(rs) \in Nat /\ e \in rs /\ rt = rs \ {e}
          BY <1>4, <4>1
        <5> HIDE DEF rs, rt
        <5>2. Cardinality(rs \ {e}) = Cardinality(rs) - 1
          BY <5>1, FS_RemoveElement
        <5>3. Cardinality(rs) = Cardinality(rt) + 1
          BY ONLY <5>1, <5>2, SMT
        <5>4. QED
          BY <5>3 DEF rs, rt
      <4> DEFINE bx == b[e][x]
                 by == b[e][y]
                 gt == g[t]
                 ht == h[t]
                 r == Cardinality(Rows(t))
      <4>3. /\ bx \in Int /\ by \in Int /\ gt \in Int /\ ht \in Int /\ r \in Nat
            /\ g[s] = bx + gt /\ h[s] = by + ht
            /\ Near(gt, ht, r)
            /\ -L <= 2 * (L * bx - by) /\ 2 * (L * bx - by) <= L
        BY <1>4, <3>2, <3>3, <3>4, <3>5, <3>6
      <4> HIDE DEF bx, by, gt, ht, r
      <4>4. Near(bx + gt, by + ht, r + 1)
        <5>1. L * (bx + gt) = L * bx + L * gt /\ L * (r + 1) = L * r + L
              /\ L * bx \in Int /\ L * gt \in Int /\ L * r \in Int
          BY <4>3, SMT
        <5>2. QED
          BY <4>3, <5>1, SMT
      <4>5. QED
        BY <4>2, <4>3, <4>4 DEF r
    <3>9. QED
      BY <3>7, <3>8
  <2>3. QED
    BY <2>1, <2>2
<1>7. \A n \in 0..M : n \in S
  <2> HIDE DEF S, M
  <2>1. QED
    BY ONLY <1>3, <1>5, <1>6, UpTo
<1>8. Near(g[D], h[D], Cardinality(Rows(D)))
  BY <1>3, <1>7, M \in 0..M
<1>9. QED
  BY <1>1, <1>2, <1>8

-----------------------------------------------------------------------------
(* Shares of a payment                                                     *)

\* What is open before a document is a natural number.
LEMMA OpenBeforeType ==
  ASSUME NEW open \in Seq(Nat), NEW due \in Seq(Int), Len(due) = Len(open), NEW n \in 1..Len(open)
  PROVE  /\ [m \in 1..Len(open) |-> IF Before(due, m, n) THEN open[m] ELSE 0] \in [1..Len(open) -> Int]
         /\ OpenBefore(open, due, n) \in Nat
<1> DEFINE N == Len(open)
           f == [m \in 1..N |-> IF Before(due, m, n) THEN open[m] ELSE 0]
<1>1. N \in Nat /\ \A m \in 1..N : open[m] \in Nat
  OBVIOUS
<1>2. f \in [1..N -> Int] /\ \A m \in 1..N : f[m] >= 0
  BY <1>1
<1>3. Total(f, N) \in Int /\ Total(f, N) >= 0
  BY <1>1, <1>2, TotalType, TotalNatural
<1>4. QED
  BY <1>2, <1>3 DEF OpenBefore

\* The order in which documents are due is transitive.
LEMMA BeforeTransitive ==
  ASSUME NEW due, NEW k \in Int, NEW m \in Int, NEW n \in Int,
         due[k] \in Int, due[m] \in Int, due[n] \in Int, Before(due, k, m), Before(due, m, n)
  PROVE  Before(due, k, n)
BY SMT DEF Before

\* A document that comes before another one, and all that comes before it, comes before
\* the other one.
LEMMA OpenBeforeNext ==
  ASSUME NEW open \in Seq(Nat), NEW due \in Seq(Int), Len(due) = Len(open),
         NEW m \in 1..Len(open), NEW n \in 1..Len(open), Before(due, m, n)
  PROVE  OpenBefore(open, due, m) + open[m] <= OpenBefore(open, due, n)
<1> DEFINE N == Len(open)
           f == [k \in 1..N |-> IF Before(due, k, m) THEN open[k] ELSE 0]
           h == [k \in 1..N |-> IF k = m THEN open[m] ELSE f[k]]
           g == [k \in 1..N |-> IF Before(due, k, n) THEN open[k] ELSE 0]
<1>1. N \in Nat /\ m \in 1..N /\ \A k \in 1..N : open[k] \in Nat /\ due[k] \in Int
  OBVIOUS
<1>2. f \in [1..N -> Int] /\ g \in [1..N -> Int] /\ h \in [1..N -> Int]
  BY <1>1
<1>3. f[m] = 0 /\ h[m] = open[m] /\ \A k \in 1..N : k # m => h[k] = f[k]
  BY <1>1 DEF Before
<1>4. ASSUME NEW k \in 1..N PROVE h[k] <= g[k]
  <2>1. CASE k = m
    BY <2>1, <1>1
  <2>2. CASE k # m
    <3>1. k \in Int /\ m \in Int /\ n \in Int /\ due[k] \in Int /\ due[m] \in Int /\ due[n] \in Int
      BY <1>1
    <3>2. Before(due, k, m) => Before(due, k, n)
      BY ONLY <3>1, Before(due, m, n), BeforeTransitive
    <3>3. f[k] <= g[k]
      BY <1>1, <3>2
    <3>4. QED
      BY <2>2, <3>3, <1>3
  <2>3. QED
    BY <2>1, <2>2
<1> HIDE DEF f, g, h, N
<1>5. Total(h, N) = Total(f, N) + h[m] - f[m]
  <2>1. /\ N \in Nat /\ m \in 1..N /\ f \in [1..N -> Int] /\ h \in [1..N -> Int]
        /\ \A k \in 1..N : k # m => h[k] = f[k]
    BY <1>1, <1>2, <1>3
  <2>2. QED
    BY ONLY <2>1, TotalChange
<1>6. Total(h, N) <= Total(g, N)
  BY <1>1, <1>2, <1>4, TotalMonotone
<1>7. Total(f, N) \in Int /\ Total(g, N) \in Int
  BY <1>1, <1>2, TotalType
<1>8. OpenBefore(open, due, m) = Total(f, N) /\ OpenBefore(open, due, n) = Total(g, N)
  BY DEF OpenBefore, f, g, N
<1>9. QED
  BY <1>1, <1>3, <1>5, <1>6, <1>7, <1>8

\* Nobody gets more than is open.
LEMMA SharesType ==
  ASSUME NEW amount \in Nat, NEW open \in Seq(Nat), NEW due \in Seq(Int), Len(due) = Len(open)
  PROVE  /\ Shares(amount, open, due) \in Seq(Nat)
         /\ Len(Shares(amount, open, due)) = Len(open)
         /\ \A n \in 1..Len(open) : Shares(amount, open, due)[n] <= open[n]
<1> DEFINE S == Shares(amount, open, due)
<1>1. Len(open) \in Nat /\ \A n \in 1..Len(open) : open[n] \in Nat
  OBVIOUS
<1>2. ASSUME NEW n \in 1..Len(open) PROVE S[n] \in Nat /\ S[n] <= open[n]
  BY <1>1, OpenBeforeType DEF Shares
<1>3. S = [n \in 1..Len(open) |-> S[n]]
  BY DEF Shares
<1> HIDE DEF S
<1>4. QED
  BY <1>1, <1>2, <1>3 DEF S

\* Whoever gets something sees all that comes before settled.
LEMMA SharesInOrder ==
  ASSUME NEW amount \in Nat, NEW open \in Seq(Nat), NEW due \in Seq(Int), Len(due) = Len(open),
         NEW m \in 1..Len(open), NEW n \in 1..Len(open), Before(due, m, n),
         Shares(amount, open, due)[n] # 0
  PROVE  Shares(amount, open, due)[m] = open[m]
<1>1. open[m] \in Nat /\ open[n] \in Nat
  OBVIOUS
<1>2. OpenBefore(open, due, m) \in Nat /\ OpenBefore(open, due, n) \in Nat
  BY OpenBeforeType
<1>3. OpenBefore(open, due, m) + open[m] <= OpenBefore(open, due, n)
  BY OpenBeforeNext
<1>4. amount - OpenBefore(open, due, n) > 0
  BY <1>1, <1>2 DEF Shares
<1>5. amount - OpenBefore(open, due, m) > open[m]
  BY ONLY <1>1, <1>2, <1>3, <1>4, amount \in Nat, SMT
<1>6. amount - OpenBefore(open, due, m) > 0 /\ ~(amount - OpenBefore(open, due, m) < open[m])
  BY ONLY <1>1, <1>2, <1>5, amount \in Nat, SMT
<1>7. Shares(amount, open, due)[m] =
        LET left == amount - OpenBefore(open, due, m)
        IN  IF left <= 0 THEN 0 ELSE IF left < open[m] THEN left ELSE open[m]
  BY Zenon DEF Shares
<1>8. ~(amount - OpenBefore(open, due, m) <= 0)
  BY ONLY <1>1, <1>2, <1>6, amount \in Nat, SMT
<1>9. QED
  BY <1>6, <1>7, <1>8, Zenon

\* The lines of a payment, spread over all documents there are, add up to what they did.
LEMMA LinesSum ==
  ASSUME NEW lines \in Seq(Nat), NEW n \in Nat, Len(lines) <= n
  PROVE  /\ [k \in 1..n |-> LineOf(lines, k)] \in [1..n -> Int]
         /\ Total([k \in 1..n |-> LineOf(lines, k)], n) = Total(lines, Len(lines))
<1> DEFINE g == [k \in 1..n |-> LineOf(lines, k)]
           N == Len(lines)
<1>1. /\ N \in Nat /\ N <= n /\ lines \in [1..N -> Int] /\ \A k \in 1..N : lines[k] \in Nat
      /\ Total(lines, Len(lines)) = Total(lines, N)
  OBVIOUS
<1>2. g \in [1..n -> Int] /\ (\A k \in 1..N : g[k] = lines[k]) /\ (\A k \in (N+1)..n : g[k] = 0)
  BY <1>1 DEF LineOf
<1> HIDE DEF g, N
<1>3. Total(g, n) = Total(lines, N)
  BY <1>1, <1>2, TotalPad
<1>4. QED
  BY <1>1, <1>2, <1>3 DEF g
=============================================================================
