------------------------- MODULE StockLedgerProofs -------------------------
(***************************************************************************)
(* For every set of warehouses, items, quantities and costs and every      *)
(* ledger length: StockLedger keeps its types, its balance rows are the    *)
(* sums of their ledger rows, transfers conserve goods, the cached average *)
(* is sound, and the ledger implements StockBook.                          *)
(*                                                                         *)
(* A step writes one row, or two of different slots, or recomputes a       *)
(* balance (StepKinds); what it does to the ledger is stated over the      *)
(* ledger as a value, so that two rows are one row twice.                  *)
(***************************************************************************)
EXTENDS StockLedger, RunningTotalsTheorems, SequenceTheorems

-----------------------------------------------------------------------------
(* Appending to the ledger                                                 *)

\* What the first k movements of led add to slot s, as a function of k.
Contributions(led, s) == [k \in 1..Len(led) |-> Contribution(led[k], s)]

\* What the rows contribute to a slot is an integer function.
LEMMA ContributionsType ==
  ASSUME NEW led \in Seq(Movement), NEW s
  PROVE  Len(led) \in Nat /\ Contributions(led, s) \in [1..Len(led) -> Int]
<1>1. \A k \in 1..Len(led) : led[k] \in Movement
  BY ElementOfSeq, Zenon
<1>2. \A k \in 1..Len(led) : Contribution(led[k], s) \in Int
  BY <1>1, SMT DEF Contribution, Movement
<1>3. Len(led) \in Nat
  BY LenProperties
<1>4. QED
  BY <1>2, <1>3, Zenon DEF Contributions

\* The empty ledger holds nothing.
LEMMA LedgerQtyEmpty ==
  ASSUME NEW s
  PROVE  LedgerQty(<<>>, s) = 0
<1>0. <<>> \in Seq(Movement) /\ Len(<<>>) = 0
  BY EmptySeq, Zenon
<1>1. Contributions(<<>>, s) \in [1..0 -> Int] /\ Len(<<>>) = 0
  BY <1>0, ContributionsType
<1>2. QED
  BY <1>1, TotalEmpty, Zenon DEF LedgerQty, Contributions

\* The ledger's quantity of a slot is an integer.
LEMMA LedgerQtyType ==
  ASSUME NEW led \in Seq(Movement), NEW s
  PROVE  LedgerQty(led, s) \in Int
BY ContributionsType, TotalType, Zenon DEF LedgerQty, Contributions

\* A movement adds its quantity to its own slot and nothing to any other.
LEMMA LedgerQtyAppend ==
  ASSUME NEW led \in Seq(Movement), NEW m \in Movement, NEW s
  PROVE  LedgerQty(Append(led, m), s) = LedgerQty(led, s) + Contribution(m, s)
<1> DEFINE n == Len(led)
           app == Append(led, m)
           f == Contributions(led, s)
           g == Contributions(app, s)
<1>1. /\ app \in Seq(Movement) /\ Len(app) = n + 1 /\ n \in Nat
      /\ \A k \in 1..n : app[k] = led[k]
      /\ app[n+1] = m
  BY AppendProperties, LenProperties
<1>2. f \in [1..n -> Int] /\ g \in [1..(n+1) -> Int]
  BY <1>1, ContributionsType
<1>3. \A k \in 1..n : f[k] = g[k]
  BY <1>1, SMT DEF Contributions
<1>4. g[n+1] = Contribution(m, s)
  BY <1>1, SMT DEF Contributions
<1>5. Total(g, n+1) = Total(f, n) + g[n+1]
  BY <1>1, <1>2, <1>3, TotalStep
<1>6. QED
  BY <1>1, <1>4, <1>5 DEF LedgerQty, Contributions

-----------------------------------------------------------------------------
(* The replayed average is an integer                                      *)

\* A rounded quotient is an integer.
LEMMA RoundedType ==
  ASSUME NEW n \in Int, NEW d \in Int \ {0}
  PROVE  Rounded(n, d) \in Int
<1> DEFINE num == IF d < 0 THEN -n ELSE n
           den == IF d < 0 THEN -d ELSE d
<1>1. num \in Int /\ den \in Int /\ den > 0
  BY SMT
<1>2. 2 * num + den \in Int /\ den - 2 * num \in Int /\ 2 * den \in Int /\ 2 * den > 0
  BY <1>1, SMT
<1> HIDE DEF num, den
<1>3. (2 * num + den) \div (2 * den) \in Int /\ -((den - 2 * num) \div (2 * den)) \in Int
  BY <1>2, SMT
<1>4. QED
  BY <1>3, Zenon DEF Rounded, num, den

\* A product of non-zero integers is not zero.
LEMMA NonZeroProduct ==
  ASSUME NEW a \in Int \ {0}, NEW b \in Int \ {0}
  PROVE  a * b \in Int \ {0}
<1>1. CASE a > 0 /\ b > 0
  BY <1>1, SMT
<1>2. CASE a > 0 /\ b < 0
  BY <1>2, SMT
<1>3. CASE a < 0 /\ b > 0
  BY <1>3, SMT
<1>4. CASE a < 0 /\ b < 0
  BY <1>4, SMT
<1>5. QED
  BY <1>1, <1>2, <1>3, <1>4, SMT

\* A step of the replay keeps its state's type.
LEMMA ReplayStepType ==
  ASSUME NEW r \in Replayed, NEW m \in Movement, NEW s
  PROVE  ReplayStep(r, m, s) \in Replayed
<1>1. /\ r.qty \in Int /\ r.num \in Int /\ r.den \in Int /\ r.den # 0
      /\ m.cost \in Int /\ Contribution(m, s) \in Int
  BY SMT DEF Replayed, Movement, Contribution
<1> DEFINE d == Contribution(m, s)
           q == r.qty + d
<1>2. q \in Int
  BY <1>1, SMT
<1>3. r.qty * r.num + d * m.cost * r.den \in Int
  BY <1>1, SMT
<1>4. q # 0 => r.den * q \in Int \ {0}
  BY <1>1, <1>2, NonZeroProduct
<1>5. QED
  BY <1>1, <1>2, <1>3, <1>4, SMT DEF ReplayStep, Replayed

\* r is the run of the replay over the rows of led for slot s.
Replays(led, s, r) ==
    r = [k \in 0..Len(led) |-> IF k = 0 THEN NothingReplayed ELSE ReplayStep(r[k-1], led[k], s)]
Replay(led, s) == CHOOSE r : Replays(led, s, r)

\* Where the replay ends.
Final(led, s) == Replay(led, s)[Len(led)]

\* The replay's states, one after every row, follow from one another.
LEMMA ReplayRuns ==
  ASSUME NEW led \in Seq(Movement), NEW s
  PROVE  /\ Len(led) \in Nat /\ \A k \in 1..Len(led) : led[k] \in Movement
         /\ Replay(led, s)[0] = NothingReplayed
         /\ \A k \in 1..Len(led) : Replay(led, s)[k] = ReplayStep(Replay(led, s)[k-1], led[k], s)
         /\ \A k \in 0..Len(led) : Replay(led, s)[k] \in Replayed
<1> DEFINE n == Len(led)
           Runs(r, m) ==
               r = [k \in 0..m |-> IF k = 0 THEN NothingReplayed
                                   ELSE ReplayStep(r[k-1], led[k], s)]
           run == CHOOSE r : Runs(r, n)
           Bad == {m \in 0..n : ~\E r \in [0..m -> Replayed] : Runs(r, m)}
<1>1. n \in Nat /\ \A k \in 1..n : led[k] \in Movement
  BY LenProperties, ElementOfSeq
<1>2. NothingReplayed \in Replayed
  BY SMT DEF NothingReplayed, Replayed
<1>3. \E r \in [0..n -> Replayed] : Runs(r, n)
  <2>1. SUFFICES ASSUME Bad # {} PROVE FALSE
    BY <1>1, n \in 0..n, Zenon
  <2>2. PICK m \in Bad : \A k \in Bad : m <= k
    BY <1>1, <2>1, LeastNatural, Bad \subseteq Nat
  <2>3. CASE m = 0
    <3>1. Runs([k \in 0..0 |-> NothingReplayed], 0)
      BY SMT
    <3>2. QED
      BY <1>2, <2>2, <2>3, <3>1, [k \in 0..0 |-> NothingReplayed] \in [0..0 -> Replayed]
  <2>4. CASE m # 0
    <3>1. m-1 \in 0..n /\ m-1 \notin Bad /\ m \in 1..n
      <4>1. m \in 0..n /\ m \in Nat
        BY <1>1, <2>2
      <4>2. m-1 \in 0..n /\ m \in 1..n /\ ~(m <= m-1)
        BY <1>1, <2>4, <4>1, SMT
      <4>3. QED
        BY <2>2, <4>2, Zenon
    <3>2. PICK r \in [0..(m-1) -> Replayed] : Runs(r, m-1)
      BY <3>1
    <3> DEFINE t == [k \in 0..m |-> IF k = m THEN ReplayStep(r[m-1], led[m], s) ELSE r[k]]
    <3>3. r[m-1] \in Replayed /\ led[m] \in Movement
      BY <1>1, <3>1, SMT
    <3>4. ReplayStep(r[m-1], led[m], s) \in Replayed
      BY <3>3, ReplayStepType
    <3>5. t \in [0..m -> Replayed]
      BY <1>1, <3>1, <3>4, SMT
    <3>6. Runs(t, m)
      <4>1. \A k \in 0..(m-1) : r[k] = IF k = 0 THEN NothingReplayed
                                       ELSE ReplayStep(r[k-1], led[k], s)
        BY <3>2, Zenon
      <4>2. ASSUME NEW k \in 0..m
            PROVE t[k] = IF k = 0 THEN NothingReplayed ELSE ReplayStep(t[k-1], led[k], s)
        <5>1. CASE k = m
          BY <1>1, <2>4, <3>1, <5>1, t[m-1] = r[m-1], SMT
        <5>2. CASE k # m
          <6>1. k \in 0..(m-1) /\ t[k] = r[k] /\ (k # 0 => t[k-1] = r[k-1])
            BY <1>1, <3>1, <5>2, SMT
          <6>2. QED
            BY <4>1, <6>1, Zenon
        <5>3. QED
          BY <5>1, <5>2
      <4>3. QED
        BY <4>2, Zenon
    <3>7. QED
      BY <2>2, <3>5, <3>6, Zenon
  <2>5. QED
    BY <2>3, <2>4
<1>4. Runs(run, n)
  BY <1>3, Zenon
<1> HIDE DEF run
<1>5. \A k \in 0..n : run[k] = IF k = 0 THEN NothingReplayed
                               ELSE ReplayStep(run[k-1], led[k], s)
  BY <1>4, Zenon
<1>6. \A k \in 0..n : run[k] \in Replayed
  <2> DEFINE Untyped == {k \in 0..n : run[k] \notin Replayed}
  <2>1. SUFFICES ASSUME Untyped # {} PROVE FALSE
    BY Zenon
  <2>2. PICK m \in Untyped : \A k \in Untyped : m <= k
    BY <1>1, <2>1, LeastNatural, Untyped \subseteq Nat
  <2>3. m # 0
    BY <1>2, <1>5, <2>2, Zenon
  <2>4. m \in 1..n /\ m-1 \in 0..n /\ ~(m <= m-1)
    BY <1>1, <2>2, <2>3, SMT
  <2>5. run[m-1] \in Replayed /\ led[m] \in Movement
    BY <1>1, <2>2, <2>4, Zenon
  <2>6. run[m] = ReplayStep(run[m-1], led[m], s)
    BY <1>5, <2>2, <2>3, Zenon
  <2>7. QED
    BY <2>2, <2>5, <2>6, ReplayStepType, Zenon
<1>7. Replay(led, s) = run
  BY Zenon DEF Replay, Replays, run
<1>8. 0 \in 0..n /\ \A k \in 1..n : k \in 0..n /\ k # 0
  BY <1>1, SMT
<1>9. QED
  BY <1>1, <1>5, <1>6, <1>7, <1>8, Zenon

\* The final state of the replay is typed.
LEMMA FinalType ==
  ASSUME NEW led \in Seq(Movement), NEW s
  PROVE  /\ Final(led, s).qty \in Int /\ Final(led, s).num \in Int
         /\ Final(led, s).den \in Int \ {0}
<1>1. Len(led) \in 0..Len(led)
  BY ReplayRuns, SMT
<1>2. Final(led, s) \in Replayed
  BY <1>1, ReplayRuns DEF Final
<1>3. QED
  BY <1>2 DEF Replayed

\* The average that recompute_balance stores is the rounded end of the replay.
LEMMA LedgerAverageFinal ==
  ASSUME NEW led, NEW s
  PROVE  LedgerAverage(led, s) = Rounded(Final(led, s).num, Final(led, s).den)
BY Zenon DEF LedgerAverage, Final, Replay, Replays

\* The replayed average is an integer.
LEMMA LedgerAverageType ==
  ASSUME NEW led \in Seq(Movement), NEW s
  PROVE  LedgerAverage(led, s) \in Int
BY LedgerAverageFinal, FinalType, RoundedType

\* One more row is one more step of the replay.
LEMMA ReplayAppend ==
  ASSUME NEW led \in Seq(Movement), NEW m \in Movement, NEW s
  PROVE  Final(Append(led, m), s) = ReplayStep(Final(led, s), m, s)
<1> DEFINE n == Len(led)
           app == Append(led, m)
           r == Replay(led, s)
           t == Replay(app, s)
           Same == {k \in 0..n : t[k] = r[k]}
<1>1. /\ app \in Seq(Movement) /\ Len(app) = n + 1 /\ n \in Nat
      /\ \A k \in 1..n : app[k] = led[k]
      /\ app[n+1] = m
  BY AppendProperties, LenProperties
<1> HIDE DEF app
<1>2. r[0] = NothingReplayed /\ \A k \in 1..n : r[k] = ReplayStep(r[k-1], led[k], s)
  BY ReplayRuns
<1>3. t[0] = NothingReplayed /\ \A k \in 1..(n+1) : t[k] = ReplayStep(t[k-1], app[k], s)
  BY <1>1, ReplayRuns
<1> HIDE DEF r, t
<1>4. 0 \in Same
  BY <1>1, <1>2, <1>3, SMT
<1>5. ASSUME NEW k \in 0..(n-1), k \in Same PROVE k+1 \in Same
  <2>1. k+1 \in 1..n /\ k+1 \in 1..(n+1) /\ k+1 \in 0..n /\ (k+1)-1 = k
    BY <1>1, SMT
  <2>2. t[k+1] = ReplayStep(t[k], app[k+1], s) /\ r[k+1] = ReplayStep(r[k], led[k+1], s)
    BY <1>2, <1>3, <2>1
  <2>3. QED
    BY <1>1, <1>5, <2>1, <2>2
<1>6. \A k \in 0..n : k \in Same
  <2> HIDE DEF Same, n
  <2>1. n \in Nat
    BY <1>1
  <2>2. QED
    BY ONLY <1>4, <1>5, <2>1, UpTo
<1>7. n \in 0..n /\ n+1 \in 1..(n+1) /\ (n+1)-1 = n
  BY <1>1, SMT
<1>8. t[n+1] = ReplayStep(r[n], m, s)
  BY <1>1, <1>3, <1>6, <1>7
<1>9. QED
  BY <1>1, <1>8 DEF Final, r, t, app

-----------------------------------------------------------------------------
(* What writing one row, or two, preserves                                 *)

\* An updated balance is one.
LEMMA UpdatedType ==
  ASSUME NEW row \in Row, NEW delta \in Int, NEW cost \in Int
  PROVE  /\ Updated(row, delta, cost) \in Row
         /\ Updated(row, delta, cost).exists
         /\ Updated(row, delta, cost).qty = row.qty + delta
<1>1. row.qty \in Int /\ row.avg \in Int /\ row.qty + delta \in Int
  BY SMT DEF Row
<1>2. row.qty * row.avg + delta * cost \in Int
  BY <1>1, SMT
<1>3. row.qty + delta # 0 =>
        Rounded(row.qty * row.avg + delta * cost, row.qty + delta) \in Int
  BY <1>1, <1>2, RoundedType
<1>4. NewAverage(row, delta, cost) \in Int
  BY <1>1, <1>3, SMT DEF NewAverage
<1>5. QED
  BY <1>1, <1>4, SMT DEF Updated, Row

\* The strengthening of the invariants that every step preserves.
IInv == TypeOK /\ LegsPaired /\ BalanceMatchesLedger

\* One row and its balance: the slot of the row gains its quantity, in the cache and in
\* the ledger alike.
LEMMA PostPreserves ==
  ASSUME IInv, NEW m \in Movement, m.link # "inventory_transfer",
         Post(m), UNCHANGED allowNegative
  PROVE  /\ IInv'
         /\ \A s \in Slots : LedgerQty(movements, s)' = LedgerQty(movements, s) + Contribution(m, s)
         /\ Len(movements)' = Len(movements) + 1
         /\ \A k \in 1..Len(movements) : movements'[k] = movements[k]
         /\ movements'[Len(movements) + 1] = m
<1> DEFINE n == Len(movements)
<1>1. /\ movements \in Seq(Movement) /\ balances \in [Slots -> Row] /\ n \in Nat
      /\ \A k \in 1..n : balances[movements[k].slot].exists
  BY LenProperties DEF IInv, TypeOK
<1>2. /\ movements' \in Seq(Movement) /\ Len(movements') = n + 1
      /\ \A k \in 1..n : movements'[k] = movements[k]
      /\ movements'[n+1] = m
  BY <1>1, AppendProperties DEF Post
<1>3. m.slot \in Slots /\ m.qty \in Int /\ m.cost \in Int
  BY DEF Movement
<1> DEFINE new == Updated(balances[m.slot], m.qty, m.cost)
<1>4. new \in Row /\ new.exists /\ new.qty = balances[m.slot].qty + m.qty
  BY <1>1, <1>3, UpdatedType
<1>5. balances' = [balances EXCEPT ![m.slot] = new]
  BY DEF Post
<1> HIDE DEF new
<1>6. balances' \in [Slots -> Row]
  BY <1>1, <1>4, <1>5, Zenon
<1>7. \A s \in Slots : balances'[s].qty = balances[s].qty + Contribution(m, s)
  <2>1. \A s \in Slots : balances[s].qty \in Int
    BY <1>1, SMT DEF Row
  <2>2. QED
    BY <1>1, <1>3, <1>4, <1>5, <2>1, SMT DEF Contribution
<1>8. TypeOK'
  <2>1. ASSUME NEW k \in 1..(n+1) PROVE balances'[movements'[k].slot].exists
    <3>1. CASE k = n + 1
      BY <1>1, <1>2, <1>3, <1>4, <1>5, <3>1, SMT
    <3>2. CASE k # n + 1
      <4>1. k \in 1..n /\ movements'[k] = movements[k] /\ movements[k].slot \in Slots
        <5>1. k \in 1..n
          BY <1>1, <3>2, SMT
        <5>2. movements[k] \in Movement
          BY <1>1, <5>1, ElementOfSeq
        <5>3. movements[k].slot \in Slots
          BY <5>2 DEF Movement
        <5>4. QED
          BY <1>2, <5>1, <5>3
      <4>2. QED
        BY <1>1, <1>4, <1>5, <4>1, SMT
    <3>3. QED
      BY <3>1, <3>2
  <2>2. QED
    BY <1>1, <1>2, <1>6, <2>1 DEF IInv, TypeOK
<1>9. \A s \in Slots : LedgerQty(movements, s)' = LedgerQty(movements, s) + Contribution(m, s)
  BY <1>1, LedgerQtyAppend DEF Post
<1>10. BalanceMatchesLedger'
  BY <1>7, <1>9 DEF BalanceMatchesLedger, IInv
<1>11. LegsPaired'
  BY <1>1, <1>2, SMT DEF LegsPaired, IInv
<1>12. QED
  BY <1>1, <1>2, <1>8, <1>9, <1>10, <1>11 DEF IInv

\* Two rows in different slots and their balances.
LEMMA PostPairPreserves ==
  ASSUME TypeOK, BalanceMatchesLedger, NEW a \in Movement, NEW b \in Movement,
         a.slot # b.slot, PostPair(a, b), UNCHANGED allowNegative
  PROVE  /\ TypeOK'
         /\ BalanceMatchesLedger'
         /\ \A s \in Slots : LedgerQty(movements, s)' =
                LedgerQty(movements, s) + Contribution(a, s) + Contribution(b, s)
         /\ Len(movements)' = Len(movements) + 2
         /\ \A k \in 1..Len(movements) : movements'[k] = movements[k]
         /\ movements'[Len(movements) + 1] = a
         /\ movements'[Len(movements) + 2] = b
<1> DEFINE n == Len(movements)
           one == Append(movements, a)
<1>1. /\ movements \in Seq(Movement) /\ balances \in [Slots -> Row] /\ n \in Nat
      /\ \A k \in 1..n : balances[movements[k].slot].exists
  BY LenProperties DEF TypeOK
<1>2. /\ one \in Seq(Movement) /\ Len(one) = n + 1
      /\ \A k \in 1..n : one[k] = movements[k]
      /\ one[n+1] = a
  BY <1>1, AppendProperties
<1>3. /\ movements' \in Seq(Movement) /\ Len(movements') = n + 2
      /\ \A k \in 1..n : movements'[k] = movements[k]
      /\ movements'[n+1] = a
      /\ movements'[n+2] = b
  <2>1. movements' = Append(one, b)
    BY DEF PostPair
  <2>2. /\ Append(one, b) \in Seq(Movement) /\ Len(Append(one, b)) = (n + 1) + 1
        /\ \A k \in 1..(n+1) : Append(one, b)[k] = one[k]
        /\ Append(one, b)[(n + 1) + 1] = b
    <3> HIDE DEF one
    <3>1. QED
      BY <1>2, AppendProperties
  <2>3. (n + 1) + 1 = n + 2 /\ n + 1 \in 1..(n+1) /\ \A k \in 1..n : k \in 1..(n+1)
    BY <1>1, SMT
  <2> HIDE DEF one
  <2>4. QED
    BY <1>2, <2>1, <2>2, <2>3
<1>4. /\ a.slot \in Slots /\ a.qty \in Int /\ a.cost \in Int
      /\ b.slot \in Slots /\ b.qty \in Int /\ b.cost \in Int
  BY DEF Movement
<1> DEFINE newA == Updated(balances[a.slot], a.qty, a.cost)
           newB == Updated(balances[b.slot], b.qty, b.cost)
<1>5. /\ newA \in Row /\ newA.exists /\ newA.qty = balances[a.slot].qty + a.qty
      /\ newB \in Row /\ newB.exists /\ newB.qty = balances[b.slot].qty + b.qty
  BY <1>1, <1>4, UpdatedType
<1>6. balances' = [[balances EXCEPT ![a.slot] = newA] EXCEPT ![b.slot] = newB]
  BY <1>1, <1>4, SMT DEF PostPair
<1> HIDE DEF newA, newB
<1>7. balances' \in [Slots -> Row]
  BY <1>1, <1>5, <1>6, Zenon
<1>8. \A s \in Slots :
        balances'[s].qty = balances[s].qty + Contribution(a, s) + Contribution(b, s)
  <2>1. \A s \in Slots : balances[s].qty \in Int
    BY <1>1, SMT DEF Row
  <2>2. QED
    BY <1>1, <1>4, <1>5, <1>6, <2>1, SMT DEF Contribution
<1>9. TypeOK'
  <2>1. ASSUME NEW k \in 1..(n+2) PROVE balances'[movements'[k].slot].exists
    <3>1. CASE k = n + 1
      BY <1>1, <1>3, <1>4, <1>5, <1>6, <3>1, SMT
    <3>2. CASE k = n + 2
      BY <1>1, <1>3, <1>4, <1>5, <1>6, <3>2, SMT
    <3>3. CASE k # n + 1 /\ k # n + 2
      <4>1. k \in 1..n
        BY <1>1, <3>3, SMT
      <4>2. movements[k] \in Movement
        BY <1>1, <4>1, ElementOfSeq
      <4>3. movements[k].slot \in Slots /\ movements'[k] = movements[k]
        BY <1>3, <4>1, <4>2 DEF Movement
      <4>4. QED
        BY <1>1, <1>5, <1>6, <4>1, <4>3, SMT
    <3>4. QED
      BY <3>1, <3>2, <3>3
  <2>2. QED
    BY <1>1, <1>3, <1>7, <2>1 DEF TypeOK
<1>10. \A s \in Slots : LedgerQty(movements, s)' =
         LedgerQty(movements, s) + Contribution(a, s) + Contribution(b, s)
  <2>1. movements' = Append(one, b)
    BY DEF PostPair
  <2>2. \A s : LedgerQty(one, s) = LedgerQty(movements, s) + Contribution(a, s)
    BY <1>1, LedgerQtyAppend
  <2> HIDE DEF one
  <2>3. \A s : LedgerQty(movements', s) = LedgerQty(one, s) + Contribution(b, s)
    BY <1>2, <2>1, LedgerQtyAppend
  <2>4. QED
    BY <2>2, <2>3
<1>11. BalanceMatchesLedger'
  BY <1>8, <1>10 DEF BalanceMatchesLedger
<1>12. QED
  BY <1>3, <1>9, <1>10, <1>11

-----------------------------------------------------------------------------
(* One step of the system                                                  *)

\* The rows the single-slot requests write are ledger rows.
LEMMA RowTypes ==
  ASSUME IInv, NEW s \in Slots
  PROVE  /\ balances[s].qty \in Int /\ balances[s].avg \in Int
         /\ balances[s].exists \in BOOLEAN
         /\ LedgerQty(movements, s) = balances[s].qty
         /\ Len(movements) \in Nat
<1>1. balances[s] \in Row /\ movements \in Seq(Movement)
  BY DEF IInv, TypeOK
<1>2. QED
  BY <1>1, LenProperties DEF Row, IInv, BalanceMatchesLedger

\* Quantities and costs are naturals.
LEMMA InputTypes ==
  /\ \A q \in Quantities : q \in Int \ {0} /\ -q \in Int \ {0} /\ q > 0
  /\ \A c \in Costs : c \in Int
BY QuantitiesAssumption, CostsAssumption, SMT

\* What a REVERSAL row is.
LEMMA ReversalType ==
  ASSUME IInv, NEW n \in 1..Len(movements)
  PROVE  /\ ReversalOf(n) \in Movement
         /\ ReversalOf(n).slot = movements[n].slot
         /\ ReversalOf(n).qty = -movements[n].qty
         /\ ReversalOf(n).link = "reversal"
         /\ movements[n] \in Movement
<1>1. movements[n] \in Movement /\ n \in Nat
  BY ElementOfSeq, LenProperties DEF IInv, TypeOK
<1>2. -movements[n].qty \in Int \ {0}
  BY <1>1, SMT DEF Movement
<1>3. ReversalOf(n) \in Movement
  BY <1>1, <1>2 DEF ReversalOf, Movement, MovementTypes
<1>4. QED
  BY <1>1, <1>3 DEF ReversalOf

\* Row m reverses a row of ledger led, if it reverses one.
Points(led, m) == m.link = "reversal" => m.ref \in 1..Len(led)

\* Row m is a leg of a transfer, or undoes one of led.
OfTransfer(led, m) ==
    \/ m.link = "inventory_transfer"
    \/ m.link = "reversal" /\ led[m.ref].link = "inventory_transfer"

\* Every request that writes one row writes a well-typed row that is no part of a transfer,
\* within _update_balance's guard.
OneRow(m) ==
    /\ m \in Movement
    /\ m.link # "inventory_transfer"
    /\ Points(movements, m) /\ ~OfTransfer(movements, m)
    /\ Post(m)
    /\ UNCHANGED allowNegative
    /\ \E approved \in BOOLEAN : MayApply(balances[m.slot], m.qty, approved)

\* A receipt appends one row.
LEMMA ReceiveOneRow ==
  ASSUME IInv, NEW s \in Slots, NEW q \in Quantities, NEW c \in Costs, Receive(s, q, c)
  PROVE  \E m : OneRow(m)
<1> DEFINE m == [slot |-> s, type |-> "RECEIPT", qty |-> q, cost |-> c,
                 ref |-> 0, link |-> "none"]
<1>1. m \in Movement
  BY InputTypes, SMT DEF Movement, MovementTypes
<1>2. OneRow(m)
  BY <1>1 DEF OneRow, Points, OfTransfer, Receive
<1>3. QED
  BY <1>2

\* An issue appends one row.
LEMMA IssueOneRow ==
  ASSUME IInv, NEW s \in Slots, NEW q \in Quantities, NEW a \in BOOLEAN, Issue(s, q, a)
  PROVE  \E m : OneRow(m)
<1> DEFINE m == [slot |-> s, type |-> "ISSUE", qty |-> -q, cost |-> balances[s].avg,
                 ref |-> 0, link |-> "none"]
<1>1. m \in Movement
  BY InputTypes, RowTypes, SMT DEF Movement, MovementTypes
<1>2. OneRow(m)
  BY <1>1 DEF OneRow, Points, OfTransfer, Issue
<1>3. QED
  BY <1>2

\* An adjustment appends one row.
LEMMA AdjustOneRow ==
  ASSUME IInv, NEW s \in Slots, NEW q \in Quantities, NEW d \in {q, -q},
         NEW c \in Costs \cup {balances[s].avg}, Adjust(s, d, c)
  PROVE  \E m : OneRow(m)
<1> DEFINE m == [slot |-> s,
                 type |-> IF d > 0 THEN "ADJUSTMENT_IN" ELSE "ADJUSTMENT_OUT",
                 qty |-> d, cost |-> c, ref |-> 0, link |-> "none"]
<1>1. d \in Int \ {0} /\ c \in Int
  BY InputTypes, RowTypes
<1>2. m \in Movement
  BY <1>1, SMT DEF Movement, MovementTypes
<1>3. OneRow(m)
  BY <1>2 DEF OneRow, Points, OfTransfer, Adjust
<1>4. QED
  BY <1>3

\* Every request that writes two rows moves one item between two warehouses, each leg
\* within _update_balance's guard for an existing row.
TwoRows(a, b) ==
    /\ a \in Movement /\ b \in Movement
    /\ a.slot # b.slot /\ a.slot[2] = b.slot[2]
    /\ b.qty = -a.qty
    /\ Points(movements, a) /\ OfTransfer(movements, a)
    /\ Points(movements, b) /\ OfTransfer(movements, b)
    /\ PostPair(a, b)
    /\ UNCHANGED allowNegative
    /\ MayApply(balances[a.slot], a.qty, FALSE)
    /\ MayApply(balances[b.slot], b.qty, FALSE)

\* A transfer's new legs are paired, and the earlier ones stay so.
LEMMA TransferTwoRows ==
  ASSUME IInv, NEW w \in Warehouses, NEW v \in Warehouses, NEW i \in Items,
         NEW q \in Quantities, NEW p \in BOOLEAN, Transfer(w, v, i, q, p)
  PROVE  \E a, b : TwoRows(a, b) /\ LegsPaired'
<1> DEFINE from == <<w, i>>
           to == <<v, i>>
           n == Len(movements)
           a == [slot |-> from, type |-> "TRANSFER_OUT", qty |-> -q,
                 cost |-> balances[from].avg, ref |-> n + 2, link |-> "inventory_transfer"]
           b == [slot |-> to, type |-> "TRANSFER_IN", qty |-> q,
                 cost |-> balances[from].avg, ref |-> n + 1, link |-> "inventory_transfer"]
<1>1. from \in Slots /\ to \in Slots /\ from # to /\ from[2] = to[2]
  BY DEF Slots, Transfer
<1>2. balances[from].avg \in Int /\ n \in Nat
  BY <1>1, RowTypes
<1>3. a \in Movement /\ b \in Movement
  BY <1>1, <1>2, InputTypes, SMT DEF Movement, MovementTypes
<1>4. TwoRows(a, b)
  <2>1. q = -(-q)
    BY InputTypes, SMT
  <2>2. /\ Points(movements, a) /\ OfTransfer(movements, a)
        /\ Points(movements, b) /\ OfTransfer(movements, b)
    BY DEF Points, OfTransfer
  <2>3. QED
    BY <1>1, <1>3, <2>1, <2>2 DEF TwoRows, Transfer
<1>5. LegsPaired'
  <2>1. /\ Len(movements') = n + 2
        /\ \A k \in 1..n : movements'[k] = movements[k]
        /\ movements'[n+1] = a
        /\ movements'[n+2] = b
    BY <1>4, PostPairPreserves DEF TwoRows, IInv
  <2>2. ASSUME NEW k \in 1..(n+2), movements'[k].link = "inventory_transfer"
        PROVE  /\ movements'[k].ref \in 1..(n+2)
               /\ movements'[movements'[k].ref].link = "inventory_transfer"
               /\ movements'[movements'[k].ref].ref = k
               /\ movements'[movements'[k].ref].qty = -movements'[k].qty
               /\ movements'[movements'[k].ref].slot # movements'[k].slot
               /\ movements'[movements'[k].ref].slot[2] = movements'[k].slot[2]
    <3> DEFINE r == movements'
    <3>a. /\ a.ref = n + 2 /\ b.ref = n + 1
          /\ a.link = "inventory_transfer" /\ b.link = "inventory_transfer"
          /\ a.qty = -q /\ b.qty = -(-q) /\ a.qty = -b.qty
          /\ a.slot = from /\ b.slot = to
      BY InputTypes, SMT
    <3>b. n + 1 \in 1..(n+2) /\ n + 2 \in 1..(n+2)
      BY <1>2, SMT
    <3>c. r[n+1] = a /\ r[n+2] = b
      BY <2>1
    <3>d. b.qty = -a.qty
      BY <3>a
    <3> HIDE DEF a, b, r, from, to
    <3>1. CASE k = n + 1
      <4>1. r[k] = a /\ r[k].ref = n + 2 /\ r[n+2] = b
        BY <3>a, <3>c, <3>1
      <4>2. QED
        BY ONLY <1>1, <3>a, <3>b, <3>c, <3>d, <3>1, <4>1 DEF r
    <3>2. CASE k = n + 2
      <4>1. r[k] = b /\ r[k].ref = n + 1 /\ r[n+1] = a
        BY <3>a, <3>c, <3>2
      <4>2. QED
        BY ONLY <1>1, <3>a, <3>b, <3>c, <3>d, <3>2, <4>1 DEF r
    <3>3. CASE k \in 1..n
      <4>1. movements'[k] = movements[k]
        BY <2>1, <3>3
      <4>2. movements[k].link = "inventory_transfer"
        BY <2>2, <4>1
      <4>3. /\ movements[k].ref \in 1..n
            /\ movements[movements[k].ref].link = "inventory_transfer"
            /\ movements[movements[k].ref].ref = k
            /\ movements[movements[k].ref].qty = -movements[k].qty
            /\ movements[movements[k].ref].slot # movements[k].slot
            /\ movements[movements[k].ref].slot[2] = movements[k].slot[2]
        BY <3>3, <4>2 DEF IInv, LegsPaired
      <4>4. movements'[movements[k].ref] = movements[movements[k].ref]
        BY <2>1, <4>3
      <4>5. 1..n \subseteq 1..(n+2)
        BY <1>2, SMT
      <4>6. QED
        BY ONLY <4>1, <4>3, <4>4, <4>5
    <3>4. QED
      BY <1>2, <3>1, <3>2, <3>3, SMT
  <2>3. QED
    BY <2>1, <2>2 DEF LegsPaired
<1>6. QED
  BY <1>4, <1>5

\* A reversal writes one REVERSAL row, or two for a transfer; it adds no transfer leg.
LEMMA ReverseRows ==
  ASSUME IInv, NEW n \in 1..Len(movements), Reverse(n)
  PROVE  \/ \E m : OneRow(m)
         \/ \E a, b : TwoRows(a, b) /\ LegsPaired'
<1>1. CASE movements[n].link # "inventory_transfer"
  <2>1. Points(movements, ReversalOf(n)) /\ ~OfTransfer(movements, ReversalOf(n))
    BY <1>1 DEF Points, OfTransfer, ReversalOf
  <2>2. OneRow(ReversalOf(n))
    BY <1>1, <2>1, ReversalType DEF OneRow, Reverse
  <2>3. QED
    BY <2>2
<1>2. CASE movements[n].link = "inventory_transfer"
  <2> DEFINE k == movements[n].ref
             a == ReversalOf(n)
             b == ReversalOf(k)
             len == Len(movements)
  <2>1. /\ k \in 1..len
        /\ movements[k].qty = -movements[n].qty
        /\ movements[k].slot # movements[n].slot
        /\ movements[k].slot[2] = movements[n].slot[2]
    BY <1>2 DEF IInv, LegsPaired
  <2>2. /\ a \in Movement /\ a.slot = movements[n].slot /\ a.qty = -movements[n].qty
        /\ a.link = "reversal"
    BY ReversalType
  <2>3. /\ b \in Movement /\ b.slot = movements[k].slot /\ b.qty = -movements[k].qty
        /\ b.link = "reversal"
    BY <2>1, ReversalType
  <2> HIDE DEF k
  <2>4. TwoRows(a, b)
    <3>1. /\ PostPair(a, b) /\ UNCHANGED allowNegative
          /\ MayApply(balances[a.slot], a.qty, FALSE)
          /\ MayApply(balances[b.slot], b.qty, FALSE)
      BY <1>2, <2>2, <2>3 DEF Reverse, k
    <3>2. b.qty = -a.qty
      BY <2>1, <2>2, <2>3
    <3>3. movements[k].link = "inventory_transfer"
      BY <1>2 DEF IInv, LegsPaired, k
    <3>4. /\ Points(movements, a) /\ OfTransfer(movements, a)
          /\ Points(movements, b) /\ OfTransfer(movements, b)
      BY <1>2, <2>1, <3>3 DEF Points, OfTransfer, ReversalOf
    <3>5. QED
      BY <2>1, <2>2, <2>3, <3>1, <3>2, <3>4 DEF TwoRows
  <2>5. LegsPaired'
    <3>1. /\ Len(movements') = len + 2 /\ len \in Nat
          /\ \A j \in 1..len : movements'[j] = movements[j]
          /\ movements'[len+1] = a
          /\ movements'[len+2] = b
      BY <2>4, PostPairPreserves, LenProperties DEF TwoRows, IInv, TypeOK
    <3> HIDE DEF a, b, len
    <3>2. ASSUME NEW j \in 1..(len+2), movements'[j].link = "inventory_transfer"
          PROVE  j \in 1..len
      BY <2>2, <2>3, <3>1, <3>2, SMT
    <3>3. \A j \in 1..len : movements[j].link = "inventory_transfer" =>
             /\ movements[j].ref \in 1..len
             /\ movements[movements[j].ref].link = "inventory_transfer"
             /\ movements[movements[j].ref].ref = j
             /\ movements[movements[j].ref].qty = -movements[j].qty
             /\ movements[movements[j].ref].slot # movements[j].slot
             /\ movements[movements[j].ref].slot[2] = movements[j].slot[2]
      BY DEF IInv, LegsPaired, len
    <3>4. 1..len \subseteq 1..(len+2)
      BY <3>1, SMT
    <3>5. ASSUME NEW j \in 1..(len+2), movements'[j].link = "inventory_transfer"
          PROVE  /\ movements'[j].ref \in 1..(len+2)
                 /\ movements'[movements'[j].ref].link = "inventory_transfer"
                 /\ movements'[movements'[j].ref].ref = j
                 /\ movements'[movements'[j].ref].qty = -movements'[j].qty
                 /\ movements'[movements'[j].ref].slot # movements'[j].slot
                 /\ movements'[movements'[j].ref].slot[2] = movements'[j].slot[2]
      <4>1. j \in 1..len /\ movements'[j] = movements[j]
        BY <3>1, <3>2, <3>5
      <4>2. movements[j].ref \in 1..len /\ movements'[movements[j].ref] = movements[movements[j].ref]
        BY <3>1, <3>3, <3>5, <4>1
      <4>3. movements[j].link = "inventory_transfer"
        BY <3>5, <4>1, Zenon
      <4>4. /\ movements[movements[j].ref].link = "inventory_transfer"
            /\ movements[movements[j].ref].ref = j
            /\ movements[movements[j].ref].qty = -movements[j].qty
            /\ movements[movements[j].ref].slot # movements[j].slot
            /\ movements[movements[j].ref].slot[2] = movements[j].slot[2]
        BY <3>3, <4>1, <4>3, Zenon
      <4>5. movements[j].ref \in 1..(len+2)
        BY <3>4, <4>2, Zenon
      <4>6. QED
        BY <4>1, <4>2, <4>4, <4>5
    <3>6. QED
      BY <3>1, <3>5, Zenon DEF LegsPaired
  <2>6. QED
    BY <2>4, <2>5
<1>3. QED
  BY <1>1, <1>2

\* A recomputation rewrites one balance row to what it already holds.
LEMMA RecomputePreserves ==
  ASSUME IInv, NEW s \in Slots, Recompute(s)
  PROVE  IInv'
<1> DEFINE new == [exists |-> TRUE, qty |-> LedgerQty(movements, s),
                   avg |-> LedgerAverage(movements, s)]
<1>1. movements \in Seq(Movement) /\ balances \in [Slots -> Row]
  BY DEF IInv, TypeOK
<1>2. new \in Row
  BY <1>1, LedgerQtyType, LedgerAverageType DEF Row
<1>3. new.exists /\ new.qty = balances[s].qty
  BY RowTypes
<1>4. balances' = [balances EXCEPT ![s] = new] /\ movements' = movements
  BY DEF Recompute
<1> HIDE DEF new
<1>5. balances' \in [Slots -> Row]
  BY <1>1, <1>2, <1>4, Zenon
<1>6. \A t \in Slots : balances'[t].qty = balances[t].qty
                       /\ (balances[t].exists => balances'[t].exists)
  BY <1>1, <1>3, <1>4
<1>7. TypeOK'
  <2>1. \A n \in 1..Len(movements) : movements[n].slot \in Slots
    <3>1. \A n \in 1..Len(movements) : movements[n] \in Movement
      BY <1>1, ElementOfSeq
    <3>2. QED
      BY <3>1 DEF Movement
  <2>2. QED
    BY <1>1, <1>4, <1>5, <1>6, <2>1 DEF IInv, TypeOK, Recompute
<1>8. BalanceMatchesLedger'
  BY <1>4, <1>6 DEF IInv, BalanceMatchesLedger
<1>9. LegsPaired'
  BY <1>4 DEF IInv, LegsPaired
<1>10. QED
  BY <1>7, <1>8, <1>9 DEF IInv

\* What a step can do: write one row, write two, recompute, set the policy, or nothing.
LEMMA StepKinds ==
  ASSUME IInv, [Next]_vars
  PROVE  \/ \E m : OneRow(m)
         \/ \E a, b : TwoRows(a, b) /\ LegsPaired'
         \/ \E s \in Slots : Recompute(s)
         \/ UpdateSettings
         \/ UNCHANGED vars
<1>1. CASE \E s \in Slots, q \in Quantities, c \in Costs : Receive(s, q, c)
  BY <1>1, ReceiveOneRow
<1>2. CASE \E s \in Slots, q \in Quantities, a \in BOOLEAN : Issue(s, q, a)
  BY <1>2, IssueOneRow
<1>3. CASE \E w \in Warehouses, v \in Warehouses, i \in Items, q \in Quantities,
              a \in BOOLEAN : Transfer(w, v, i, q, a)
  BY <1>3, TransferTwoRows
<1>4. CASE \E s \in Slots, q \in Quantities :
              \E d \in {q, -q}, cost \in Costs \cup {balances[s].avg} : Adjust(s, d, cost)
  BY <1>4, AdjustOneRow
<1>5. CASE \E n \in 1..Len(movements) : Reverse(n)
  BY <1>5, ReverseRows
<1>6. QED
  BY <1>1, <1>2, <1>3, <1>4, <1>5 DEF Next

\* An empty ledger without balance rows is in order, whatever the policy.
LEMMA EmptyIInv ==
  ASSUME movements = <<>>, balances = [s \in Slots |-> NoRow], allowNegative \in BOOLEAN
  PROVE  IInv
<1>1. movements = <<>> /\ movements \in Seq(Movement) /\ Len(movements) = 0
  BY EmptySeq
<1>2. NoRow \in Row /\ NoRow.qty = 0
  BY DEF NoRow, Row
<1>3. TypeOK
  <2>1. 1..Len(movements) = {}
    BY <1>1, SMT
  <2>2. QED
    BY <1>1, <1>2, <2>1, Zenon DEF TypeOK
<1>4. LegsPaired
  BY <1>1, SMT DEF LegsPaired
<1>5. BalanceMatchesLedger
  BY <1>1, <1>2, LedgerQtyEmpty DEF BalanceMatchesLedger
<1>6. QED
  BY <1>3, <1>4, <1>5 DEF IInv

\* At the start the ledger is empty and so are the balances.
LEMMA InitIInv == Init => IInv
BY EmptyIInv, Zenon DEF Init

\* Every step keeps the invariant.
LEMMA NextIInv == IInv /\ [Next]_vars => IInv'
<1> SUFFICES ASSUME IInv, [Next]_vars PROVE IInv'
  OBVIOUS
<1>1. CASE \E m : OneRow(m)
  BY <1>1, PostPreserves DEF OneRow
<1>2. CASE \E a, b : TwoRows(a, b) /\ LegsPaired'
  BY <1>2, PostPairPreserves DEF TwoRows, IInv
<1>3. CASE \E s \in Slots : Recompute(s)
  BY <1>3, RecomputePreserves
<1>4. CASE UpdateSettings
  BY <1>4 DEF UpdateSettings, IInv, TypeOK, LegsPaired, BalanceMatchesLedger
<1>5. CASE UNCHANGED vars
  BY <1>5 DEF vars, IInv, TypeOK, LegsPaired, BalanceMatchesLedger
<1>6. QED
  BY <1>1, <1>2, <1>3, <1>4, <1>5, StepKinds

\* The rows' types, the links of transfers and the balances hold together, always.
THEOREM SpecIInv == Spec => []IInv
BY InitIInv, NextIInv, PTL DEF Spec

\* The balance rows and the ledger rows of inventory/service.py keep their types.
THEOREM LedgerTypeOK == Spec => []TypeOK
BY SpecIInv, PTL DEF IInv

\* Whichever leg of a transfer is reversed, its sibling is found: it is the row named by
\* the leg, for the opposite quantity of the same item in the other warehouse.
THEOREM LedgerLegsPaired == Spec => []LegsPaired
BY SpecIInv, PTL DEF IInv

\* The balance row of every slot is the sum of its ledger rows, after any sequence of
\* receipts, issues, transfers, adjustments, reversals, recomputations and changes of
\* policy that are served one at a time.
THEOREM LedgerBalanceMatches == Spec => []BalanceMatchesLedger
BY SpecIInv, PTL DEF IInv

-----------------------------------------------------------------------------
(* Transfers conserve                                                      *)

\* What the rows of led that belong to transfers add to item i.
NetTerms(led, i) ==
    [k \in 1..Len(led) |-> IF OfTransfer(led, led[k]) /\ led[k].slot[2] = i
                           THEN led[k].qty ELSE 0]
NetOf(led, i) == Total(NetTerms(led, i), Len(led))

\* Every reversal in led is of a row of led.
AllPoint(led) == \A k \in 1..Len(led) : Points(led, led[k])

\* What the rows add is an integer function.
LEMMA NetTermsType ==
  ASSUME NEW led \in Seq(Movement), NEW i
  PROVE  /\ Len(led) \in Nat /\ NetTerms(led, i) \in [1..Len(led) -> Int]
         /\ NetOf(led, i) \in Int
<1>1. \A k \in 1..Len(led) : led[k] \in Movement
  BY ElementOfSeq
<1>2. \A k \in 1..Len(led) : led[k].qty \in Int
  BY <1>1 DEF Movement
<1>3. Len(led) \in Nat /\ NetTerms(led, i) \in [1..Len(led) -> Int]
  BY <1>2, LenProperties DEF NetTerms
<1>4. QED
  BY <1>3, TotalType DEF NetOf

\* A new row adds its quantity if it belongs to a transfer, and no earlier row is read
\* differently for it.
LEMMA NetAppend ==
  ASSUME NEW led \in Seq(Movement), AllPoint(led), NEW m \in Movement, Points(led, m), NEW i
  PROVE  /\ AllPoint(Append(led, m))
         /\ NetOf(Append(led, m), i) =
               NetOf(led, i) + IF OfTransfer(led, m) /\ m.slot[2] = i THEN m.qty ELSE 0
         /\ \A x : Points(led, x) => Points(Append(led, m), x)
                                     /\ (OfTransfer(Append(led, m), x) <=> OfTransfer(led, x))
<1> DEFINE n == Len(led)
           app == Append(led, m)
           f == NetTerms(led, i)
           g == NetTerms(app, i)
<1>1. /\ app \in Seq(Movement) /\ Len(app) = n + 1 /\ n \in Nat
      /\ \A k \in 1..n : app[k] = led[k]
      /\ app[n+1] = m
      /\ 1..Len(app) = 1..n \cup {n+1}
  BY AppendProperties, LenProperties
<1> HIDE DEF app
<1>2. \A x : Points(led, x) => Points(app, x) /\ (OfTransfer(app, x) <=> OfTransfer(led, x))
  BY <1>1 DEF Points, OfTransfer
<1>3. AllPoint(app)
  BY <1>1, <1>2 DEF AllPoint
<1>4. f \in [1..n -> Int] /\ g \in [1..(n+1) -> Int]
  BY <1>1, NetTermsType
<1>5. \A k \in 1..n : f[k] = g[k]
  BY <1>1, <1>2 DEF NetTerms, AllPoint
<1>6. g[n+1] = IF OfTransfer(led, m) /\ m.slot[2] = i THEN m.qty ELSE 0
  BY <1>1, <1>2 DEF NetTerms
<1>7. NetOf(app, i) = NetOf(led, i) + g[n+1]
  <2> HIDE DEF f, g, n
  <2>1. Total(g, n+1) = Total(f, n) + g[n+1]
    BY ONLY <1>1, <1>4, <1>5, TotalStep
  <2>2. QED
    BY <1>1, <2>1 DEF NetOf, f, g, n
<1> HIDE DEF g
<1>8. QED
  BY <1>2, <1>3, <1>6, <1>7 DEF app

ConserveInv == IInv /\ AllPoint(movements) /\ \A i \in Items : NetOf(movements, i) = 0

\* A row that is no part of a transfer leaves the net where it is.
LEMMA OneRowConserves ==
  ASSUME ConserveInv, NEW m, OneRow(m)
  PROVE  ConserveInv'
<1>1. movements \in Seq(Movement) /\ m \in Movement /\ movements' = Append(movements, m)
  BY DEF ConserveInv, IInv, TypeOK, OneRow, Post
<1>2. IInv'
  BY PostPreserves DEF OneRow, ConserveInv
<1>3. AllPoint(movements')
  BY <1>1, NetAppend DEF ConserveInv, OneRow
<1>4. ASSUME NEW i \in Items PROVE NetOf(movements', i) = 0
  <2>1. NetOf(movements', i) = NetOf(movements, i) + 0
    BY <1>1, NetAppend DEF ConserveInv, OneRow
  <2>2. QED
    BY <2>1 DEF ConserveInv
<1>5. QED
  BY <1>2, <1>3, <1>4 DEF ConserveInv

\* The two rows of a transfer, or of its reversal, cancel out.
LEMMA TwoRowsConserve ==
  ASSUME ConserveInv, NEW a, NEW b, TwoRows(a, b), LegsPaired'
  PROVE  ConserveInv'
<1> DEFINE one == Append(movements, a)
<1>1. /\ movements \in Seq(Movement) /\ a \in Movement /\ b \in Movement
      /\ movements' = Append(one, b)
      /\ AllPoint(movements)
  BY DEF ConserveInv, IInv, TypeOK, TwoRows, PostPair
<1>2. IInv'
  BY PostPairPreserves DEF TwoRows, ConserveInv, IInv
<1>3. one \in Seq(Movement)
  BY <1>1, AppendProperties
<1>4. AllPoint(one) /\ Points(one, b) /\ OfTransfer(one, b)
  BY <1>1, NetAppend DEF TwoRows
<1>5. \A i : NetOf(one, i) = NetOf(movements, i) + IF a.slot[2] = i THEN a.qty ELSE 0
  BY <1>1, NetAppend DEF TwoRows
<1> HIDE DEF one
<1>6. \A i : NetOf(movements', i) = NetOf(one, i) + IF b.slot[2] = i THEN b.qty ELSE 0
  BY <1>1, <1>3, <1>4, NetAppend
<1>7. AllPoint(movements')
  BY <1>1, <1>3, <1>4, NetAppend
<1>8. a.qty \in Int /\ b.qty = -a.qty /\ a.slot[2] = b.slot[2]
  BY <1>1 DEF TwoRows, Movement
<1>9. ASSUME NEW i \in Items PROVE NetOf(movements', i) = 0
  <2>1. NetOf(movements, i) = 0
    BY DEF ConserveInv
  <2>2. QED
    BY <1>5, <1>6, <1>8, <2>1
<1>10. QED
  BY <1>2, <1>7, <1>9 DEF ConserveInv

\* Moving goods between warehouses, and undoing the move from either leg any number of
\* times, neither creates nor destroys a unit of the item.
THEOREM LedgerTransfersConserve == Spec => []TransfersConserve
<1>1. Init => ConserveInv
  <2> SUFFICES ASSUME Init PROVE ConserveInv
    OBVIOUS
  <2>1. movements = <<>> /\ movements \in Seq(Movement) /\ Len(movements) = 0
    BY EmptySeq DEF Init
  <2>2. AllPoint(movements)
    BY <2>1 DEF AllPoint
  <2>3. ASSUME NEW i \in Items PROVE NetOf(movements, i) = 0
    <3> DEFINE f == NetTerms(movements, i)
    <3>1. f \in [1..0 -> Int] /\ NetOf(movements, i) = Total(f, 0)
      BY <2>1, NetTermsType DEF NetOf
    <3> HIDE DEF f
    <3>2. QED
      BY <3>1, TotalEmpty
  <2>4. QED
    BY <2>2, <2>3, InitIInv DEF ConserveInv
<1>2. ConserveInv /\ [Next]_vars => ConserveInv'
  <2> SUFFICES ASSUME ConserveInv, [Next]_vars PROVE ConserveInv'
    OBVIOUS
  <2>1. IInv /\ IInv'
    BY NextIInv DEF ConserveInv
  <2>2. CASE UNCHANGED movements
    BY <2>1, <2>2 DEF ConserveInv
  <2>3. QED
    BY <2>1, <2>2, StepKinds, OneRowConserves, TwoRowsConserve
       DEF Recompute, UpdateSettings, vars
<1>3. ConserveInv => TransfersConserve
  BY DEF ConserveInv, TransfersConserve, TransferNet, NetOf, NetTerms, OfTransfer
<1>4. QED
  BY <1>1, <1>2, <1>3, PTL DEF Spec

-----------------------------------------------------------------------------
(* Rounding and averaging                                                  *)

\* A larger factor gives no smaller product with a natural.
LEMMA TimesMonotone ==
  ASSUME NEW a \in Int, NEW b \in Int, NEW d \in Int, d >= 0, a <= b
  PROVE  a * d <= b * d /\ d * a <= d * b
<1>1. b - a >= 0 /\ (b - a) * d >= 0
  BY SMT
<1>2. (b - a) * d = b * d - a * d /\ (b - a) * d = d * b - d * a
  BY SMT
<1>3. a * d \in Int /\ b * d \in Int /\ d * a \in Int /\ d * b \in Int
  BY SMT
<1>4. QED
  BY <1>1, <1>2, <1>3, SMT

\* Rounding moves a quotient by half a unit at most.
LEMMA RoundedNear ==
  ASSUME NEW n \in Int, NEW d \in Int, d > 0
  PROVE  /\ Rounded(n, d) \in Int
         /\ 2 * (Rounded(n, d) * d - n) <= d
         /\ 2 * (n - Rounded(n, d) * d) <= d
<1> DEFINE up == (2 * n + d) \div (2 * d)
           down == (d - 2 * n) \div (2 * d)
<1>1. Rounded(n, d) = IF n >= 0 THEN up ELSE -down
  BY DEF Rounded
<1>2. ASSUME NEW x \in Int, NEW e \in Int, e > 0
      PROVE  /\ e * (x \div e) <= x /\ x < e * (x \div e) + e
             /\ x \div e \in Int
  BY <1>2, SMT
<1>3. 2 * n + d \in Int /\ d - 2 * n \in Int /\ 2 * d \in Int /\ 2 * d > 0
  BY SMT
<1>4. /\ (2 * d) * up <= 2 * n + d /\ 2 * n + d < (2 * d) * up + 2 * d /\ up \in Int
      /\ (2 * d) * down <= d - 2 * n /\ d - 2 * n < (2 * d) * down + 2 * d /\ down \in Int
  BY <1>2, <1>3
<1> HIDE DEF up, down
<1>5. (2 * d) * up = 2 * (up * d) /\ (2 * d) * down = 2 * (down * d) /\ (-down) * d = -(down * d)
      /\ up * d \in Int /\ down * d \in Int
  BY <1>4, SMT
<1>6. QED
  BY <1>1, <1>4, <1>5, SMT

\* Rounding passes no integer bound.
LEMMA RoundedBounds ==
  ASSUME NEW n \in Int, NEW d \in Int, d > 0, NEW a \in Int
  PROVE  /\ a * d <= n => a <= Rounded(n, d)
         /\ n <= a * d => Rounded(n, d) <= a
<1> DEFINE r == Rounded(n, d)
<1>1. r \in Int /\ 2 * (r * d - n) <= d /\ 2 * (n - r * d) <= d
  BY RoundedNear
<1> HIDE DEF r
<1>2. r * d \in Int /\ a * d \in Int
      /\ (a - 1) * d = a * d - d /\ (a + 1) * d = a * d + d
  BY <1>1, SMT
<1>3. r <= a - 1 => r * d <= (a - 1) * d
  BY <1>1, TimesMonotone, a - 1 \in Int
<1>4. a + 1 <= r => (a + 1) * d <= r * d
  BY <1>1, TimesMonotone, a + 1 \in Int
<1>5. QED
  BY <1>1, <1>2, <1>3, <1>4, SMT DEF r

\* A weighted sum of two values lies where both of them lie.
LEMMA MixBounds ==
  ASSUME NEW q \in Int, NEW d \in Int, q >= 0, d > 0, NEW x \in Int, NEW y \in Int,
         NEW b \in Int
  PROVE  /\ (q > 0 => b <= x) /\ b <= y => b * (q + d) <= q * x + d * y
         /\ (q > 0 => x <= b) /\ y <= b => q * x + d * y <= b * (q + d)
<1>1. b * (q + d) = q * b + d * b /\ q * b \in Int /\ d * b \in Int
      /\ q * x \in Int /\ d * y \in Int
  BY SMT
<1>2. (b <= x => q * b <= q * x) /\ (x <= b => q * x <= q * b)
  BY TimesMonotone
<1>3. (b <= y => d * b <= d * y) /\ (y <= b => d * y <= d * b)
  BY TimesMonotone
<1>4. q = 0 => q * x = 0 /\ q * b = 0
  BY SMT
<1>5. QED
  BY <1>1, <1>2, <1>3, <1>4, SMT

\* Averaging in exact fractions and in rounded units drift apart by half a unit more.
LEMMA MixDrift ==
  ASSUME NEW q \in Int, NEW d \in Int, q >= 0, d > 0, NEW a \in Int, NEW num \in Int,
         NEW den \in Int, den > 0, NEW c \in Int, NEW n \in Int, n >= 0,
         NEW r \in Int, NEW t \in Int, t = q * a + d * c,
         2 * (r * (q + d) - t) <= q + d,
         2 * (a * den - num) <= n * den
  PROVE  2 * (r * (den * (q + d)) - (q * num + d * c * den)) <= (n + 1) * (den * (q + d))
<1> DEFINE D == q + d
           e == r * D - t
           g == a * den - num
<1>1. D \in Int /\ D > 0 /\ e \in Int /\ g \in Int /\ q <= D /\ n * den \in Int /\ n * den >= 0
  BY SMT
<1>2. r * (den * D) - (q * num + d * c * den) = e * den + q * g
  BY SMT
<1>3. 2 * e <= D /\ 2 * g <= n * den
  OBVIOUS
<1> HIDE DEF D, e, g
<1>4. (2 * e) * den <= D * den /\ q * (2 * g) <= q * (n * den)
  BY <1>1, <1>3, TimesMonotone, 2 * e \in Int, 2 * g \in Int
<1>5. q * (n * den) <= D * (n * den)
  BY <1>1, TimesMonotone
<1>6. (n + 1) * (den * D) = D * (n * den) + D * den
  BY <1>1, SMT
<1>7. 2 * (e * den + q * g) = (2 * e) * den + q * (2 * g)
  BY <1>1, SMT
<1>8. /\ (2 * e) * den \in Int /\ q * (2 * g) \in Int /\ D * den \in Int
      /\ q * (n * den) \in Int /\ D * (n * den) \in Int
  BY <1>1, SMT
<1>9. 2 * (e * den + q * g) <= (n + 1) * (den * D)
  BY <1>4, <1>5, <1>6, <1>7, <1>8, SMT
<1>10. QED
  BY <1>2, <1>9 DEF D

\* Both sides of it.
LEMMA MixDriftBoth ==
  ASSUME NEW q \in Int, NEW d \in Int, q >= 0, d > 0, NEW a \in Int, NEW num \in Int,
         NEW den \in Int, den > 0, NEW c \in Int, NEW n \in Int, n >= 0,
         NEW r \in Int, NEW t \in Int, t = q * a + d * c,
         2 * (r * (q + d) - t) <= q + d, 2 * (t - r * (q + d)) <= q + d,
         2 * (a * den - num) <= n * den, 2 * (num - a * den) <= n * den
  PROVE  /\ 2 * (r * (den * (q + d)) - (q * num + d * c * den)) <= (n + 1) * (den * (q + d))
         /\ 2 * ((q * num + d * c * den) - r * (den * (q + d))) <= (n + 1) * (den * (q + d))
<1>1. 2 * (r * (den * (q + d)) - (q * num + d * c * den)) <= (n + 1) * (den * (q + d))
  BY MixDrift
<1>2. 2 * ((-r) * (den * (q + d)) - (q * (-num) + d * (-c) * den)) <= (n + 1) * (den * (q + d))
  <2>1. -t = q * (-a) + d * (-c)
    BY SMT
  <2>2. 2 * ((-r) * (q + d) - (-t)) <= q + d
    <3>1. (-r) * (q + d) = -(r * (q + d)) /\ r * (q + d) \in Int
      BY SMT
    <3>2. QED
      BY <3>1, SMT
  <2>3. 2 * ((-a) * den - (-num)) <= n * den
    <3>1. (-a) * den = -(a * den) /\ a * den \in Int /\ n * den \in Int
      BY SMT
    <3>2. QED
      BY <3>1, SMT
  <2>4. -a \in Int /\ -num \in Int /\ -c \in Int /\ -r \in Int /\ -t \in Int
    BY SMT
  <2>5. QED
    BY ONLY <2>1, <2>2, <2>3, <2>4, MixDrift, q \in Int, d \in Int, q >= 0, d > 0, den \in Int,
            den > 0, n \in Int, n >= 0
<1>3. (-r) * (den * (q + d)) - (q * (-num) + d * (-c) * den)
        = (q * num + d * c * den) - r * (den * (q + d))
  BY SMT
<1>4. QED
  BY <1>1, <1>2, <1>3

-----------------------------------------------------------------------------
(* The average is sound                                                    *)

\* The rows of led that brought goods into slot s.
In(led, s) == {k \in 1..Len(led) : Contribution(led[k], s) > 0}

\* Slot s was below zero after some prefix of led.
Short(led, s) == \E k \in 1..Len(led) : LedgerQty(SubSeq(led, 1, k), s) < 0

\* The value num / den lies between two unit costs at which goods came in.
WithinCosts(led, s, num, den) ==
    /\ \E k \in In(led, s) : led[k].cost * den <= num
    /\ \E k \in In(led, s) : num <= led[k].cost * den

\* The row's average is as near the replayed fraction as the number of receipts says.
Near(led, row, s) ==
    LET r == Final(led, s)
        n == Cardinality(In(led, s))
    IN  /\ 2 * (row.avg * r.den - r.num) <= n * r.den
        /\ 2 * (r.num - row.avg * r.den) <= n * r.den

\* What holds of a slot's ledger rows and its balance row in any case, ...
Counted(led, row, s) ==
    /\ row.qty = LedgerQty(led, s)
    /\ Final(led, s).qty = LedgerQty(led, s)
    /\ In(led, s) = {} => LedgerQty(led, s) <= 0
    /\ ~row.exists => In(led, s) = {}

\* ... and as long as the slot was never short.
Valued(led, row, s) ==
    /\ LedgerQty(led, s) >= 0
    /\ Final(led, s).den > 0
    /\ In(led, s) = {} => row.avg = 0 /\ Final(led, s).num = 0
    /\ In(led, s) # {} => /\ WithinCosts(led, s, row.avg, 1)
                          /\ WithinCosts(led, s, Final(led, s).num, Final(led, s).den)
    /\ Near(led, row, s)

Sound(led, row, s) == Counted(led, row, s) /\ (~Short(led, s) => Valued(led, row, s))

\* A receipt joins the rows that brought goods in.
LEMMA InAppend ==
  ASSUME NEW led \in Seq(Movement), NEW m \in Movement, NEW s
  PROVE  /\ Len(led) \in Nat /\ IsFiniteSet(In(led, s)) /\ Cardinality(In(led, s)) \in Nat
         /\ Len(led) + 1 \notin In(led, s)
         /\ In(Append(led, m), s) = IF Contribution(m, s) > 0
                                    THEN In(led, s) \cup {Len(led) + 1} ELSE In(led, s)
         /\ Cardinality(In(led, s) \cup {Len(led) + 1}) = Cardinality(In(led, s)) + 1
         /\ \A k \in In(led, s) : Append(led, m)[k] = led[k] /\ led[k].cost \in Int
         /\ Append(led, m)[Len(led) + 1] = m
<1> DEFINE n == Len(led)
           app == Append(led, m)
<1>1. /\ app \in Seq(Movement) /\ Len(app) = n + 1 /\ n \in Nat
      /\ \A k \in 1..n : app[k] = led[k] /\ led[k] \in Movement
      /\ app[n+1] = m
      /\ 1..Len(app) = 1..n \cup {n+1}
      /\ n + 1 \notin 1..n
  BY AppendProperties, LenProperties, ElementOfSeq
<1> HIDE DEF app, n
<1>2. In(app, s) = IF Contribution(m, s) > 0 THEN In(led, s) \cup {n+1} ELSE In(led, s)
  BY <1>1 DEF In, n
<1>3. In(led, s) \subseteq 1..n
  BY DEF In, n
<1>4. IsFiniteSet(In(led, s)) /\ Cardinality(In(led, s)) \in Nat
  <2>1. IsFiniteSet(1..n)
    BY <1>1, FS_Interval, 1 \in Int, n \in Int
  <2>2. QED
    BY <1>3, <2>1, FS_Subset, FS_CardinalityType
<1>5. n + 1 \notin In(led, s)
  BY <1>1, <1>3
<1>6. Cardinality(In(led, s) \cup {n+1}) = Cardinality(In(led, s)) + 1
  BY <1>4, <1>5, FS_AddElement
<1>7. \A k \in In(led, s) : app[k] = led[k] /\ led[k].cost \in Int
  BY <1>1, <1>3 DEF Movement
<1>8. QED
  BY <1>1, <1>2, <1>4, <1>5, <1>6, <1>7 DEF n, app

\* A slot that was never short with one more row was not short before it and is not now.
LEMMA ShortAppend ==
  ASSUME NEW led \in Seq(Movement), NEW m \in Movement, NEW s, ~Short(Append(led, m), s)
  PROVE  ~Short(led, s) /\ ~(LedgerQty(Append(led, m), s) < 0)
<1> DEFINE n == Len(led)
           app == Append(led, m)
<1>1. /\ app \in Seq(Movement) /\ Len(app) = n + 1 /\ n \in Nat
      /\ \A k \in 1..n : app[k] = led[k]
  BY AppendProperties, LenProperties
<1> HIDE DEF app
<1>2. SubSeq(app, 1, n+1) = app
  BY <1>1, SubSeqFull
<1>3. ASSUME NEW k \in 1..n PROVE SubSeq(app, 1, k) = SubSeq(led, 1, k)
  <2>1. k \in 0..Len(led) /\ k \in 0..Len(app) /\ 1..k \subseteq 1..n
    BY <1>1
  <2>2. SubSeq(led, 1, k) = Restrict(led, 1..k) /\ SubSeq(app, 1, k) = Restrict(app, 1..k)
    BY <1>1, <2>1, SubSeqRestrict
  <2>3. Restrict(led, 1..k) = Restrict(app, 1..k)
    BY <1>1, <2>1 DEF Restrict
  <2>4. QED
    BY <2>2, <2>3
<1>4. n+1 \in 1..(n+1) /\ 1..n \subseteq 1..(n+1)
  BY <1>1, SMT
<1>5. QED
  BY <1>1, <1>2, <1>3, <1>4 DEF Short, app

\* What a movement adds to a slot.
LEMMA ContributionType ==
  ASSUME NEW m \in Movement, NEW s
  PROVE  /\ Contribution(m, s) \in Int /\ m.qty \in Int /\ m.cost \in Int
         /\ Contribution(m, m.slot) = m.qty
BY DEF Contribution, Movement

\* Goods that leave, and movements of other slots, leave the average sound.
LEMMA OutboundSound ==
  ASSUME NEW led \in Seq(Movement), NEW m \in Movement, NEW s, NEW row \in Row,
         Sound(led, row, s), Contribution(m, s) <= 0,
         NEW new \in Row, new.avg = row.avg, new.exists \/ new = row,
         new.qty = row.qty + Contribution(m, s)
  PROVE  Sound(Append(led, m), new, s)
<1> DEFINE app == Append(led, m)
           f == Final(led, s)
           g == Final(app, s)
           d == Contribution(m, s)
<1>0. d \in Int /\ ~(d > 0)
  BY ContributionType, SMT
<1>1. In(app, s) = In(led, s) /\ \A k \in In(led, s) : app[k] = led[k]
  <2>0. led \in Seq(Movement) /\ m \in Movement
    OBVIOUS
  <2>1. \A k \in In(led, s) : app[k] = led[k]
    BY ONLY <2>0, AppendProperties DEF In
  <2>2. In(app, s) = IF d > 0 THEN In(led, s) \cup {Len(led) + 1} ELSE In(led, s)
    BY ONLY <2>0, InAppend, Zenon
  <2>3. QED
    BY <1>0, <2>1, <2>2
<1>2. g.qty = f.qty + d /\ g.num = f.num /\ g.den = f.den
  <2>1. g = ReplayStep(f, m, s)
    BY ReplayAppend
  <2> HIDE DEF f, g
  <2>2. QED
    BY <2>1 DEF ReplayStep
<1>3. LedgerQty(app, s) = LedgerQty(led, s) + d /\ LedgerQty(led, s) \in Int /\ d \in Int
  BY <1>0, LedgerQtyAppend, LedgerQtyType
<1>4. ~Short(app, s) => ~Short(led, s) /\ ~(LedgerQty(app, s) < 0)
  BY ShortAppend
<1>5. LedgerQty(app, s) \in Int
  BY <1>3, SMT
<1> HIDE DEF app, f, g, d
<1>6. Counted(led, row, s) /\ (~Short(led, s) => Valued(led, row, s)) /\ d <= 0
  BY DEF Sound, d
<1>7. Counted(app, new, s)
  <2>1. new.qty = LedgerQty(app, s) /\ g.qty = LedgerQty(app, s)
    BY <1>2, <1>3, <1>6 DEF Counted, f, d
  <2>2. In(app, s) = {} => LedgerQty(app, s) <= 0
    BY <1>1, <1>3, <1>6, SMT DEF Counted
  <2>3. ~new.exists => In(app, s) = {}
    BY <1>1, <1>6 DEF Counted
  <2>4. QED
    BY <2>1, <2>2, <2>3 DEF Counted, g
<1>8. ASSUME ~Short(app, s) PROVE Valued(app, new, s)
  <2>1. Valued(led, row, s)
    BY <1>4, <1>6, <1>8
  <2>2. LedgerQty(app, s) >= 0
    BY <1>4, <1>5, <1>8, SMT
  <2>3. Near(app, new, s)
    BY <1>1, <1>2, <2>1 DEF Near, Valued, f, g
  <2>4. In(led, s) # {} => /\ WithinCosts(app, s, new.avg, 1)
                           /\ WithinCosts(app, s, g.num, g.den)
    BY <1>1, <1>2, <2>1 DEF WithinCosts, Valued, f
  <2>5. QED
    BY <1>1, <1>2, <2>1, <2>2, <2>3, <2>4 DEF Valued, f, g
<1>9. QED
  BY <1>7, <1>8 DEF Sound, app

\* Goods that come in keep the average within the costs and near the replay.
LEMMA InboundSound ==
  ASSUME NEW led \in Seq(Movement), NEW m \in Movement, NEW row \in Row,
         Sound(led, row, m.slot), m.qty > 0
  PROVE  Sound(Append(led, m), Updated(row, m.qty, m.cost), m.slot)
<1> DEFINE s == m.slot
           app == Append(led, m)
           f == Final(led, s)
           g == Final(app, s)
           d == m.qty
           c == m.cost
           q == LedgerQty(led, s)
           a == row.avg
           new == Updated(row, d, c)
           n == Cardinality(In(led, s))
           p == Len(led) + 1
<1>0. d \in Int /\ c \in Int /\ Contribution(m, s) = d
  BY ContributionType
<1>1. /\ In(app, s) = In(led, s) \cup {p} /\ n \in Nat
      /\ \A k \in In(led, s) : app[k] = led[k] /\ led[k].cost \in Int
      /\ app[p] = m
      /\ Cardinality(In(app, s)) = n + 1
  <2>1. Contribution(m, s) > 0
    BY <1>0
  <2>2. In(app, s) = In(led, s) \cup {p}
    BY <2>1, InAppend
  <2> HIDE DEF s
  <2>3. QED
    BY <2>2, InAppend
<1>2. g = ReplayStep(f, m, s) /\ f.qty \in Int /\ f.num \in Int /\ f.den \in Int
  BY ReplayAppend, FinalType
<1>3. /\ LedgerQty(app, s) = q + d /\ q \in Int /\ d \in Int /\ d > 0 /\ c \in Int /\ a \in Int
      /\ Contribution(m, s) = d
  BY <1>0, LedgerQtyAppend, LedgerQtyType DEF Row
<1>4. ~Short(app, s) => ~Short(led, s) /\ ~(LedgerQty(app, s) < 0)
  BY ShortAppend
<1>5. /\ row.qty = q /\ f.qty = q
      /\ In(led, s) = {} => q <= 0
      /\ ~row.exists => In(led, s) = {}
      /\ ~Short(led, s) => Valued(led, row, s)
  BY DEF Sound, Counted
<1>6. new.exists /\ new.qty = q + d /\ new.avg = NewAverage(row, d, c)
  BY <1>5 DEF Updated
<1>7. g.qty = q + d
  BY <1>2, <1>3, <1>5, SMT DEF ReplayStep
<1> HIDE DEF app, f, g, d, c, q, a, new, n, p, s
<1>8. Counted(app, new, s)
  BY <1>1, <1>3, <1>6, <1>7 DEF Counted, g
<1>9. ASSUME ~Short(app, s) PROVE Valued(app, new, s)
  <2>1. /\ q >= 0 /\ f.den > 0
        /\ In(led, s) = {} => a = 0 /\ f.num = 0 /\ q = 0
        /\ In(led, s) # {} => WithinCosts(led, s, a, 1) /\ WithinCosts(led, s, f.num, f.den)
        /\ 2 * (a * f.den - f.num) <= n * f.den
        /\ 2 * (f.num - a * f.den) <= n * f.den
    BY <1>3, <1>4, <1>5, <1>9, SMT DEF Valued, Near, f, q, n, a
  <2>2. q + d > 0 /\ q + d \in Int
    BY <1>3, <2>1, SMT
  <2>3. g.num = q * f.num + d * c * f.den /\ g.den = f.den * (q + d)
    <3>1. g = [qty |-> f.qty + d, num |-> f.qty * f.num + d * c * f.den,
               den |-> f.den * (f.qty + d)]
      BY <1>2, <1>3, <1>5, <2>2, SMT DEF ReplayStep, c
    <3>2. QED
      BY <1>5, <3>1
  <2> DEFINE t == q * a + d * c
             r == new.avg
  <2>4. t \in Int
    BY <1>3, SMT
  <2>5. r = IF ~row.exists THEN c ELSE Rounded(t, q + d)
    BY <1>3, <1>5, <1>6, <2>2, SMT DEF NewAverage, a
  <2>6. /\ r \in Int /\ 2 * (r * (q + d) - t) <= q + d /\ 2 * (t - r * (q + d)) <= q + d
        /\ \A b \in Int : (b * (q + d) <= t => b <= r) /\ (t <= b * (q + d) => r <= b)
    <3>1. CASE row.exists
      <4> HIDE DEF t
      <4>1. r = Rounded(t, q + d)
        BY <2>5, <3>1
      <4> HIDE DEF r
      <4>2. /\ r \in Int /\ 2 * (r * (q + d) - t) <= q + d /\ 2 * (t - r * (q + d)) <= q + d
        BY ONLY <2>2, <2>4, <4>1, RoundedNear
      <4>3. \A b \in Int : (b * (q + d) <= t => b <= r) /\ (t <= b * (q + d) => r <= b)
        BY ONLY <2>2, <2>4, <4>1, RoundedBounds
      <4>4. QED
        BY <4>2, <4>3
    <3>2. CASE ~row.exists
      <4>1. q = 0 /\ a = 0 /\ r = c
        BY <1>5, <2>1, <2>5, <3>2
      <4>2. t = r * (q + d)
        BY <1>3, <4>1, SMT
      <4>3. ASSUME NEW b \in Int
            PROVE  (b * (q + d) <= t => b <= r) /\ (t <= b * (q + d) => r <= b)
        <5>1. c + 1 <= b => (c + 1) * d <= b * d
          BY <1>3, TimesMonotone, c + 1 \in Int
        <5>2. b <= c - 1 => b * d <= (c - 1) * d
          BY <1>3, TimesMonotone, c - 1 \in Int
        <5>3. t = c * d /\ b * (q + d) = b * d /\ (c + 1) * d = c * d + d
              /\ (c - 1) * d = c * d - d /\ c * d \in Int /\ b * d \in Int
          BY <1>3, <4>1, <4>2, SMT
        <5>4. QED
          BY <1>3, <4>1, <5>1, <5>2, <5>3, SMT
      <4>4. QED
        BY <1>3, <2>2, <2>4, <4>1, <4>2, <4>3, SMT
    <3>3. QED
      BY <3>1, <3>2
  <2> HIDE DEF t, r
  <2>7. f.den * (q + d) \in Int /\ f.den * (q + d) > 0
    <3>1. ASSUME NEW x \in Int, NEW y \in Int, x > 0, y > 0 PROVE x * y \in Int /\ x * y > 0
      BY <3>1, SMT
    <3>2. QED
      BY <1>2, <2>1, <2>2, <3>1
  <2>8. Near(app, new, s)
    <3>1. t = q * a + d * c
      BY DEF t
    <3>2. /\ 2 * (r * (f.den * (q + d)) - (q * f.num + d * c * f.den)) <= (n + 1) * (f.den * (q + d))
          /\ 2 * ((q * f.num + d * c * f.den) - r * (f.den * (q + d))) <= (n + 1) * (f.den * (q + d))
      <4>1. n \in Int /\ n >= 0
        BY <1>1
      <4>2. QED
        <5> DEFINE den == f.den
                   num == f.num
        <5>1. den \in Int /\ num \in Int
          BY <1>2
        <5>2. /\ q >= 0 /\ den > 0 /\ 2 * (a * den - num) <= n * den
              /\ 2 * (num - a * den) <= n * den
          BY <2>1
        <5> HIDE DEF den, num
        <5>3. /\ 2 * (r * (den * (q + d)) - (q * num + d * c * den)) <= (n + 1) * (den * (q + d))
              /\ 2 * ((q * num + d * c * den) - r * (den * (q + d))) <= (n + 1) * (den * (q + d))
          BY ONLY <1>3, <2>4, <2>6, <3>1, <4>1, <5>1, <5>2, MixDriftBoth
        <5>4. QED
          BY <5>3 DEF den, num
    <3>3. QED
      BY <1>1, <2>3, <3>2 DEF Near, g, r
  \* Whatever number lies below (above) both values lies below (above) their mix.
  <2>9. ASSUME NEW b \in Int
        PROVE  /\ (q > 0 => b <= a) /\ b <= c => b <= r
               /\ (q > 0 => a <= b) /\ c <= b => r <= b
               /\ (q > 0 => b * f.den <= f.num) /\ b * f.den <= c * f.den => b * g.den <= g.num
               /\ (q > 0 => f.num <= b * f.den) /\ c * f.den <= b * f.den => g.num <= b * g.den
    <3>1. /\ (q > 0 => b <= a) /\ b <= c => b * (q + d) <= t
          /\ (q > 0 => a <= b) /\ c <= b => t <= b * (q + d)
      BY <1>3, <2>1, MixBounds DEF t
    <3>2. b * f.den \in Int /\ c * f.den \in Int
      BY <1>2, <1>3, SMT
    <3>3. /\ (q > 0 => b * f.den <= f.num) /\ b * f.den <= c * f.den
                => (b * f.den) * (q + d) <= q * f.num + d * (c * f.den)
          /\ (q > 0 => f.num <= b * f.den) /\ c * f.den <= b * f.den
                => q * f.num + d * (c * f.den) <= (b * f.den) * (q + d)
      BY <1>2, <1>3, <2>1, <3>2, MixBounds
    <3>4. (b * f.den) * (q + d) = b * g.den /\ q * f.num + d * (c * f.den) = g.num
      BY <1>2, <1>3, <2>2, <2>3, SMT
    <3>5. QED
      BY <2>6, <3>1, <3>3, <3>4
  <2>10. WithinCosts(app, s, r, 1) /\ WithinCosts(app, s, g.num, g.den)
    <3>1. p \in In(app, s) /\ app[p].cost = c
      BY <1>1 DEF c
    <3>2. q > 0 => In(led, s) # {}
      BY <2>1, SMT
    <3>3. \A k \in In(led, s) : k \in In(app, s) /\ app[k].cost = led[k].cost /\ led[k].cost \in Int
      BY <1>1
    <3>4. c * f.den \in Int /\ r \in Int /\ f.num \in Int /\ g.num \in Int /\ g.den \in Int
      <4>1. ASSUME NEW x \in Int, NEW y \in Int PROVE x * y \in Int /\ x + y \in Int
        BY SMT
      <4>2. c * f.den \in Int /\ q * f.num \in Int /\ d * c \in Int
        BY <1>2, <1>3, <4>1
      <4>3. d * c * f.den \in Int
        BY <1>2, <4>1, <4>2
      <4>4. g.num \in Int
        BY <2>3, <4>1, <4>2, <4>3
      <4>5. QED
        BY <1>2, <2>3, <2>6, <2>7, <4>2, <4>4
    <3>5. \E k \in In(app, s) : app[k].cost * 1 <= r
      <4>1. CASE q > 0 => c <= a
        <5>1. c <= r
          BY <1>3, <2>9, <4>1
        <5>2. QED
          BY <1>3, <3>1, <3>4, <5>1, SMT
      <4>2. CASE q > 0 /\ ~(c <= a)
        <5>1. PICK k \in In(led, s) : led[k].cost * 1 <= a
          BY <2>1, <3>2, <4>2 DEF WithinCosts
        <5>2. led[k].cost \in Int /\ led[k].cost <= a /\ led[k].cost <= c
          BY <1>3, <3>3, <4>2, <5>1, SMT
        <5>3. led[k].cost <= r
          BY <2>9, <5>2
        <5>4. app[k].cost * 1 <= r
          BY <3>3, <3>4, <5>2, <5>3, SMT
        <5>5. QED
          BY <3>3, <5>4
      <4>3. QED
        BY <4>1, <4>2
    <3>6. \E k \in In(app, s) : r <= app[k].cost * 1
      <4>1. CASE q > 0 => a <= c
        <5>1. r <= c
          BY <1>3, <2>9, <4>1
        <5>2. QED
          BY <1>3, <3>1, <3>4, <5>1, SMT
      <4>2. CASE q > 0 /\ ~(a <= c)
        <5>1. PICK k \in In(led, s) : a <= led[k].cost * 1
          BY <2>1, <3>2, <4>2 DEF WithinCosts
        <5>2. led[k].cost \in Int /\ a <= led[k].cost /\ c <= led[k].cost
          BY <1>3, <3>3, <4>2, <5>1, SMT
        <5>3. r <= led[k].cost
          BY <2>9, <5>2
        <5>4. r <= app[k].cost * 1
          BY <3>3, <3>4, <5>2, <5>3, SMT
        <5>5. QED
          BY <3>3, <5>4
      <4>3. QED
        BY <4>1, <4>2
    <3>7. \E k \in In(app, s) : app[k].cost * g.den <= g.num
      <4>1. CASE q > 0 => c * f.den <= f.num
        <5>1. c * g.den <= g.num
          BY <1>3, <2>9, <3>4, <4>1, SMT
        <5>2. QED
          BY <3>1, <5>1
      <4>2. CASE q > 0 /\ ~(c * f.den <= f.num)
        <5>1. PICK k \in In(led, s) : led[k].cost * f.den <= f.num
          BY <2>1, <3>2, <4>2 DEF WithinCosts
        <5>2. led[k].cost * f.den \in Int /\ led[k].cost * f.den <= c * f.den
          BY <1>2, <3>3, <3>4, <4>2, <5>1, SMT
        <5>3. led[k].cost * g.den <= g.num
          BY <2>9, <3>3, <5>1, <5>2
        <5>4. QED
          BY <3>3, <5>3
      <4>3. QED
        BY <4>1, <4>2
    <3>8. \E k \in In(app, s) : g.num <= app[k].cost * g.den
      <4>1. CASE q > 0 => f.num <= c * f.den
        <5>1. g.num <= c * g.den
          BY <1>3, <2>9, <3>4, <4>1, SMT
        <5>2. QED
          BY <3>1, <5>1
      <4>2. CASE q > 0 /\ ~(f.num <= c * f.den)
        <5>1. PICK k \in In(led, s) : f.num <= led[k].cost * f.den
          BY <2>1, <3>2, <4>2 DEF WithinCosts
        <5>2. led[k].cost * f.den \in Int /\ c * f.den <= led[k].cost * f.den
          BY <1>2, <3>3, <3>4, <4>2, <5>1, SMT
        <5>3. g.num <= led[k].cost * g.den
          BY <2>9, <3>3, <5>1, <5>2
        <5>4. QED
          BY <3>3, <5>3
      <4>3. QED
        BY <4>1, <4>2
    <3>9. QED
      BY <3>5, <3>6, <3>7, <3>8 DEF WithinCosts
  <2>11. QED
    BY <1>1, <1>3, <2>1, <2>2, <2>3, <2>7, <2>8, <2>10 DEF Valued, g, r
<1>10. QED
  BY <1>8, <1>9 DEF Sound, app, s, new, d, c

\* One more row, of whatever slot, keeps a slot's average sound.
LEMMA SoundAppend ==
  ASSUME NEW led \in Seq(Movement), NEW m \in Movement, NEW s, NEW row \in Row,
         Sound(led, row, s)
  PROVE  Sound(Append(led, m), IF m.slot = s THEN Updated(row, m.qty, m.cost) ELSE row, s)
<1>1. m.qty \in Int /\ m.cost \in Int /\ row.qty \in Int
  BY DEF Movement, Row
<1>2. CASE m.slot # s
  <2>1. Contribution(m, s) = 0
    BY <1>2 DEF Contribution
  <2>2. Sound(Append(led, m), row, s)
    BY <1>1, <2>1, OutboundSound
  <2>3. QED
    BY <1>2, <2>2
<1>3. CASE m.slot = s /\ m.qty > 0
  BY <1>3, InboundSound
<1>4. CASE m.slot = s /\ ~(m.qty > 0)
  <2> DEFINE new == Updated(row, m.qty, m.cost)
  <2>1. Contribution(m, s) = m.qty /\ m.qty <= 0
    BY <1>1, <1>4, SMT DEF Contribution
  <2>2. new \in Row /\ new.exists /\ new.qty = row.qty + m.qty
    BY <1>1, UpdatedType
  <2>3. new.avg = row.avg
    BY <2>1 DEF Updated, NewAverage
  <2> HIDE DEF new
  <2>4. Sound(Append(led, m), new, s)
    BY <2>1, <2>2, <2>3, OutboundSound
  <2>5. QED
    BY <1>4, <2>4 DEF new
<1>5. QED
  BY <1>2, <1>3, <1>4

\* What a recomputation stores is sound as well.
LEMMA RecomputedSound ==
  ASSUME NEW led \in Seq(Movement), NEW s, NEW row \in Row, Sound(led, row, s)
  PROVE  Sound(led, [exists |-> TRUE, qty |-> LedgerQty(led, s),
                     avg |-> LedgerAverage(led, s)], s)
<1> DEFINE f == Final(led, s)
           r == LedgerAverage(led, s)
           n == Cardinality(In(led, s))
           new == [exists |-> TRUE, qty |-> LedgerQty(led, s), avg |-> r]
<1>1. Counted(led, new, s)
  BY DEF Sound, Counted
<1>2. ASSUME ~Short(led, s) PROVE Valued(led, new, s)
  <2>1. Valued(led, row, s) /\ f.den \in Int /\ f.num \in Int /\ f.den > 0
    BY <1>2, FinalType DEF Sound, Valued
  <2>2. r = Rounded(f.num, f.den)
    BY LedgerAverageFinal
  <2> HIDE DEF r
  <2>3. /\ r \in Int /\ 2 * (r * f.den - f.num) <= f.den /\ 2 * (f.num - r * f.den) <= f.den
        /\ \A b \in Int : (b * f.den <= f.num => b <= r) /\ (f.num <= b * f.den => r <= b)
    BY <2>1, <2>2, RoundedNear, RoundedBounds
  <2>4. IsFiniteSet(In(led, s)) /\ n \in Nat /\ (n = 0 <=> In(led, s) = {})
        /\ \A k \in In(led, s) : led[k].cost \in Int
    <3>1. Len(led) \in Nat /\ \A k \in 1..Len(led) : led[k] \in Movement
      BY LenProperties, ElementOfSeq
    <3>2. IsFiniteSet(1..Len(led)) /\ In(led, s) \subseteq 1..Len(led)
      BY <3>1, FS_Interval, 1 \in Int, Len(led) \in Int DEF In
    <3>3. QED
      BY <3>1, <3>2, FS_Subset, FS_CardinalityType, FS_EmptySet DEF Movement
  <2> HIDE DEF n, f
  <2>5. CASE In(led, s) = {}
    <3>1. f.num = 0 /\ n = 0
      BY <2>1, <2>4, <2>5 DEF Valued, f
    <3>2. 0 <= r /\ r <= 0
      <4>1. 0 * f.den = 0 /\ 0 \in Int
        BY <2>1, SMT
      <4>2. QED
        BY <2>3, <3>1, <4>1
    <3>3. r = 0 /\ 2 * (r * f.den - f.num) <= n * f.den /\ 2 * (f.num - r * f.den) <= n * f.den
      BY <2>1, <2>3, <3>1, <3>2, SMT
    <3>4. QED
      BY <2>1, <2>5, <3>1, <3>3 DEF Valued, Near, f, n
  <2>6. CASE In(led, s) # {}
    <3>1. n >= 1 /\ n \in Int
      BY <2>4, <2>6, SMT
    <3>2. 1 * f.den <= n * f.den /\ 1 * f.den = f.den /\ n * f.den \in Int
      BY <2>1, <3>1, TimesMonotone, SMT
    <3>3. 2 * (r * f.den - f.num) <= n * f.den /\ 2 * (f.num - r * f.den) <= n * f.den
      <4> DEFINE den == f.den
                 num == f.num
                 x == r * den
                 y == n * den
      <4>1. /\ den \in Int /\ num \in Int /\ x \in Int /\ y \in Int
            /\ 2 * (x - num) <= den /\ 2 * (num - x) <= den /\ den <= y
        BY <2>1, <2>3, <3>2, SMT
      <4> HIDE DEF den, num, x, y
      <4>2. 2 * (x - num) <= y /\ 2 * (num - x) <= y
        BY ONLY <4>1, SMT
      <4>3. QED
        BY <4>2 DEF den, num, x, y
    <3>4. WithinCosts(led, s, r, 1)
      <4>1. PICK k \in In(led, s) : led[k].cost * f.den <= f.num
        BY <2>1, <2>6 DEF Valued, WithinCosts, f
      <4>2. PICK j \in In(led, s) : f.num <= led[j].cost * f.den
        BY <2>1, <2>6 DEF Valued, WithinCosts, f
      <4>3. led[k].cost <= r /\ r <= led[j].cost /\ led[k].cost \in Int /\ led[j].cost \in Int
        BY <2>3, <2>4, <4>1, <4>2
      <4>4. led[k].cost * 1 <= r /\ r <= led[j].cost * 1
        BY <2>3, <4>3, SMT
      <4>5. QED
        BY <4>4 DEF WithinCosts
    <3>5. QED
      BY <2>1, <2>6, <3>3, <3>4 DEF Valued, Near, f, n
  <2>7. QED
    BY <2>5, <2>6
<1>3. QED
  BY <1>1, <1>2 DEF Sound

AverageInv == IInv /\ \A s \in Slots : Sound(movements, balances[s], s)

\* One row keeps every slot's average sound.
LEMMA OneRowSound ==
  ASSUME AverageInv, NEW m, OneRow(m)
  PROVE  AverageInv'
<1>1. /\ movements \in Seq(Movement) /\ m \in Movement /\ balances \in [Slots -> Row]
      /\ m.slot \in Slots
      /\ movements' = Append(movements, m)
      /\ balances' = [balances EXCEPT ![m.slot] = Updated(@, m.qty, m.cost)]
  BY DEF AverageInv, IInv, TypeOK, OneRow, Post, Movement
<1>2. IInv'
  BY PostPreserves DEF OneRow, AverageInv
<1>3. ASSUME NEW s \in Slots PROVE Sound(movements', balances'[s], s)
  <2>1. balances'[s] = IF m.slot = s THEN Updated(balances[s], m.qty, m.cost) ELSE balances[s]
    BY <1>1
  <2>2. Sound(movements, balances[s], s) /\ balances[s] \in Row
    BY <1>1 DEF AverageInv
  <2>3. QED
    BY <1>1, <2>1, <2>2, SoundAppend
<1>4. QED
  BY <1>2, <1>3 DEF AverageInv

\* Two rows are one after the other, as their slots differ.
LEMMA TwoRowsSound ==
  ASSUME AverageInv, NEW a, NEW b, TwoRows(a, b), LegsPaired'
  PROVE  AverageInv'
<1> DEFINE one == Append(movements, a)
<1>1. /\ movements \in Seq(Movement) /\ a \in Movement /\ b \in Movement
      /\ balances \in [Slots -> Row]
      /\ a.slot \in Slots /\ b.slot \in Slots /\ a.slot # b.slot
      /\ movements' = Append(one, b)
      /\ balances' = [balances EXCEPT ![a.slot] = Updated(@, a.qty, a.cost),
                                      ![b.slot] = Updated(@, b.qty, b.cost)]
  BY DEF AverageInv, IInv, TypeOK, TwoRows, PostPair, Movement
<1>2. IInv'
  BY PostPairPreserves DEF TwoRows, AverageInv, IInv
<1>3. one \in Seq(Movement)
  BY <1>1, AppendProperties
<1>4. ASSUME NEW s \in Slots PROVE Sound(movements', balances'[s], s)
  <2> DEFINE x == IF a.slot = s THEN Updated(balances[s], a.qty, a.cost) ELSE balances[s]
             y == IF b.slot = s THEN Updated(x, b.qty, b.cost) ELSE x
  <2>1. balances'[s] = y
    BY <1>1
  <2>2. Sound(movements, balances[s], s) /\ balances[s] \in Row
    BY <1>1 DEF AverageInv
  <2>3. x \in Row
    BY <1>1, <2>2, UpdatedType DEF Movement
  <2>4. Sound(one, x, s)
    BY <1>1, <2>2, SoundAppend
  <2> HIDE DEF x, one
  <2>5. Sound(Append(one, b), y, s)
    BY <1>1, <1>3, <2>3, <2>4, SoundAppend
  <2>6. QED
    BY <1>1, <2>1, <2>5
<1>5. QED
  BY <1>2, <1>4 DEF AverageInv

\* An empty ledger has nothing to average.
LEMMA EmptyAverageInv ==
  ASSUME movements = <<>>, balances = [s \in Slots |-> NoRow], allowNegative \in BOOLEAN
  PROVE  AverageInv
<1>1. IInv
  BY EmptyIInv
<1>2. ASSUME NEW s \in Slots PROVE Sound(movements, balances[s], s)
  <2>1. /\ movements = <<>> /\ movements \in Seq(Movement) /\ Len(movements) = 0
        /\ balances[s] = NoRow
    BY EmptySeq
  <2>2. 1..Len(movements) = {} /\ 0 \in 0..Len(movements)
    BY <2>1, SMT
  <2>3. In(movements, s) = {} /\ Cardinality(In(movements, s)) = 0
    BY <2>2, FS_EmptySet DEF In
  <2>4. Final(movements, s) = NothingReplayed
    BY <2>1, ReplayRuns DEF Final
  <2>5. LedgerQty(movements, s) = 0
    BY <2>1, LedgerQtyEmpty
  <2>6. QED
    BY <2>1, <2>3, <2>4, <2>5, SMT
       DEF Sound, Counted, Valued, Near, NothingReplayed, NoRow
<1>3. QED
  BY <1>1, <1>2 DEF AverageInv

\* The average of a slot that was never short lies between the lowest and the highest unit
\* cost at which goods entered it, and recompute_balance would store the same one but for
\* rounding: half a unit for every receipt and half a unit more.
THEOREM LedgerAverageSound == Spec => []AverageSound
<1>1. Init => AverageInv
  BY EmptyAverageInv, Zenon DEF Init
<1>2. AverageInv /\ [Next]_vars => AverageInv'
  <2> SUFFICES ASSUME AverageInv, [Next]_vars PROVE AverageInv'
    OBVIOUS
  <2>0. IInv
    BY DEF AverageInv
  <2>1. CASE \E m : OneRow(m)
    BY <2>1, OneRowSound
  <2>2. CASE \E a, b : TwoRows(a, b) /\ LegsPaired'
    BY <2>2, TwoRowsSound
  <2>3. ASSUME NEW t \in Slots, Recompute(t) PROVE AverageInv'
    <3>1. IInv'
      BY <2>0, <2>3, RecomputePreserves
    <3>2. ASSUME NEW s \in Slots PROVE Sound(movements', balances'[s], s)
      <4>1. /\ movements \in Seq(Movement) /\ balances \in [Slots -> Row] /\ movements' = movements
            /\ balances' = [balances EXCEPT ![t] =
                   [exists |-> TRUE, qty |-> LedgerQty(movements, t),
                    avg |-> LedgerAverage(movements, t)]]
        BY <2>0, <2>3 DEF IInv, TypeOK, Recompute
      <4>2. Sound(movements, balances[s], s) /\ balances[s] \in Row
        BY <4>1 DEF AverageInv
      <4>3. CASE s = t
        BY <4>1, <4>2, <4>3, RecomputedSound
      <4>4. CASE s # t
        BY <4>1, <4>2, <4>4
      <4>5. QED
        BY <4>3, <4>4
    <3>3. QED
      BY <3>1, <3>2 DEF AverageInv
  <2>4. CASE movements' = movements /\ balances' = balances
    <3>1. IInv'
      BY <2>0, NextIInv
    <3>2. QED
      BY <2>4, <3>1 DEF AverageInv
  <2>5. QED
    BY <2>0, <2>1, <2>2, <2>3, <2>4, StepKinds DEF UpdateSettings, vars
<1>3. AverageInv => AverageSound
  <2> SUFFICES ASSUME AverageInv, NEW s \in Slots, ~EverShort(s)
               PROVE  /\ Inbound(s) # {} =>
                           /\ \E n \in Inbound(s) : movements[n].cost <= balances[s].avg
                           /\ \E n \in Inbound(s) : movements[n].cost >= balances[s].avg
                      /\ LET gap == LedgerAverage(movements, s) - balances[s].avg
                             bound == Cardinality(Inbound(s)) + 1
                         IN  2 * gap <= bound /\ -2 * gap <= bound
    BY DEF AverageSound, AverageWithinCosts, RecomputeAgrees
  <2> DEFINE n == Cardinality(In(movements, s))
             f == Final(movements, s)
             a == balances[s].avg
             r == LedgerAverage(movements, s)
  <2>1. /\ movements \in Seq(Movement) /\ balances[s] \in Row
        /\ Sound(movements, balances[s], s)
        /\ Inbound(s) = In(movements, s) /\ ~Short(movements, s)
    BY DEF AverageInv, IInv, TypeOK, Inbound, In, EverShort, Short
  <2>2. Valued(movements, balances[s], s) /\ a \in Int
    BY <2>1 DEF Sound, Row
  <2>3. Len(movements) \in Nat /\ \A k \in 1..Len(movements) : movements[k].cost \in Int
    BY <2>1, ReplayRuns DEF Movement
  <2>4. IsFiniteSet(In(movements, s)) /\ In(movements, s) \subseteq 1..Len(movements)
    BY <2>3, FS_Interval, FS_Subset, 1 \in Int, Len(movements) \in Int DEF In
  <2>5. n \in Nat
    BY <2>4, FS_CardinalityType
  <2>6. In(movements, s) # {} => /\ \E k \in In(movements, s) : movements[k].cost <= a
                                 /\ \E k \in In(movements, s) : movements[k].cost >= a
    <3>1. \A k \in In(movements, s) : movements[k].cost * 1 = movements[k].cost
                                      /\ movements[k].cost \in Int
      BY <2>3, <2>4, SMT
    <3>2. QED
      BY <2>2, <3>1 DEF Valued, WithinCosts
  <2>7. 2 * (r - a) <= n + 1 /\ 2 * (a - r) <= n + 1
    <3>1. f.num \in Int /\ f.den \in Int /\ f.den > 0
      BY <2>1, <2>2, FinalType DEF Valued
    <3>2. r = Rounded(f.num, f.den)
      BY LedgerAverageFinal
    <3>3. 2 * (a * f.den - f.num) <= n * f.den /\ 2 * (f.num - a * f.den) <= n * f.den
      BY <2>2 DEF Valued, Near
    <3> DEFINE num == f.num
               den == f.den
    <3> HIDE DEF r, f, n, a
    <3>4. r \in Int /\ 2 * (r * den - num) <= den /\ 2 * (num - r * den) <= den
      BY <3>1, <3>2, RoundedNear
    <3>5. num \in Int /\ den \in Int /\ den > 0
      BY <3>1
    <3>6. 2 * (a * den - num) <= n * den /\ 2 * (num - a * den) <= n * den
      BY <3>3
    <3> HIDE DEF num, den
    <3>7. r * den \in Int /\ a * den \in Int /\ n * den \in Int
      BY <2>2, <2>5, <3>4, <3>5, SMT
    <3>8. 2 * (r * den - a * den) <= n * den + den /\ 2 * (a * den - r * den) <= n * den + den
      BY <3>4, <3>5, <3>6, <3>7, SMT
    <3>9. ASSUME NEW x \in Int, NEW y \in Int, 2 * (x * den - y * den) <= n * den + den
          PROVE  2 * (x - y) <= n + 1
      <4>1. n + 2 <= 2 * (x - y) => (n + 2) * den <= (2 * (x - y)) * den
        BY <2>5, <3>5, TimesMonotone, n + 2 \in Int, 2 * (x - y) \in Int
      <4>2. (2 * (x - y)) * den = 2 * (x * den - y * den) /\ (n + 2) * den = n * den + den + den
        BY <2>5, <3>5, SMT
      <4>3. x * den \in Int /\ y * den \in Int
        BY <3>5, SMT
      <4>4. QED
        BY <2>5, <3>5, <3>7, <3>9, <4>1, <4>2, <4>3, SMT
    <3>10. QED
      BY <2>2, <3>4, <3>8, <3>9
  <2>8. r \in Int
    BY <2>1, LedgerAverageType
  <2> HIDE DEF r, n, a
  <2>9. 2 * (r - a) <= n + 1 /\ -2 * (r - a) <= n + 1
    BY <2>2, <2>5, <2>7, <2>8, SMT
  <2>10. QED
    BY <2>1, <2>6, <2>9 DEF r, n, a
<1>4. QED
  BY <1>1, <1>2, <1>3, PTL DEF Spec

-----------------------------------------------------------------------------
(* The ledger implements the stock book                                    *)

\* The slots of a ledger and of the same ledger with one more row.
LEMMA SlotsOfPrefix ==
  ASSUME NEW f, NEW g, NEW n \in Nat, \A k \in 1..n : g[k] = f[k]
  PROVE  {g[k].slot : k \in 1..(n+1)} = {f[k].slot : k \in 1..n} \cup {g[n+1].slot}
<1>1. 1..(n+1) = (1..n) \cup {n+1}
  BY SMT
<1>2. {g[k].slot : k \in 1..n} = {f[k].slot : k \in 1..n}
  OBVIOUS
<1>3. {g[k].slot : k \in 1..(n+1)} = {g[k].slot : k \in 1..n} \cup {g[n+1].slot}
  BY <1>1, Zenon
<1>4. QED
  BY <1>2, <1>3

\* What the book reads of a state that satisfies IInv.
LEMMA HeldMoved ==
  ASSUME IInv
  PROVE  /\ \A s \in Slots : Held[s] = balances[s].qty /\ Held[s] \in Int
         /\ \A s \in Slots : ~balances[s].exists => s \notin Moved
         /\ Held \in [Slots -> Int]
<1>1. \A s \in Slots : LedgerQty(movements, s) = balances[s].qty
                       /\ LedgerQty(movements, s) \in Int
  BY RowTypes
<1>2. QED
  BY <1>1 DEF Held, Moved, IInv, TypeOK

\* One row changes the quantity of one slot.
LEMMA OneRowChanges ==
  ASSUME IInv, NEW m, OneRow(m)
  PROVE  m.slot \in Slots /\ Book!Change(m.slot)
<1> DEFINE s == m.slot
           n == Len(movements)
<1>1. m \in Movement /\ s \in Slots /\ m.qty \in Int /\ m.qty # 0
  BY DEF OneRow, Movement
<1>2. /\ IInv'
      /\ \A t \in Slots : LedgerQty(movements, t)' = LedgerQty(movements, t) + Contribution(m, t)
      /\ Len(movements') = n + 1 /\ n \in Nat
      /\ \A k \in 1..n : movements'[k] = movements[k]
      /\ movements'[n + 1] = m
  BY <1>1, PostPreserves, LenProperties DEF OneRow, IInv, TypeOK
<1>3. /\ \A t \in Slots : Held'[t] = Held[t] + Contribution(m, t)
      /\ Held' \in [Slots -> Int]
  <2>1. \A t \in Slots : Held'[t] = LedgerQty(movements, t)' /\ Held[t] = LedgerQty(movements, t)
    BY DEF Held
  <2>2. \A u \in Slots : Held'[u] \in Int
    BY <1>1, <1>2, <2>1, HeldMoved DEF Contribution
  <2>3. Held' \in [Slots -> Int]
    BY <2>2 DEF Held
  <2>4. QED
    BY <1>2, <2>1, <2>3
<1>4. Moved' = Moved \cup {s}
  <2>1. Moved = {movements[k].slot : k \in 1..n}
        /\ Moved' = {movements'[k].slot : k \in 1..(n+1)}
    BY <1>2 DEF Moved
  <2>2. {movements'[k].slot : k \in 1..(n+1)}
          = {movements[k].slot : k \in 1..n} \cup {movements'[n+1].slot}
    BY <1>2, SlotsOfPrefix
  <2>3. QED
    BY <1>2, <2>1, <2>2
<1>5. /\ Held'[s] = Held[s] + m.qty
      /\ \A t \in Slots \ {s} : Held'[t] = Held[t]
  BY <1>1, <1>3, HeldMoved DEF Contribution
<1>6. Held'[s] >= 0 \/ allowNegative \/ s \notin Moved
  BY <1>1, <1>5, HeldMoved DEF OneRow, MayApply
<1>7. Held'[s] # Held[s]
  BY <1>1, <1>5, HeldMoved
<1>8. QED
  BY <1>1, <1>3, <1>4, <1>5, <1>6, <1>7
     DEF OneRow, Book!Change, Book!OnlyIn, Book!Covered, Book!Slots, Slots

\* Two rows move a quantity from one slot to another.
LEMMA TwoRowsMove ==
  ASSUME IInv, LegsPaired', NEW a, NEW b, TwoRows(a, b)
  PROVE  a.slot \in Slots /\ b.slot \in Slots /\ Book!Move(a.slot, b.slot)
<1> DEFINE s == a.slot
           t == b.slot
           n == Len(movements)
<1>1. /\ a \in Movement /\ s \in Slots /\ a.qty \in Int /\ a.qty # 0
      /\ b \in Movement /\ t \in Slots /\ b.qty = -a.qty /\ s # t /\ s[2] = t[2]
  BY DEF TwoRows, Movement
<1>2. /\ TypeOK' /\ BalanceMatchesLedger'
      /\ \A u \in Slots : LedgerQty(movements, u)' =
             LedgerQty(movements, u) + Contribution(a, u) + Contribution(b, u)
      /\ Len(movements') = n + 2 /\ n \in Nat
      /\ \A k \in 1..n : movements'[k] = movements[k]
      /\ movements'[n + 1] = a
      /\ movements'[n + 2] = b
  BY <1>1, PostPairPreserves, LenProperties DEF TwoRows, IInv, TypeOK
<1>3. IInv'
  BY <1>2 DEF IInv
<1>4. /\ \A u \in Slots : Held'[u] = Held[u] + Contribution(a, u) + Contribution(b, u)
      /\ Held' \in [Slots -> Int]
  <2>1. \A u \in Slots : Held'[u] = LedgerQty(movements, u)' /\ Held[u] = LedgerQty(movements, u)
    BY DEF Held
  <2>2. \A u \in Slots : Held'[u] \in Int
    BY <1>1, <1>2, <2>1, HeldMoved DEF Contribution
  <2>3. Held' \in [Slots -> Int]
    BY <2>2 DEF Held
  <2>4. QED
    BY <1>2, <2>1, <2>3
<1>5. Moved' = Moved \cup {s, t}
  <2>1. Moved = {movements[k].slot : k \in 1..n}
        /\ Moved' = {movements'[k].slot : k \in 1..(n+2)}
    BY <1>2 DEF Moved
  <2>2. {movements'[k].slot : k \in 1..(n+1)}
          = {movements[k].slot : k \in 1..n} \cup {s}
    BY <1>2, SlotsOfPrefix
  <2>3. {movements'[k].slot : k \in 1..((n+1)+1)}
          = {movements'[k].slot : k \in 1..(n+1)} \cup {movements'[(n+1)+1].slot}
    BY <1>2, SlotsOfPrefix
  <2>4. (n+1) + 1 = n + 2
    BY <1>2
  <2>5. QED
    BY <1>2, <2>1, <2>2, <2>3, <2>4
<1>6. /\ Held'[s] = Held[s] + a.qty
      /\ Held'[t] = Held[t] - a.qty
      /\ \A u \in Slots \ {s, t} : Held'[u] = Held[u]
  BY <1>1, <1>4, HeldMoved DEF Contribution
<1>7. (Held'[s] >= 0 \/ allowNegative) /\ (Held'[t] >= 0 \/ allowNegative)
  BY <1>1, <1>6, HeldMoved DEF TwoRows, MayApply
<1>8. Held'[s] # Held[s] /\ Held'[s] + Held'[t] = Held[s] + Held[t]
  BY <1>1, <1>6, HeldMoved
<1>9. QED
  BY <1>1, <1>4, <1>5, <1>6, <1>7, <1>8
     DEF TwoRows, Book!Move, Book!OnlyIn, Book!Covered, Book!Slots, Slots

\* Every step of the ledger is a step of the book or a stutter.
LEMMA StepImplementsBook == IInv /\ [Next]_vars => [Book!Next]_(Book!vars)
<1> SUFFICES ASSUME IInv, [Next]_vars PROVE [Book!Next]_(Book!vars)
  OBVIOUS
<1>1. Book!Slots = Slots
  BY DEF Book!Slots, Slots
<1>2. CASE \E m : OneRow(m)
  BY <1>1, <1>2, OneRowChanges DEF Book!Next
<1>3. CASE \E a, b : TwoRows(a, b) /\ LegsPaired'
  BY <1>1, <1>3, TwoRowsMove DEF Book!Next
<1>4. CASE \E s \in Slots : Recompute(s)
  BY <1>4 DEF Recompute, Book!vars, Held, Moved
<1>5. CASE UpdateSettings
  BY <1>5 DEF UpdateSettings, Book!Next, Book!SetPolicy, Held, Moved
<1>6. CASE UNCHANGED vars
  BY <1>6 DEF vars, Book!vars, Held, Moved
<1>7. QED
  BY <1>2, <1>3, <1>4, <1>5, <1>6, StepKinds

\* The empty ledger is the book's initial state.
LEMMA InitImplementsBook == Init => Book!Init
<1> SUFFICES ASSUME Init PROVE Book!Init
  OBVIOUS
<1>1. movements = <<>> /\ Len(movements) = 0 /\ allowNegative = FALSE
  BY EmptySeq DEF Init
<1>2. Held = [s \in Slots |-> 0]
  BY <1>1, LedgerQtyEmpty DEF Held
<1>3. Moved = {}
  <2>1. 1..Len(movements) = {}
    BY <1>1, SMT
  <2>2. QED
    BY <2>1, Zenon DEF Moved
<1>4. QED
  BY <1>1, <1>2, <1>3 DEF Book!Init, Book!Slots, Slots

\* The ledger implements the stock book: a slot of the ledger goes short only where the
\* policy allows it, or where the override meets a slot that was never touched, and
\* transfers and their reversals move goods without making or losing any.
THEOREM LedgerImplementsBook == Spec => ImplementsBook
BY InitImplementsBook, StepImplementsBook, SpecIInv, PTL DEF Spec, ImplementsBook, Book!Spec

-----------------------------------------------------------------------------
(* What documents that move stock rely on                                  *)

ReceiptRow(s, q, c) ==
    [slot |-> s, type |-> "RECEIPT", qty |-> q, cost |-> c, ref |-> 0, link |-> "none"]
IssueRow(s, q) ==
    [slot |-> s, type |-> "ISSUE", qty |-> -q, cost |-> balances[s].avg, ref |-> 0,
     link |-> "none"]

NeverShort == \A s \in Slots : ~EverShort(s)

\* What the ledger's rows are worth.
Worth(led) == [k \in 1..Len(led) |-> led[k].qty * led[k].cost]
Value(led) == Total(Worth(led), Len(led))

\* As long as no slot was ever short, goods move at natural costs.
PricedInv ==
    /\ AverageInv
    /\ NeverShort => \A k \in 1..Len(movements) : movements[k].cost >= 0

\* An empty ledger is priced.
LEMMA EmptyPriced ==
  ASSUME movements = <<>>, balances = [s \in Slots |-> NoRow], allowNegative \in BOOLEAN
  PROVE  PricedInv /\ Len(movements) = 0 /\ Value(movements) = 0
<1>1. AverageInv
  BY EmptyAverageInv
<1>2. movements \in Seq(Movement) /\ Len(movements) = 0 /\ 1..Len(movements) = {}
  BY EmptySeq, SMT
<1>3. Worth(movements) \in [1..0 -> Int]
  BY <1>2, SMT DEF Worth
<1>4. Value(movements) = 0
  BY <1>2, <1>3, TotalEmpty DEF Value
<1>5. QED
  BY <1>1, <1>2, <1>4 DEF PricedInv

\* The state of a priced ledger.
LEMMA PricedRows ==
  ASSUME PricedInv
  PROVE  /\ TypeOK
         /\ Len(movements) \in Nat
         /\ \A k \in 1..Len(movements) : movements[k] \in Movement
         /\ \A s \in Slots : balances[s].avg \in Int
         /\ Value(movements) \in Int
<1>1. TypeOK
  BY DEF PricedInv, AverageInv, IInv
<1>2. Len(movements) \in Nat /\ \A k \in 1..Len(movements) : movements[k] \in Movement
  BY <1>1, LenProperties, ElementOfSeq DEF TypeOK
<1>3. \A s \in Slots : balances[s].avg \in Int
  BY <1>1 DEF TypeOK, Row
<1>4. Value(movements) \in Int
  <2>1. \A k \in 1..Len(movements) : movements[k].qty \in Int /\ movements[k].cost \in Int
    BY <1>2 DEF Movement
  <2>2. Worth(movements) \in [1..Len(movements) -> Int]
    BY <2>1, SMT DEF Worth
  <2>3. QED
    BY <1>2, <2>2, TotalType DEF Value
<1>5. QED
  BY <1>1, <1>2, <1>3, <1>4

\* As long as no slot was ever short, no average is negative.
LEMMA PricedAverages ==
  ASSUME PricedInv, NeverShort, NEW s \in Slots
  PROVE  balances[s].avg >= 0
<1>1. /\ Sound(movements, balances[s], s) /\ ~Short(movements, s)
      /\ \A k \in 1..Len(movements) : movements[k].cost >= 0
  BY DEF PricedInv, AverageInv, NeverShort, EverShort, Short
<1>2. Valued(movements, balances[s], s)
  BY <1>1 DEF Sound
<1>3. CASE In(movements, s) = {}
  BY <1>2, <1>3 DEF Valued
<1>4. CASE In(movements, s) # {}
  <2>1. PICK k \in In(movements, s) : movements[k].cost * 1 <= balances[s].avg
    BY <1>2, <1>4 DEF Valued, WithinCosts
  <2>2. k \in 1..Len(movements) /\ movements[k] \in Movement /\ balances[s].avg \in Int
    BY PricedRows DEF In
  <2>3. movements[k].cost >= 0 /\ movements[k].cost \in Int
    BY <1>1, <2>2 DEF Movement
  <2>4. QED
    BY <2>1, <2>2, <2>3, SMT
<1>5. QED
  BY <1>3, <1>4

\* One more row, priced itself, leaves the ledger priced.
LEMMA RowPriced ==
  ASSUME PricedInv, NEW m, OneRow(m), NeverShort => m.cost >= 0
  PROVE  /\ PricedInv'
         /\ Len(movements') = Len(movements) + 1
         /\ \A k \in 1..Len(movements) : movements'[k] = movements[k]
         /\ movements'[Len(movements) + 1] = m
         /\ Value(movements') = Value(movements) + m.qty * m.cost
         /\ NeverShort' => NeverShort
<1>1. AverageInv'
  BY OneRowSound DEF PricedInv
<1>2. movements \in Seq(Movement) /\ m \in Movement /\ movements' = Append(movements, m)
  BY DEF PricedInv, AverageInv, IInv, TypeOK, OneRow, Post
<1>3. /\ movements' \in Seq(Movement) /\ Len(movements) \in Nat
      /\ Len(movements') = Len(movements) + 1
      /\ \A k \in 1..Len(movements) : movements'[k] = movements[k]
      /\ movements'[Len(movements) + 1] = m
  BY <1>2, AppendProperties, LenProperties
<1>4. NeverShort' => NeverShort
  <2>1. ASSUME NEW s \in Slots, EverShort(s) PROVE EverShort(s)'
    <3>1. Short(movements, s)
      BY <2>1 DEF EverShort, Short
    <3>2. Short(movements', s)
      BY <1>2, <3>1, ShortAppend
    <3>3. QED
      BY <3>2 DEF EverShort, Short
  <2>2. QED
    BY <2>1 DEF NeverShort
<1>5. PricedInv'
  <2>1. ASSUME NeverShort', NEW k \in 1..Len(movements') PROVE movements'[k].cost >= 0
    <3>1. NeverShort /\ m.cost >= 0
      BY <1>4, <2>1
    <3>2. k \in 1..Len(movements) \/ k = Len(movements) + 1
      BY <1>3
    <3>3. QED
      BY <1>3, <3>1, <3>2 DEF PricedInv
  <2>2. QED
    BY <1>1, <2>1 DEF PricedInv
<1>6. Value(movements') = Value(movements) + m.qty * m.cost
  <2> DEFINE n == Len(movements)
             f == Worth(movements)
             g == Worth(movements')
             v == m.qty * m.cost
  <2>1. \A led \in Seq(Movement) : Worth(led) \in [1..Len(led) -> Int]
    <3>1. ASSUME NEW led \in Seq(Movement), NEW k \in 1..Len(led)
          PROVE  led[k].qty * led[k].cost \in Int
      <4>1. led[k] \in Movement
        BY ElementOfSeq
      <4>2. led[k].qty \in Int /\ led[k].cost \in Int
        BY <4>1 DEF Movement
      <4>3. QED
        BY <4>2, SMT
    <3>2. QED
      BY <3>1 DEF Worth
  <2>2. f \in [1..n -> Int] /\ g \in [1..(n+1) -> Int]
    BY <1>2, <1>3, <2>1
  <2>3. (\A k \in 1..n : f[k] = g[k]) /\ g[n+1] = v /\ n \in Nat
    <3>1. 1..n \subseteq 1..(n+1) /\ n+1 \in 1..(n+1)
      BY <1>3, SMT
    <3>2. QED
      BY <1>3, <3>1 DEF Worth
  <2>4. Value(movements) = Total(f, n) /\ Value(movements') = Total(g, n+1)
    BY <1>3 DEF Value
  <2> HIDE DEF f, g, n, v
  <2>5. Total(g, n+1) = Total(f, n) + g[n+1]
    BY ONLY <2>2, <2>3, TotalStep
  <2>6. QED
    BY <2>3, <2>4, <2>5 DEF v
<1>7. QED
  BY <1>3, <1>4, <1>5, <1>6

\* Where nothing of stock changes, nothing of this does.
LEMMA PricedStays ==
  ASSUME PricedInv, UNCHANGED vars
  PROVE  PricedInv' /\ (NeverShort' <=> NeverShort)
<1>1. IInv'
  BY NextIInv DEF PricedInv, AverageInv
<1>2. movements' = movements /\ balances' = balances
  BY DEF vars
<1>3. (NeverShort' <=> NeverShort)
  BY <1>2 DEF NeverShort, EverShort
<1>4. AverageInv'
  BY <1>1, <1>2 DEF PricedInv, AverageInv
<1>5. QED
  BY <1>2, <1>3, <1>4 DEF PricedInv

\* The rows that receive_stock, issue_stock and reverse_movement write for documents.
LEMMA DocumentRows ==
  ASSUME PricedInv
  PROVE  /\ \A s \in Slots, q \in Nat \ {0}, c \in Int : Receive(s, q, c) => OneRow(ReceiptRow(s, q, c))
         /\ \A s \in Slots, q \in Nat \ {0} :
               \A a : Issue(s, q, a) => OneRow(IssueRow(s, q))
         /\ \A n \in 1..Len(movements) :
               Reverse(n) /\ movements[n].link # "inventory_transfer" => OneRow(ReversalOf(n))
<1>1. IInv
  BY DEF PricedInv, AverageInv
<1>2. ASSUME NEW s \in Slots, NEW q \in Nat \ {0}, NEW c \in Int, Receive(s, q, c)
      PROVE  OneRow(ReceiptRow(s, q, c))
  <2>1. ReceiptRow(s, q, c) \in Movement
    BY SMT DEF ReceiptRow, Movement, MovementTypes
  <2>2. QED
    BY <1>2, <2>1 DEF OneRow, Points, OfTransfer, Receive, ReceiptRow
<1>3. ASSUME NEW s \in Slots, NEW q \in Nat \ {0}, NEW a, Issue(s, q, a)
      PROVE  OneRow(IssueRow(s, q))
  <2>1. IssueRow(s, q) \in Movement
    BY <1>1, RowTypes, SMT DEF IssueRow, Movement, MovementTypes
  <2>2. MayApply(balances[s], -q, TRUE)
    BY <1>3 DEF Issue, MayApply
  <2>3. QED
    BY <1>3, <2>1, <2>2 DEF OneRow, Points, OfTransfer, Issue, IssueRow
<1>4. ASSUME NEW n \in 1..Len(movements), Reverse(n), movements[n].link # "inventory_transfer"
      PROVE  OneRow(ReversalOf(n))
  <2>1. /\ ReversalOf(n) \in Movement /\ ReversalOf(n).slot = movements[n].slot
        /\ ReversalOf(n).qty = -movements[n].qty /\ ReversalOf(n).link = "reversal"
        /\ ReversalOf(n).ref = n
    BY <1>1, ReversalType DEF ReversalOf
  <2>2. Post(ReversalOf(n)) /\ UNCHANGED allowNegative
        /\ MayApply(balances[movements[n].slot], -movements[n].qty, FALSE)
    BY <1>4 DEF Reverse
  <2>3. Points(movements, ReversalOf(n)) /\ ~OfTransfer(movements, ReversalOf(n))
    BY <1>4, <2>1 DEF Points, OfTransfer
  <2>4. QED
    BY <2>1, <2>2, <2>3 DEF OneRow
<1>5. QED
  BY <1>2, <1>3, <1>4
=============================================================================
