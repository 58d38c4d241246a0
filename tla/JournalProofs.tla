--------------------------- MODULE JournalProofs ---------------------------
(***************************************************************************)
(* The calendar: that a closed year stays shut, that the periods of a year *)
(* tile it, and that the rows keep their types, for all years, splits and  *)
(* month lengths.                                                          *)
(*                                                                         *)
(* The invariant adds to the first what generate_periods and reopen_period *)
(* rely on: a year closed with periods has some, so no open ones are       *)
(* added, and a REOPENED period was approved.  For the second, both ways   *)
(* of splitting a year are one: boundaries that never step back, each part *)
(* ending the day before the next begins.  A date has a part because a     *)
(* least boundary lies behind it.                                          *)
(*                                                                         *)
(* The journal: that an entry is REVERSED exactly when one posted entry    *)
(* undoes it, that the journal implements the general ledger, that a       *)
(* document's entry stands exactly while the document does, and that the   *)
(* reports agree with each other on every date, for all charts of          *)
(* accounts, calendars, lines, keys and lengths of the journal.            *)
(*                                                                         *)
(* Every step of the journal does one of four things to the entries        *)
(* (StepKinds): a new one, the posting of a draft, a reversal, or nothing. *)
(***************************************************************************)
EXTENDS Journal, RunningTotalsTheorems, SequenceTheorems

-----------------------------------------------------------------------------
(* The calendar                                                            *)

CalendarRows ==
    /\ years \in Seq(Year)
    /\ periods \in Seq(Period)
    /\ \A y \in 1..Len(years) : years[y].first < years[y].last

ClosedWithPeriods ==
    \A y \in 1..Len(years) :
        years[y].status = "CLOSED" /\ ~years[y].closedEmpty => PeriodsOf(y) # {}

ReopenedApproved ==
    \A p \in 1..Len(periods) : periods[p].status = "REOPENED" => p \in reopenings

\* Periods of a year that does not exist do not exist either.
PeriodsHaveYears == \A p \in 1..Len(periods) : periods[p].year \in 1..Len(years)

CalendarInv ==
    CalendarRows /\ PeriodsHaveYears /\ ClosedWithPeriods /\ ReopenedApproved /\ ClosedYearIsShut

-----------------------------------------------------------------------------
(* Splitting                                                               *)

\* A later date is in no earlier month.
LEMMA MonthsGrow ==
    ASSUME NEW a \in Nat, NEW b \in Nat, a <= b
    PROVE  Month(a) \in Nat /\ Month(b) \in Nat /\ Month(a) <= Month(b)
<1> DEFINE x == a \div MonthLength
           y == b \div MonthLength
<1>1. MonthLength \in Nat /\ MonthLength > 0
  BY MonthLengthAssumption
<1>2. x \in Nat /\ y \in Nat
  BY <1>1
<1>3. x * MonthLength <= a /\ b < (y + 1) * MonthLength
  BY <1>1, Z3
<1>4. x <= y
  <2> SUFFICES ASSUME y + 1 <= x PROVE FALSE
    BY <1>2
  <2>1. (y + 1) * MonthLength <= x * MonthLength
    BY <1>1, <1>2, Z3
  <2> QED BY <1>1, <1>2, <1>3, <2>1
<1> QED BY <1>2, <1>4 DEF Month

\* A function on 1..m is a sequence.
LEMMA FunctionIsSeq ==
    ASSUME NEW S, NEW m \in Nat, NEW f \in [1..m -> S]
    PROVE  f \in Seq(S)
  BY SeqDef

\* Both ways of splitting yield a sequence of slices that start at natural dates.
LEMMA SplitIsSeq ==
    ASSUME NEW first \in Nat, NEW last \in Nat, first < last, NEW count \in Counts
    PROVE  Split(first, last, count) \in Seq([first: Nat, last: Int])
<1>1. count \in Nat /\ count > 0
  BY CountsAssumption
<1>2. CASE count = 12
  <2> DEFINE spanned == Month(last) - Month(first) + 1
             n == IF spanned < 12 THEN spanned ELSE 12
  <2>1. n \in Nat /\ Month(first) \in Nat
    BY MonthsGrow
  <2>2. ASSUME NEW k \in 1..n
        PROVE  /\ MonthStart(Month(first) + k - 1) \in Nat
               /\ MonthEnd(Month(first) + k - 1) \in Int
    <3>1. Month(first) + k - 1 \in Nat
      BY <2>1
    <3> QED BY <3>1, MonthLengthAssumption DEF MonthStart, MonthEnd
  <2>3. Months(first, last) \in [1..n -> [first: Nat, last: Int]]
    BY <2>2 DEF Months, Slice
  <2>4. Split(first, last, count) = Months(first, last)
    BY <1>2 DEF Split
  <2>5. PICK m \in Nat : Months(first, last) \in [1..m -> [first: Nat, last: Int]]
    BY <2>1, <2>3
  <2> QED BY <2>4, <2>5, FunctionIsSeq
<1>3. CASE count # 12
  <2> DEFINE days == (last - first + 1) \div count
  <2>1. days \in Nat
    BY <1>1
  <2>2. ASSUME NEW k \in 1..count
        PROVE  first + (k - 1) * days \in Nat /\ first + k * days - 1 \in Int
    BY <1>1, <2>1
  <2>3. EqualParts(first, last, count) \in [1..count -> [first: Nat, last: Int]]
    BY <1>1, <2>2 DEF EqualParts, Slice
  <2> QED BY <1>1, <1>3, <2>3, FunctionIsSeq DEF Split
<1> QED BY <1>2, <1>3

-----------------------------------------------------------------------------
\* At the start there are no years.
LEMMA CalendarStarts == CalendarInit => CalendarInv
  BY DEF CalendarInit, CalendarInv, CalendarRows, PeriodsHaveYears, ClosedWithPeriods,
         ReopenedApproved, ClosedYearIsShut, PeriodsOf

\* A new year is open and without periods.
LEMMA CreateYearKeeps ==
    ASSUME CalendarInv, NEW r \in YearRanges, CreateYear(r)
    PROVE  CalendarInv'
<1> DEFINE new == [first |-> r[1], last |-> r[2], status |-> "OPEN", closedEmpty |-> FALSE]
<1>1. new \in Year /\ new.first < new.last
  BY YearRangesAssumption DEF Year
<1>2. years \in Seq(Year) /\ years' = Append(years, new)
      /\ periods' = periods /\ reopenings' = reopenings
  BY DEF CreateYear, CalendarInv, CalendarRows
<1>3. /\ years' \in Seq(Year)
      /\ Len(years') = Len(years) + 1
      /\ \A y \in 1..Len(years) : years'[y] = years[y]
      /\ years'[Len(years) + 1] = new
  BY <1>1, <1>2, AppendProperties
<1>4. Len(years) \in Nat /\ 1..Len(years') = 1..Len(years) \cup {Len(years) + 1}
  BY <1>2, <1>3, LenProperties
<1>5. CalendarRows' /\ PeriodsHaveYears' /\ ReopenedApproved'
  BY <1>1, <1>2, <1>3, <1>4
     DEF CalendarInv, CalendarRows, PeriodsHaveYears, ReopenedApproved
<1>6. ClosedWithPeriods' /\ ClosedYearIsShut'
  BY <1>2, <1>3, <1>4
     DEF CalendarInv, ClosedWithPeriods, ClosedYearIsShut, PeriodsOf
<1> QED BY <1>5, <1>6 DEF CalendarInv

\* Periods are added to years that were not closed with any.
LEMMA GeneratePeriodsKeeps ==
    ASSUME CalendarInv, NEW y \in 1..Len(years), NEW count \in Counts, GeneratePeriods(y, count)
    PROVE  CalendarInv'
<1> DEFINE slices == Split(years[y].first, years[y].last, count)
           new == [k \in 1..Len(slices) |-> [year |-> y, first |-> slices[k].first,
                                             last |-> slices[k].last, status |-> "OPEN"]]
           L == Len(periods)
<1>1. /\ PeriodsOf(y) = {} /\ periods' = periods \o new
      /\ years' = years /\ reopenings' = reopenings
      /\ periods \in Seq(Period) /\ years \in Seq(Year)
  BY DEF GeneratePeriods, CalendarInv, CalendarRows
<1>2. years[y] \in Year /\ years[y].first < years[y].last
  BY <1>1, ElementOfSeq DEF CalendarInv, CalendarRows
<1>3. slices \in Seq([first: Nat, last: Int])
  BY <1>2, SplitIsSeq DEF Year
<1>4. Len(slices) \in Nat /\ \A k \in 1..Len(slices) : slices[k] \in [first: Nat, last: Int]
  BY <1>3, LenProperties, ElementOfSeq
<1>5. y \in Nat \ {0}
  BY <1>1, LenProperties
<1>6. new \in Seq(Period) /\ Len(new) = Len(slices)
  BY <1>4, <1>5 DEF Period, PeriodStatuses
<1>7. L \in Nat /\ Len(new) \in Nat
  BY <1>1, <1>6, LenProperties
<1> HIDE DEF L
<1>8. /\ periods' \in Seq(Period)
      /\ Len(periods') = L + Len(new)
      /\ \A p \in 1..Len(periods') : periods'[p] = IF p <= L THEN periods[p] ELSE new[p - L]
  <2> HIDE DEF new
  <2>1. periods \in Seq(Period) /\ new \in Seq(Period)
    BY <1>1, <1>6
  <2>2. /\ periods \o new \in Seq(Period)
        /\ Len(periods \o new) = L + Len(new)
        /\ \A p \in 1..(L + Len(new)) :
              (periods \o new)[p] = IF p <= L THEN periods[p] ELSE new[p - L]
    BY <2>1, ConcatProperties DEF L
  <2> QED BY <1>1, <2>2, Zenon
<1>9. \A p \in 1..Len(periods') : p <= L => p \in 1..L
  BY <1>7, <1>8
<1>10. \A p \in 1..Len(periods') :
          p > L => periods'[p].year = y /\ periods'[p].status = "OPEN"
  <2> SUFFICES ASSUME NEW p \in 1..Len(periods'), p > L
               PROVE  periods'[p].year = y /\ periods'[p].status = "OPEN"
    OBVIOUS
  <2>1. p - L \in 1..Len(slices) /\ periods'[p] = new[p - L]
    <3> HIDE DEF new, slices
    <3>0. p \in 1..(L + Len(slices))
      BY <1>6, <1>8, Zenon
    <3>1. p - L \in 1..Len(slices) /\ ~(p <= L)
      BY <1>4, <1>7, <3>0
    <3> QED BY <1>8, <3>1
  <2> QED BY <2>1
<1>11. \A p \in 1..L : p \in 1..Len(periods') /\ periods'[p] = periods[p]
  <2> SUFFICES ASSUME NEW p \in 1..L
               PROVE  p \in 1..Len(periods') /\ periods'[p] = periods[p]
    OBVIOUS
  <2>1. p \in 1..Len(periods') /\ p <= L
    BY <1>7, <1>8
  <2> QED BY <1>8, <2>1
<1>12. CalendarRows' /\ PeriodsHaveYears' /\ ReopenedApproved'
  <2>1. CalendarRows'
    BY <1>1, <1>8 DEF CalendarInv, CalendarRows
  <2>2. ASSUME NEW p \in 1..Len(periods')
        PROVE  /\ periods'[p].year \in 1..Len(years')
               /\ periods'[p].status = "REOPENED" => p \in reopenings'
    <3>1. CASE p <= L
      <4>1. p \in 1..L /\ periods'[p] = periods[p]
        BY <1>9, <1>11, <3>1
      <4>2. /\ periods[p].year \in 1..Len(years)
            /\ periods[p].status = "REOPENED" => p \in reopenings
        BY <4>1 DEF CalendarInv, PeriodsHaveYears, ReopenedApproved, L
      <4> QED BY <1>1, <4>1, <4>2, Zenon
    <3>2. CASE p > L
      BY <1>1, <1>10, <3>2
    <3> QED BY <1>7, <1>8, <3>1, <3>2
  <2> QED BY <2>1, <2>2 DEF PeriodsHaveYears, ReopenedApproved
\* The year itself had no periods, so it was not closed with any.
<1>13. ~(years[y].status = "CLOSED" /\ ~years[y].closedEmpty)
  BY <1>1 DEF CalendarInv, ClosedWithPeriods
<1>14. \A z \in 1..Len(years) : z # y => PeriodsOf(z)' = PeriodsOf(z)
  <2> SUFFICES ASSUME NEW z \in 1..Len(years), z # y PROVE PeriodsOf(z)' = PeriodsOf(z)
    OBVIOUS
  <2>1. PeriodsOf(z)' = {p \in 1..Len(periods') : periods'[p].year = z}
    BY DEF PeriodsOf
  <2>2. PeriodsOf(z) = {p \in 1..L : periods[p].year = z}
    BY DEF PeriodsOf, L
  <2>3. \A p \in 1..Len(periods') : p <= L \/ p > L
    BY <1>7, <1>8
  <2> QED BY <1>9, <1>10, <1>11, <2>1, <2>2, <2>3
<1>15. ClosedWithPeriods'
  BY <1>1, <1>13, <1>14 DEF CalendarInv, ClosedWithPeriods
<1>16. ClosedYearIsShut'
  <2> SUFFICES ASSUME NEW z \in 1..Len(years), years[z].status = "CLOSED",
                      ~years[z].closedEmpty, NEW p \in PeriodsOf(z)'
               PROVE  \/ periods'[p].status = "CLOSED"
                      \/ periods'[p].status = "REOPENED" /\ p \in reopenings'
    BY <1>1 DEF ClosedYearIsShut
  <2>1. z # y /\ p \in PeriodsOf(z)
    BY <1>13, <1>14
  <2>2. periods'[p] = periods[p]
    BY <1>11, <2>1 DEF PeriodsOf, L
  <2> QED BY <1>1, <2>1, <2>2 DEF CalendarInv, ClosedYearIsShut
<1> QED BY <1>12, <1>15, <1>16 DEF CalendarInv

\* A period gets another status: what closing and reopening have in common.
LEMMA StatusKeeps ==
    ASSUME CalendarInv, NEW p \in 1..Len(periods), NEW status \in PeriodStatuses,
           periods' = [periods EXCEPT ![p].status = status],
           years' = years, reopenings' = reopenings,
           status = "CLOSED" \/ (status = "REOPENED" /\ p \in reopenings)
    PROVE  CalendarInv'
<1>1. periods \in Seq(Period)
  BY DEF CalendarInv, CalendarRows
<1>2. [periods[p] EXCEPT !.status = status] \in Period
  <2>1. periods[p] \in Period
    BY <1>1, ElementOfSeq
  <2> QED BY <2>1 DEF Period
<1>3. /\ periods' \in Seq(Period)
      /\ Len(periods') = Len(periods)
      /\ \A q \in 1..Len(periods) :
            periods'[q] = IF q = p THEN [periods[p] EXCEPT !.status = status] ELSE periods[q]
  BY <1>1, <1>2, ExceptSeq
<1>4. \A q \in 1..Len(periods) : periods'[q].year = periods[q].year
  BY <1>1, <1>3, ElementOfSeq DEF Period
<1>5. \A y : PeriodsOf(y)' = PeriodsOf(y)
  BY <1>3, <1>4 DEF PeriodsOf
<1>6. periods'[p].status = status
  BY <1>1, <1>3, ElementOfSeq DEF Period
<1>7. CalendarRows' /\ PeriodsHaveYears' /\ ClosedWithPeriods'
  BY <1>3, <1>4, <1>5 DEF CalendarInv, CalendarRows, PeriodsHaveYears, ClosedWithPeriods
<1>8. ReopenedApproved'
  BY <1>3, <1>6 DEF CalendarInv, ReopenedApproved
<1>9. ClosedYearIsShut'
  <2> SUFFICES ASSUME NEW y \in 1..Len(years), years[y].status = "CLOSED",
                      ~years[y].closedEmpty, NEW q \in PeriodsOf(y)
               PROVE  \/ periods'[q].status = "CLOSED"
                      \/ periods'[q].status = "REOPENED" /\ q \in reopenings
    BY <1>5 DEF ClosedYearIsShut
  <2>1. q \in 1..Len(periods)
    BY DEF PeriodsOf
  <2> QED BY <1>3, <1>6, <2>1 DEF CalendarInv, ClosedYearIsShut
<1> QED BY <1>7, <1>8, <1>9 DEF CalendarInv

\* A year is closed with all its periods closed.
LEMMA CloseYearKeeps ==
    ASSUME CalendarInv, NEW y \in 1..Len(years), CloseYear(y)
    PROVE  CalendarInv'
<1> DEFINE new == [years[y] EXCEPT !.status = "CLOSED", !.closedEmpty = PeriodsOf(y) = {}]
<1>1. years \in Seq(Year) /\ periods' = periods /\ reopenings' = reopenings
      /\ years[y].status = "OPEN"
      /\ \A p \in PeriodsOf(y) : periods[p].status = "CLOSED"
  BY DEF CloseYear, CalendarInv, CalendarRows
<1>2. years' = [years EXCEPT ![y] = new]
  BY DEF CloseYear
<1>3. years[y] \in Year
  BY <1>1, ElementOfSeq
<1>4. new \in Year /\ new.first = years[y].first /\ new.last = years[y].last
      /\ new.closedEmpty = (PeriodsOf(y) = {})
  BY <1>3 DEF Year
<1>5. /\ years' \in Seq(Year)
      /\ Len(years') = Len(years)
      /\ \A z \in 1..Len(years) : years'[z] = IF z = y THEN new ELSE years[z]
  <2>1. new \in Year
    BY <1>4
  <2> HIDE DEF new
  <2> QED BY <1>1, <1>2, <2>1, ExceptSeq
<1>6. CalendarRows' /\ PeriodsHaveYears' /\ ReopenedApproved'
  BY <1>1, <1>4, <1>5 DEF CalendarInv, CalendarRows, PeriodsHaveYears, ReopenedApproved
<1>7. \A z : PeriodsOf(z)' = PeriodsOf(z)
  BY <1>1 DEF PeriodsOf
<1>8. ClosedWithPeriods'
  BY <1>4, <1>5, <1>7 DEF CalendarInv, ClosedWithPeriods
<1>9. ClosedYearIsShut'
  BY <1>1, <1>5, <1>7 DEF CalendarInv, ClosedYearIsShut
<1> QED BY <1>6, <1>8, <1>9 DEF CalendarInv

\* Every step keeps the invariant.
LEMMA CalendarStep ==
    ASSUME CalendarInv, [CalendarNext]_calendar
    PROVE  CalendarInv'
<1>1. ASSUME NEW r \in YearRanges, CreateYear(r) PROVE CalendarInv'
  BY <1>1, CreateYearKeeps
<1>2. ASSUME NEW y \in 1..Len(years), NEW count \in Counts, GeneratePeriods(y, count)
      PROVE  CalendarInv'
  BY <1>2, GeneratePeriodsKeeps
<1>3. ASSUME NEW p \in 1..Len(periods), ClosePeriod(p) PROVE CalendarInv'
  BY <1>3, StatusKeeps DEF ClosePeriod, PeriodStatuses
<1>4. ASSUME NEW p \in 1..Len(periods), ApproveReopening(p) PROVE CalendarInv'
  BY <1>4 DEF ApproveReopening, CalendarInv, CalendarRows, PeriodsHaveYears,
              ClosedWithPeriods, ReopenedApproved, ClosedYearIsShut, PeriodsOf
<1>5. ASSUME NEW p \in 1..Len(periods), ReopenPeriod(p) PROVE CalendarInv'
  BY <1>5, StatusKeeps DEF ReopenPeriod, PeriodStatuses
<1>6. ASSUME NEW y \in 1..Len(years), CloseYear(y) PROVE CalendarInv'
  BY <1>6, CloseYearKeeps
<1>7. CASE UNCHANGED calendar
  BY <1>7 DEF calendar, CalendarInv, CalendarRows, PeriodsHaveYears,
              ClosedWithPeriods, ReopenedApproved, ClosedYearIsShut, PeriodsOf
<1> QED BY <1>1, <1>2, <1>3, <1>4, <1>5, <1>6, <1>7 DEF CalendarNext

\* A closed year is open to postings only through a period somebody approved reopening, or
\* because it was closed before it had periods: for all years, splits and month lengths.
THEOREM ClosedYearStaysShut == CalendarSpec => []ClosedYearIsShut
<1>1. CalendarInv => ClosedYearIsShut
  BY DEF CalendarInv
<1> QED BY <1>1, CalendarStarts, CalendarStep, PTL DEF CalendarSpec

-----------------------------------------------------------------------------
(* Tiling                                                                  *)

\* Slices f cover each date from first to last once, and no other date.
Tiling(f, first, last) ==
    /\ \A d \in first..last : \E k \in 1..Len(f) :
          /\ f[k].first <= d /\ d <= f[k].last
          /\ \A j \in 1..Len(f) : f[j].first <= d /\ d <= f[j].last => j = k
    /\ \A k \in 1..Len(f) : first <= f[k].first /\ f[k].last <= last

Boundaries(b, n) ==
    /\ b \in [1..(n + 1) -> Int]
    /\ \A i, j \in 1..(n + 1) : i <= j => b[i] <= b[j]

\* Between boundaries that never step back every date has one place.
LEMMA OnePlace ==
    ASSUME NEW n \in Nat \ {0}, NEW b, Boundaries(b, n),
           NEW d \in Int, b[1] <= d, d < b[n + 1]
    PROVE  \E k \in 1..n : /\ b[k] <= d /\ d < b[k + 1]
                           /\ \A j \in 1..n : b[j] <= d /\ d < b[j + 1] => j = k
<1> DEFINE T == {k \in 1..n : d < b[k + 1]}
<1>1. T \subseteq Nat /\ n \in T
  OBVIOUS
<1>2. PICK k \in T : \A j \in T : k <= j
  <2> HIDE DEF T
  <2>1. T # {}
    BY <1>1
  <2> QED BY <1>1, <2>1, LeastNatural
<1>3. k \in 1..n /\ d < b[k + 1]
  OBVIOUS
<1>4. b[k] <= d
  <2>1. CASE k = 1
    BY <2>1
  <2>2. CASE k # 1
    <3>1. k - 1 \in 1..n /\ ~(k <= k - 1)
      BY <1>3, <2>2
    <3>2. ~(d < b[(k - 1) + 1])
      BY <1>2, <3>1
    <3>3. (k - 1) + 1 = k /\ b[k] \in Int
      BY <1>3 DEF Boundaries
    <3> QED BY <3>2, <3>3
  <2> QED BY <2>1, <2>2
<1>5. ASSUME NEW j \in 1..n, b[j] <= d, d < b[j + 1], j # k
      PROVE  FALSE
  <2>1. /\ k \in 1..(n + 1) /\ k + 1 \in 1..(n + 1) /\ j \in 1..(n + 1) /\ j + 1 \in 1..(n + 1)
        /\ j + 1 <= k \/ k + 1 <= j
    BY <1>3, <1>5
  <2>2. b[j + 1] <= b[k] \/ b[k + 1] <= b[j]
    BY <2>1 DEF Boundaries
  <2>3. b[j] \in Int /\ b[k] \in Int /\ b[j + 1] \in Int /\ b[k + 1] \in Int
    BY <2>1 DEF Boundaries
  <2> QED BY <1>3, <1>4, <1>5, <2>2, <2>3
<1> QED BY <1>3, <1>4, <1>5

\* Slices between such boundaries tile.
LEMMA BoundariesTile ==
    ASSUME NEW n \in Nat \ {0}, NEW b, Boundaries(b, n), NEW f, Len(f) = n,
           \A k \in 1..n : f[k].first = b[k] /\ f[k].last = b[k + 1] - 1
    PROVE  Tiling(f, b[1], b[n + 1] - 1)
<1>1. \A k \in 1..n : k \in 1..(n + 1) /\ k + 1 \in 1..(n + 1)
  OBVIOUS
<1>2. 1 \in 1..(n + 1) /\ n + 1 \in 1..(n + 1) /\ b[1] \in Int /\ b[n + 1] \in Int
  BY DEF Boundaries
<1>3. \A k \in 1..n : b[k] \in Int /\ b[k + 1] \in Int
  BY <1>1 DEF Boundaries
<1>4. ASSUME NEW d \in b[1]..(b[n + 1] - 1)
      PROVE  \E k \in 1..Len(f) :
                /\ f[k].first <= d /\ d <= f[k].last
                /\ \A j \in 1..Len(f) : f[j].first <= d /\ d <= f[j].last => j = k
  <2>1. d \in Int /\ b[1] <= d /\ d < b[n + 1]
    BY <1>2
  <2>2. PICK k \in 1..n : /\ b[k] <= d /\ d < b[k + 1]
                          /\ \A j \in 1..n : b[j] <= d /\ d < b[j + 1] => j = k
    BY <2>1, OnePlace
  <2>3. \A j \in 1..n : (f[j].first <= d /\ d <= f[j].last) <=> (b[j] <= d /\ d < b[j + 1])
    BY <1>3, <2>1
  <2> QED BY <2>2, <2>3
<1>5. \A k \in 1..n : b[1] <= b[k] /\ b[k + 1] <= b[n + 1]
  BY <1>1, <1>2 DEF Boundaries
<1>6. ASSUME NEW k \in 1..n
      PROVE  b[1] <= f[k].first /\ f[k].last <= b[n + 1] - 1
  <2>1. f[k].first = b[k] /\ f[k].last = b[k + 1] - 1
    OBVIOUS
  <2>2. b[k] \in Int /\ b[k + 1] \in Int /\ b[1] <= b[k] /\ b[k + 1] <= b[n + 1]
    BY <1>3, <1>5
  <2> QED BY <1>2, <2>1, <2>2
<1> QED BY <1>4, <1>6 DEF Tiling

\* The fields of a slice, whatever its dates.
LEMMA SliceFields ==
    ASSUME NEW x, NEW y
    PROVE  Slice(x, y).first = x /\ Slice(x, y).last = y
  BY DEF Slice

\* A product of naturals grows with its factors.
LEMMA ProductsGrow ==
    ASSUME NEW x \in Nat, NEW y \in Nat, NEW z \in Nat, x <= y
    PROVE  x * z \in Nat /\ y * z \in Nat /\ x * z <= y * z
  BY Z3

\* Equal parts have boundaries that never step back, with fewer days than parts as well.
LEMMA EqualPartsTile ==
    ASSUME NEW first \in Nat, NEW last \in Nat, first < last, NEW count \in Nat \ {0}
    PROVE  Tiling(EqualParts(first, last, count), first, last)
<1> DEFINE days == (last - first + 1) \div count
           f == EqualParts(first, last, count)
           b == [k \in 1..(count + 1) |->
                    IF k <= count THEN first + (k - 1) * days ELSE last + 1]
<1>1. days \in Nat /\ count * days <= last - first + 1
  OBVIOUS
<1>2. \A k \in 1..count : f[k] = Slice(first + (k - 1) * days,
                                      IF k = count THEN last ELSE first + k * days - 1)
  BY DEF EqualParts
<1>3. Len(f) = count
  BY DEF EqualParts
<1> HIDE DEF days, f
<1>4. \A k \in 1..count : k \in Nat /\ k - 1 \in Nat /\ (k - 1) * days \in Nat /\ k * days \in Nat
  BY <1>1
<1>5. b \in [1..(count + 1) -> Int]
  BY <1>4
<1>6. ASSUME NEW i \in 1..(count + 1), NEW j \in 1..(count + 1), i <= j
      PROVE  b[i] <= b[j]
  <2>1. CASE j <= count
    <3>1. (i - 1) * days \in Nat /\ (j - 1) * days \in Nat /\ (i - 1) * days <= (j - 1) * days
      BY <1>1, <1>6, ProductsGrow
    <3>2. b[i] = first + (i - 1) * days /\ b[j] = first + (j - 1) * days
      BY <1>6, <2>1
    <3> QED BY <3>1, <3>2
  <2>2. CASE i <= count /\ j = count + 1
    <3>1. (i - 1) * days \in Nat /\ count * days \in Nat /\ (i - 1) * days <= count * days
      BY <1>1, <2>2, ProductsGrow
    <3>2. b[i] = first + (i - 1) * days /\ b[j] = last + 1
      BY <2>2
    <3> QED BY <1>1, <3>1, <3>2
  <2>3. CASE i = count + 1 /\ j = count + 1
    BY <1>5, <2>3
  <2> QED BY <1>6, <2>1, <2>2, <2>3
<1>7. ASSUME NEW k \in 1..count
      PROVE  f[k].first = b[k] /\ f[k].last = b[k + 1] - 1
  <2>1. f[k].first = first + (k - 1) * days
        /\ f[k].last = IF k = count THEN last ELSE first + k * days - 1
    <3> DEFINE x == first + (k - 1) * days
               y == IF k = count THEN last ELSE first + k * days - 1
    <3>1. f[k] = Slice(x, y)
      BY <1>2
    <3> HIDE DEF x, y
    <3>2. f[k].first = x /\ f[k].last = y
      BY <3>1, SliceFields
    <3> QED BY <3>2 DEF x, y
  <2>2. b[k] = first + (k - 1) * days
    OBVIOUS
  <2>3. b[k + 1] = IF k = count THEN last + 1 ELSE first + k * days
    <3>1. (k + 1) - 1 = k /\ k + 1 \in 1..(count + 1)
      OBVIOUS
    <3> QED BY <3>1
  <2> QED BY <1>4, <2>1, <2>2, <2>3
<1>8. b[1] = first /\ b[count + 1] = last + 1
  BY <1>1
<1> HIDE DEF b
<1>9. Boundaries(b, count)
  BY <1>5, <1>6 DEF Boundaries
<1>10. Tiling(f, b[1], b[count + 1] - 1)
  BY <1>3, <1>7, <1>9, BoundariesTile
<1> QED BY <1>8, <1>10 DEF f

\* The first date lies before the next month, and the last date not before its month.
LEMMA MonthBounds ==
    ASSUME NEW d \in Nat
    PROVE  /\ Month(d) \in Nat
           /\ MonthStart(Month(d)) <= d /\ d < MonthStart(Month(d) + 1)
<1>1. MonthLength \in Nat /\ MonthLength > 0
  BY MonthLengthAssumption
<1> QED BY <1>1, Z3 DEF Month, MonthStart

\* Calendar months do as well, a year of more than twelve months included.
LEMMA MonthsTile ==
    ASSUME NEW first \in Nat, NEW last \in Nat, first < last
    PROVE  Tiling(Months(first, last), first, last)
<1> DEFINE spanned == Month(last) - Month(first) + 1
           n == IF spanned < 12 THEN spanned ELSE 12
           f == Months(first, last)
           b == [k \in 1..(n + 1) |->
                    IF k = 1 THEN first
                    ELSE IF k <= n THEN MonthStart(Month(first) + k - 1) ELSE last + 1]
<1>1. n \in Nat \ {0} /\ Month(first) \in Nat /\ Month(last) \in Nat
      /\ Month(first) + n - 1 <= Month(last)
  BY MonthsGrow
<1>2. \A k \in 1..n : f[k] = Slice(IF k = 1 THEN first ELSE MonthStart(Month(first) + k - 1),
                                  IF k = n THEN last ELSE MonthEnd(Month(first) + k - 1))
  BY DEF Months
<1>3. Len(f) = n
  BY <1>1 DEF Months
<1> HIDE DEF n, f
<1>4. \A x, y \in Nat : x <= y =>
          MonthStart(x) \in Nat /\ MonthStart(y) \in Nat /\ MonthStart(x) <= MonthStart(y)
  BY ProductsGrow, MonthLengthAssumption DEF MonthStart
<1>5. /\ first < MonthStart(Month(first) + 1) /\ MonthStart(Month(last)) <= last
  BY MonthBounds
<1>6. ASSUME NEW k \in 2..n
      PROVE  /\ MonthStart(Month(first) + k - 1) \in Nat
             /\ first <= MonthStart(Month(first) + k - 1)
             /\ MonthStart(Month(first) + k - 1) <= last
  <2>1. /\ Month(first) + 1 \in Nat /\ Month(first) + k - 1 \in Nat
        /\ Month(first) + 1 <= Month(first) + k - 1 /\ Month(first) + k - 1 <= Month(last)
    BY <1>1, <1>6
  <2>2. /\ MonthStart(Month(first) + 1) <= MonthStart(Month(first) + k - 1)
        /\ MonthStart(Month(first) + k - 1) <= MonthStart(Month(last))
        /\ MonthStart(Month(first) + 1) \in Nat /\ MonthStart(Month(last)) \in Nat
        /\ MonthStart(Month(first) + k - 1) \in Nat
    BY <1>1, <1>4, <2>1
  <2> QED BY <1>5, <2>2
<1>7. /\ b[1] = first /\ b[n + 1] = last + 1
      /\ \A k \in 2..n : b[k] = MonthStart(Month(first) + k - 1)
  BY <1>1
<1>8. \A k \in 1..(n + 1) : b[k] \in Int /\ first <= b[k] /\ b[k] <= last + 1
  <2> SUFFICES ASSUME NEW k \in 1..(n + 1)
               PROVE  b[k] \in Int /\ first <= b[k] /\ b[k] <= last + 1
    OBVIOUS
  <2>1. CASE k = 1
    BY <1>7, <2>1
  <2>2. CASE k = n + 1
    BY <1>7, <2>2
  <2>3. CASE k \in 2..n
    BY <1>6, <1>7, <2>3
  <2> QED BY <1>1, <2>1, <2>2, <2>3
<1>9. b \in [1..(n + 1) -> Int]
  <2> DEFINE g == b
  <2>1. DOMAIN b = 1..(n + 1) /\ b = [k \in 1..(n + 1) |-> b[k]]
    OBVIOUS
  <2> HIDE DEF b
  <2> QED BY <1>8, <2>1
<1>10. ASSUME NEW k \in 1..n
       PROVE  f[k].first = b[k] /\ f[k].last = b[k + 1] - 1
  <2>1. f[k].first = (IF k = 1 THEN first ELSE MonthStart(Month(first) + k - 1))
        /\ f[k].last = (IF k = n THEN last ELSE MonthStart(Month(first) + k - 1 + 1) - 1)
    <3> DEFINE x == IF k = 1 THEN first ELSE MonthStart(Month(first) + k - 1)
               y == IF k = n THEN last ELSE MonthEnd(Month(first) + k - 1)
    <3>1. f[k] = Slice(x, y)
      BY <1>2
    <3> HIDE DEF x, y
    <3>2. f[k].first = x /\ f[k].last = y
      BY <3>1, SliceFields
    <3> QED BY <3>2 DEF x, y, MonthEnd
  <2>2. f[k].first = b[k]
    BY <1>1, <2>1
  <2>3. CASE k = n
    BY <1>7, <2>1, <2>3
  <2>4. CASE k # n
    <3>1. k + 1 \in 2..n /\ Month(first) + k - 1 + 1 = Month(first) + (k + 1) - 1
      BY <1>1, <2>4
    <3> QED BY <1>7, <2>1, <2>2, <2>4, <3>1
  <2> QED BY <2>2, <2>3, <2>4
<1> HIDE DEF b
<1>11. ASSUME NEW i \in 1..(n + 1), NEW j \in 1..(n + 1), i <= j
       PROVE  b[i] <= b[j]
  <2>1. CASE i = 1 \/ j = n + 1
    BY <1>7, <1>8, <2>1
  <2>2. CASE i # 1 /\ j # n + 1
    <3>1. /\ i \in 2..n /\ j \in 2..n
          /\ Month(first) + i - 1 \in Nat /\ Month(first) + j - 1 \in Nat
          /\ Month(first) + i - 1 <= Month(first) + j - 1
      BY <1>1, <1>11, <2>2
    <3> QED BY <1>4, <1>7, <3>1
  <2> QED BY <2>1, <2>2
<1>12. Boundaries(b, n)
  BY <1>9, <1>11 DEF Boundaries
<1>13. Tiling(f, b[1], b[n + 1] - 1)
  BY <1>1, <1>3, <1>10, <1>12, BoundariesTile
<1> QED BY <1>7, <1>13 DEF f

\* Whatever way a year is split, the parts tile it.
LEMMA SplitTiles ==
    ASSUME NEW first \in Nat, NEW last \in Nat, first < last, NEW count \in Counts
    PROVE  Tiling(Split(first, last, count), first, last)
<1>1. count \in Nat \ {0}
  BY CountsAssumption
<1> QED BY <1>1, EqualPartsTile, MonthsTile DEF Split

-----------------------------------------------------------------------------
(* The periods of a year                                                   *)

Covers(p, d) == periods[p].first <= d /\ d <= periods[p].last

Tiled(y) ==
    PeriodsOf(y) # {} =>
        /\ \A d \in years[y].first..years[y].last : \E p \in PeriodsOf(y) :
              Covers(p, d) /\ \A q \in PeriodsOf(y) : Covers(q, d) => q = p
        /\ \A p \in PeriodsOf(y) :
              years[y].first <= periods[p].first /\ periods[p].last <= years[y].last

TilingInv == CalendarInv /\ \A y \in 1..Len(years) : Tiled(y)

\* Years and periods keep the columns the tiling is about.
SameDates ==
    /\ Len(years') = Len(years) /\ Len(periods') = Len(periods)
    /\ \A y \in 1..Len(years) :
          years'[y].first = years[y].first /\ years'[y].last = years[y].last
    /\ \A p \in 1..Len(periods) :
          /\ periods'[p].year = periods[p].year
          /\ periods'[p].first = periods[p].first /\ periods'[p].last = periods[p].last

\* Then it stays.
LEMMA SameDatesTile ==
    ASSUME \A y \in 1..Len(years) : Tiled(y), SameDates
    PROVE  \A y \in 1..Len(years') : Tiled(y)'
<1>1. \A y : PeriodsOf(y)' = PeriodsOf(y)
  BY DEF SameDates, PeriodsOf
<1>2. \A y : PeriodsOf(y) \subseteq 1..Len(periods)
  BY DEF PeriodsOf
<1>3. \A y : \A p \in PeriodsOf(y) : \A d : Covers(p, d)' <=> Covers(p, d)
  BY <1>2 DEF SameDates, Covers
<1> SUFFICES ASSUME NEW y \in 1..Len(years) PROVE Tiled(y)'
  BY DEF SameDates
<1>4. years'[y].first = years[y].first /\ years'[y].last = years[y].last
      /\ \A p \in PeriodsOf(y) :
            periods'[p].first = periods[p].first /\ periods'[p].last = periods[p].last
  BY <1>2 DEF SameDates
<1>5. Tiled(y)
  OBVIOUS
<1> QED BY <1>1, <1>3, <1>4, <1>5 DEF Tiled

\* A new year has no periods yet.
LEMMA CreateYearTiles ==
    ASSUME TilingInv, NEW r \in YearRanges, CreateYear(r)
    PROVE  \A y \in 1..Len(years') : Tiled(y)'
<1> DEFINE new == [first |-> r[1], last |-> r[2], status |-> "OPEN", closedEmpty |-> FALSE]
<1>1. years \in Seq(Year) /\ years' = Append(years, new) /\ periods' = periods
  BY DEF CreateYear, TilingInv, CalendarInv, CalendarRows
<1>2. new \in Year
  BY YearRangesAssumption DEF Year
<1> HIDE DEF new
<1>3. /\ Len(years') = Len(years) + 1 /\ Len(years) \in Nat
      /\ \A y \in 1..Len(years) : years'[y] = years[y]
  BY <1>1, <1>2, AppendProperties, LenProperties
<1>4. \A y : PeriodsOf(y)' = PeriodsOf(y) /\ \A p, d : Covers(p, d)' <=> Covers(p, d)
  BY <1>1 DEF PeriodsOf, Covers
<1>5. ASSUME NEW y \in 1..Len(years) PROVE Tiled(y)'
  BY <1>1, <1>3, <1>4 DEF TilingInv, Tiled
<1>6. ASSUME NEW y \in 1..Len(years'), y \notin 1..Len(years) PROVE Tiled(y)'
  <2>1. PeriodsOf(y) = {}
    BY <1>6 DEF TilingInv, CalendarInv, PeriodsHaveYears, PeriodsOf
  <2> QED BY <1>4, <2>1 DEF Tiled
<1> QED BY <1>5, <1>6

\* The periods of a new split tile their year, the others are where they were.
LEMMA GeneratePeriodsTiles ==
    ASSUME TilingInv, NEW y \in 1..Len(years), NEW count \in Counts, GeneratePeriods(y, count)
    PROVE  \A z \in 1..Len(years') : Tiled(z)'
<1> DEFINE slices == Split(years[y].first, years[y].last, count)
           new == [k \in 1..Len(slices) |-> [year |-> y, first |-> slices[k].first,
                                             last |-> slices[k].last, status |-> "OPEN"]]
           L == Len(periods)
<1>1. /\ PeriodsOf(y) = {} /\ periods' = periods \o new /\ years' = years
      /\ periods \in Seq(Period) /\ years \in Seq(Year)
  BY DEF GeneratePeriods, TilingInv, CalendarInv, CalendarRows
<1>2. /\ years[y].first < years[y].last
      /\ years[y].first \in Nat /\ years[y].last \in Nat
  <2>1. years[y] \in Year /\ years[y].first < years[y].last
    BY <1>1, ElementOfSeq DEF TilingInv, CalendarInv, CalendarRows
  <2> QED BY <2>1 DEF Year
<1>3. /\ slices \in Seq([first: Nat, last: Int])
      /\ Tiling(slices, years[y].first, years[y].last)
  BY <1>2, SplitIsSeq, SplitTiles
<1>4. Len(slices) \in Nat /\ \A k \in 1..Len(slices) : slices[k] \in [first: Nat, last: Int]
  BY <1>3, LenProperties, ElementOfSeq
<1>5. y \in Nat \ {0}
  BY <1>1, LenProperties
<1>6. new \in Seq(Period) /\ Len(new) = Len(slices)
  BY <1>4, <1>5 DEF Period, PeriodStatuses
<1>7. \A k \in 1..Len(slices) :
          new[k].year = y /\ new[k].first = slices[k].first /\ new[k].last = slices[k].last
  OBVIOUS
<1> HIDE DEF slices, new
<1>8. L \in Nat /\ Len(new) \in Nat
  BY <1>1, <1>6, LenProperties
<1>9. /\ Len(periods') = L + Len(slices)
      /\ \A p \in 1..(L + Len(new)) : periods'[p] = IF p <= L THEN periods[p] ELSE new[p - L]
  <2>1. periods \in Seq(Period) /\ new \in Seq(Period)
    BY <1>1, <1>6
  <2>2. /\ Len(periods \o new) = L + Len(new)
        /\ \A p \in 1..(L + Len(new)) :
              (periods \o new)[p] = IF p <= L THEN periods[p] ELSE new[p - L]
    BY <2>1, ConcatProperties
  <2> QED BY <1>1, <1>6, <2>2, Zenon
<1> HIDE DEF L
<1>10. \A p \in 1..L : p \in 1..Len(periods') /\ periods'[p] = periods[p]
  BY <1>4, <1>6, <1>8, <1>9
<1>11. \A k \in 1..Len(slices) : L + k \in 1..Len(periods') /\ periods'[L + k] = new[k]
  <2> SUFFICES ASSUME NEW k \in 1..Len(slices)
               PROVE  L + k \in 1..Len(periods') /\ periods'[L + k] = new[k]
    OBVIOUS
  <2>1. L + k \in 1..(L + Len(new)) /\ ~(L + k <= L) /\ (L + k) - L = k
    BY <1>4, <1>6, <1>8
  <2> QED BY <1>6, <1>9, <2>1
<1>12. \A p \in 1..Len(periods') : p \in 1..L \/ \E k \in 1..Len(slices) : p = L + k
  <2> SUFFICES ASSUME NEW p \in 1..Len(periods'), p \notin 1..L
               PROVE  \E k \in 1..Len(slices) : p = L + k
    OBVIOUS
  <2>1. p - L \in 1..Len(slices) /\ p = L + (p - L)
    BY <1>4, <1>8, <1>9
  <2> QED BY <2>1
<1>13. ASSUME NEW z \in 1..Len(years), z # y PROVE Tiled(z)'
  <2>1. PeriodsOf(z) \subseteq 1..L
    BY DEF PeriodsOf, L
  <2>2. \A k \in 1..Len(slices) : periods'[L + k].year # z
    BY <1>7, <1>11, <1>13
  <2>3. PeriodsOf(z)' = PeriodsOf(z)
    <3>1. PeriodsOf(z) = {p \in 1..L : periods[p].year = z}
      BY DEF PeriodsOf, L
    <3>2. PeriodsOf(z)' = {p \in 1..Len(periods') : periods'[p].year = z}
      BY DEF PeriodsOf
    <3> QED BY <1>10, <1>12, <2>2, <3>1, <3>2
  <2>4. \A p \in PeriodsOf(z) : periods'[p] = periods[p]
    BY <1>10, <2>1
  <2>5. \A p \in PeriodsOf(z) : \A d : Covers(p, d)' <=> Covers(p, d)
    BY <2>4 DEF Covers
  <2>6. years'[z] = years[z]
    BY <1>1
  <2>7. Tiled(z)
    BY DEF TilingInv
  <2> QED BY <2>3, <2>4, <2>7, <2>5, <2>6 DEF Tiled
<1>14. Tiled(y)'
  <2>1. PeriodsOf(y)' = {L + k : k \in 1..Len(slices)}
    <3>1. \A p \in 1..L : periods[p].year # y
      BY <1>1 DEF PeriodsOf, L
    <3>2. PeriodsOf(y)' = {p \in 1..Len(periods') : periods'[p].year = y}
      BY DEF PeriodsOf
    <3> QED BY <1>7, <1>10, <1>11, <1>12, <3>1, <3>2
  <2>2. \A k \in 1..Len(slices) :
            periods'[L + k].first = slices[k].first /\ periods'[L + k].last = slices[k].last
    BY <1>7, <1>11
  <2>3. ASSUME NEW d \in years[y].first..years[y].last
        PROVE  \E p \in PeriodsOf(y)' :
                  /\ periods'[p].first <= d /\ d <= periods'[p].last
                  /\ \A q \in PeriodsOf(y)' :
                        periods'[q].first <= d /\ d <= periods'[q].last => q = p
    <3>1. PICK k \in 1..Len(slices) :
              /\ slices[k].first <= d /\ d <= slices[k].last
              /\ \A j \in 1..Len(slices) :
                    slices[j].first <= d /\ d <= slices[j].last => j = k
      BY <1>3 DEF Tiling
    <3>2. L + k \in PeriodsOf(y)' /\ periods'[L + k].first <= d /\ d <= periods'[L + k].last
      BY <2>1, <2>2, <3>1
    <3>3. ASSUME NEW q \in PeriodsOf(y)', periods'[q].first <= d, d <= periods'[q].last
          PROVE  q = L + k
      <4>1. PICK j \in 1..Len(slices) : q = L + j
        BY <2>1
      <4>2. j = k
        BY <2>2, <3>1, <3>3, <4>1
      <4> QED BY <4>1, <4>2
    <3> QED BY <3>2, <3>3
  <2>4. \A p \in PeriodsOf(y)' :
            years[y].first <= periods'[p].first /\ periods'[p].last <= years[y].last
    BY <1>3, <2>1, <2>2 DEF Tiling
  <2> QED BY <1>1, <2>3, <2>4 DEF Tiled, Covers
<1> QED BY <1>1, <1>13, <1>14

\* A period's status is no date.
LEMMA StatusSameDates ==
    ASSUME periods \in Seq(Period), NEW p \in 1..Len(periods), NEW status,
           periods' = [periods EXCEPT ![p].status = status], years' = years
    PROVE  SameDates
<1>1. Len(periods') = Len(periods)
  OBVIOUS
<1>2. ASSUME NEW q \in 1..Len(periods)
      PROVE  /\ periods'[q].year = periods[q].year
             /\ periods'[q].first = periods[q].first /\ periods'[q].last = periods[q].last
  <2>1. periods[q] \in Period /\ periods[p] \in Period
    BY ElementOfSeq
  <2> DEFINE new == [periods[p] EXCEPT !.status = status]
  <2>2. new.year = periods[p].year /\ new.first = periods[p].first /\ new.last = periods[p].last
    BY <2>1 DEF Period
  <2>3. periods' = [periods EXCEPT ![p] = new]
    OBVIOUS
  <2> HIDE DEF new
  <2>4. periods'[q] = IF q = p THEN new ELSE periods[q]
    BY <2>3
  <2> QED BY <2>2, <2>4
<1> QED BY <1>1, <1>2 DEF SameDates

\* Nor is a year's.
LEMMA CloseYearSameDates ==
    ASSUME years \in Seq(Year), NEW y \in 1..Len(years), CloseYear(y)
    PROVE  SameDates
<1>1. periods' = periods /\ Len(years') = Len(years)
  BY DEF CloseYear
<1>2. ASSUME NEW z \in 1..Len(years)
      PROVE  years'[z].first = years[z].first /\ years'[z].last = years[z].last
  <2>1. years[z] \in Year /\ years[y] \in Year
    BY ElementOfSeq
  <2> DEFINE new == [years[y] EXCEPT !.status = "CLOSED", !.closedEmpty = PeriodsOf(y) = {}]
  <2>2. new.first = years[y].first /\ new.last = years[y].last
    BY <2>1 DEF Year
  <2>3. years' = [years EXCEPT ![y] = new]
    BY DEF CloseYear
  <2> HIDE DEF new
  <2>4. years'[z] = IF z = y THEN new ELSE years[z]
    BY <2>3
  <2> QED BY <2>2, <2>4
<1> QED BY <1>1, <1>2 DEF SameDates

\* Every step of the calendar keeps the periods tiling.
LEMMA TilingStep ==
    ASSUME TilingInv, [CalendarNext]_calendar
    PROVE  TilingInv'
<1>1. CalendarInv /\ CalendarInv' /\ periods \in Seq(Period) /\ years \in Seq(Year)
  BY CalendarStep DEF TilingInv, CalendarInv, CalendarRows
<1>2. ASSUME NEW p \in 1..Len(periods), NEW status,
             periods' = [periods EXCEPT ![p].status = status], years' = years
      PROVE  SameDates
  BY <1>1, <1>2, StatusSameDates
<1>3. ASSUME NEW y \in 1..Len(years), CloseYear(y) PROVE SameDates
  BY <1>1, <1>3, CloseYearSameDates
<1>4. SameDates => TilingInv'
  BY <1>1, SameDatesTile DEF TilingInv
<1>5. ASSUME NEW r \in YearRanges, CreateYear(r) PROVE TilingInv'
  BY <1>1, <1>5, CreateYearTiles DEF TilingInv
<1>6. ASSUME NEW y \in 1..Len(years), NEW count \in Counts, GeneratePeriods(y, count)
      PROVE  TilingInv'
  BY <1>1, <1>6, GeneratePeriodsTiles DEF TilingInv
<1>7. ASSUME NEW p \in 1..Len(periods), ClosePeriod(p) PROVE TilingInv'
  BY <1>2, <1>4, <1>7 DEF ClosePeriod
<1>8. ASSUME NEW p \in 1..Len(periods), ApproveReopening(p) PROVE TilingInv'
  BY <1>4, <1>8 DEF ApproveReopening, SameDates
<1>9. ASSUME NEW p \in 1..Len(periods), ReopenPeriod(p) PROVE TilingInv'
  BY <1>2, <1>4, <1>9 DEF ReopenPeriod
<1>10. ASSUME NEW y \in 1..Len(years), CloseYear(y) PROVE TilingInv'
  BY <1>3, <1>4, <1>10
<1>11. CASE UNCHANGED calendar
  BY <1>4, <1>11 DEF calendar, SameDates
<1> QED BY <1>5, <1>6, <1>7, <1>8, <1>9, <1>10, <1>11 DEF CalendarNext

\* A year whose periods tile it has one period for each of its dates.
LEMMA TiledCounts == TilingInv => PeriodsTile
<1> SUFFICES ASSUME TilingInv, NEW y \in 1..Len(years), PeriodsOf(y) # {}
             PROVE  /\ \A d \in years[y].first..years[y].last :
                          Cardinality({p \in PeriodsOf(y) :
                             periods[p].first <= d /\ d <= periods[p].last}) = 1
                    /\ \A p \in PeriodsOf(y) :
                          \A d \in periods[p].first..periods[p].last :
                              d \in years[y].first..years[y].last
  BY DEF PeriodsTile
<1>1. Tiled(y)
  BY DEF TilingInv
<1>2. ASSUME NEW d \in years[y].first..years[y].last
      PROVE  Cardinality({p \in PeriodsOf(y) :
                             periods[p].first <= d /\ d <= periods[p].last}) = 1
  <2>1. PICK p \in PeriodsOf(y) :
            Covers(p, d) /\ \A q \in PeriodsOf(y) : Covers(q, d) => q = p
    BY <1>1 DEF Tiled
  <2>2. {q \in PeriodsOf(y) : periods[q].first <= d /\ d <= periods[q].last} = {p}
    BY <2>1 DEF Covers
  <2> QED BY <2>2, FS_Singleton
<1>3. ASSUME NEW p \in PeriodsOf(y), NEW d \in periods[p].first..periods[p].last
      PROVE  d \in years[y].first..years[y].last
  <2>1. years[y] \in Year /\ periods[p] \in Period
    BY ElementOfSeq DEF TilingInv, CalendarInv, CalendarRows, PeriodsOf
  <2>2. years[y].first <= periods[p].first /\ periods[p].last <= years[y].last
    BY <1>1 DEF Tiled
  <2> QED BY <2>1, <2>2 DEF Year, Period
<1> QED BY <1>2, <1>3

\* The periods of a year tile it, however it is split: for all years, month lengths and
\* numbers of parts.
THEOREM PeriodsTileTheirYear == CalendarSpec => []PeriodsTile
<1>1. CalendarInit => TilingInv
  BY CalendarStarts DEF CalendarInit, TilingInv
<1> QED BY <1>1, TilingStep, TiledCounts, PTL DEF CalendarSpec

-----------------------------------------------------------------------------
(* Types                                                                   *)

\* A year has the periods of one split, or none.
Counted(y) ==
    Cardinality(PeriodsOf(y)) \in
        {0} \cup {Len(Split(years[y].first, years[y].last, count)) : count \in Counts}

CalendarTypeInv == CalendarInv /\ CalendarTypeOK

\* Years and periods that keep their dates keep their counts.
LEMMA SameDatesCounts ==
    ASSUME \A y \in 1..Len(years) : Counted(y), SameDates
    PROVE  \A y \in 1..Len(years') : Counted(y)'
<1>1. \A y : PeriodsOf(y)' = PeriodsOf(y)
  BY DEF SameDates, PeriodsOf
<1> SUFFICES ASSUME NEW y \in 1..Len(years) PROVE Counted(y)'
  BY DEF SameDates
<1>2. years'[y].first = years[y].first /\ years'[y].last = years[y].last
  BY DEF SameDates
<1>3. Counted(y)
  OBVIOUS
<1> QED BY <1>1, <1>2, <1>3 DEF Counted

\* A year that gets periods gets those of the split, and no other year gets any.
LEMMA GeneratePeriodsCounts ==
    ASSUME CalendarInv, NEW y \in 1..Len(years), NEW count \in Counts,
           GeneratePeriods(y, count), \A z \in 1..Len(years) : Counted(z)
    PROVE  /\ \A z \in 1..Len(years') : Counted(z)'
           /\ Len(periods) <= Len(periods')
<1> DEFINE slices == Split(years[y].first, years[y].last, count)
           new == [k \in 1..Len(slices) |-> [year |-> y, first |-> slices[k].first,
                                             last |-> slices[k].last, status |-> "OPEN"]]
           L == Len(periods)
           M == Len(slices)
<1>1. /\ PeriodsOf(y) = {} /\ periods' = periods \o new /\ years' = years
      /\ periods \in Seq(Period) /\ years \in Seq(Year)
  BY DEF GeneratePeriods, CalendarInv, CalendarRows
<1>2. slices \in Seq([first: Nat, last: Int])
  <2>1. years[y] \in Year /\ years[y].first < years[y].last
    BY <1>1, ElementOfSeq DEF CalendarInv, CalendarRows
  <2> QED BY <2>1, SplitIsSeq DEF Year
<1>3. M \in Nat /\ \A k \in 1..M : slices[k] \in [first: Nat, last: Int]
  BY <1>2, LenProperties, ElementOfSeq
<1>4. new \in Seq(Period) /\ Len(new) = M /\ \A k \in 1..M : new[k].year = y
  <2>1. y \in Nat \ {0}
    BY <1>1, LenProperties
  <2> QED BY <1>3, <2>1 DEF Period, PeriodStatuses
<1> HIDE DEF new, slices, M
<1>5. L \in Nat
  BY <1>1, LenProperties
<1>6. /\ Len(periods') = L + M
      /\ \A p \in 1..(L + M) : periods'[p] = IF p <= L THEN periods[p] ELSE new[p - L]
  BY <1>1, <1>4, ConcatProperties, Zenon
<1> HIDE DEF L
<1>7. \A z : PeriodsOf(z)' = {p \in 1..(L + M) : periods'[p].year = z}
  BY <1>6 DEF PeriodsOf
<1>8. \A z : PeriodsOf(z) = {p \in 1..L : periods[p].year = z}
  BY DEF PeriodsOf, L
<1>9. \A p \in 1..(L + M) : IF p <= L THEN p \in 1..L /\ periods'[p] = periods[p]
                                      ELSE p \in (L + 1)..(L + M) /\ periods'[p].year = y
  <2> SUFFICES ASSUME NEW p \in 1..(L + M)
               PROVE  IF p <= L THEN p \in 1..L /\ periods'[p] = periods[p]
                                ELSE p \in (L + 1)..(L + M) /\ periods'[p].year = y
    OBVIOUS
  <2>1. CASE p <= L
    BY <1>3, <1>5, <1>6, <2>1 
  <2>2. CASE ~(p <= L)
    <3>1. p - L \in 1..M /\ p \in (L + 1)..(L + M)
      BY <1>3, <1>5, <2>2
    <3> QED BY <1>4, <1>6, <2>2, <3>1
  <2> QED BY <2>1, <2>2
<1>10. PeriodsOf(y)' = (L + 1)..(L + M)
  <2>1. ASSUME NEW p \in (L + 1)..(L + M) PROVE p \in 1..(L + M) /\ ~(p <= L)
    BY <1>3, <1>5
  <2>2. \A p \in 1..L : periods[p].year # y
    BY <1>1, <1>8
  <2> QED BY <1>7, <1>9, <2>1, <2>2
<1>11. \A z : z # y => PeriodsOf(z)' = PeriodsOf(z)
  <2>1. \A p \in 1..L : p \in 1..(L + M) /\ p <= L
    BY <1>3, <1>5
  <2> QED BY <1>7, <1>8, <1>9, <2>1
<1>12. Counted(y)'
  <2>1. Cardinality((L + 1)..(L + M)) = M
    <3>1. Cardinality((L + 1)..(L + M)) = IF L + 1 > L + M THEN 0 ELSE (L + M) - (L + 1) + 1
      BY <1>3, <1>5, FS_Interval
    <3> QED BY <1>3, <1>5, <3>1
  <2>2. M \in {Len(Split(years'[y].first, years'[y].last, c)) : c \in Counts}
    BY <1>1 DEF M, slices
  <2> QED BY <1>10, <2>1, <2>2 DEF Counted
<1>13. ASSUME NEW z \in 1..Len(years), z # y PROVE Counted(z)'
  <2>1. Counted(z)
    OBVIOUS
  <2> QED BY <1>1, <1>11, <1>13, <2>1 DEF Counted
<1>14. Len(periods) <= Len(periods')
  BY <1>3, <1>5, <1>6 DEF L
<1> QED BY <1>1, <1>12, <1>13, <1>14

\* At the start there is nothing.
LEMMA CalendarTypeStarts == CalendarInit => CalendarTypeInv
  BY CalendarStarts, EmptySeq, CalendarBoundsAssumption
     DEF CalendarInit, CalendarTypeInv, CalendarTypeOK

\* Every step of the calendar keeps the types.
LEMMA CalendarTypeStep ==
    ASSUME CalendarTypeInv, [CalendarNext]_calendar
    PROVE  CalendarTypeInv'
<1>1. CalendarInv /\ CalendarInv' /\ periods \in Seq(Period) /\ years \in Seq(Year)
  BY CalendarStep DEF CalendarTypeInv, CalendarInv, CalendarRows
<1>2. \A y \in 1..Len(years) : Counted(y)
  BY DEF CalendarTypeInv, CalendarTypeOK, Counted
<1>3. reopenings \subseteq 1..Len(periods) /\ changes \in 0..MaxChanges
  BY DEF CalendarTypeInv, CalendarTypeOK
<1>4. ASSUME \A y \in 1..Len(years') : Counted(y)',
             reopenings' \subseteq 1..Len(periods'), changes' \in 0..MaxChanges
      PROVE  CalendarTypeInv'
  <2>1. years' \in Seq(Year) /\ periods' \in Seq(Period)
        /\ \A p \in 1..Len(periods') : periods'[p].year \in 1..Len(years')
    BY <1>1 DEF CalendarInv, CalendarRows, PeriodsHaveYears
  <2> QED BY <1>1, <1>4, <2>1 DEF CalendarTypeInv, CalendarTypeOK, Counted
<1>5. SameDates => Len(periods') = Len(periods) /\ \A y \in 1..Len(years') : Counted(y)'
  BY <1>2, SameDatesCounts DEF SameDates
<1>6. ASSUME NEW r \in YearRanges, CreateYear(r) PROVE CalendarTypeInv'
  <2> DEFINE new == [first |-> r[1], last |-> r[2], status |-> "OPEN", closedEmpty |-> FALSE]
  <2>1. years' = Append(years, new) /\ periods' = periods
        /\ reopenings' = reopenings /\ changes' = changes
    BY <1>6 DEF CreateYear
  <2>2. new \in Year
    BY YearRangesAssumption DEF Year
  <2> HIDE DEF new
  <2>3. /\ Len(years') = Len(years) + 1 /\ Len(years) \in Nat
        /\ \A y \in 1..Len(years) : years'[y] = years[y]
    BY <1>1, <2>1, <2>2, AppendProperties, LenProperties
  <2>4. \A y : PeriodsOf(y)' = PeriodsOf(y)
    BY <2>1 DEF PeriodsOf
  <2>5. ASSUME NEW y \in 1..Len(years) PROVE Counted(y)'
    <3>1. Counted(y)
      BY <1>2
    <3> QED BY <2>3, <2>4, <3>1 DEF Counted
  <2>6. ASSUME NEW y \in 1..Len(years'), y \notin 1..Len(years) PROVE Counted(y)'
    <3>1. PeriodsOf(y) = {}
      BY <1>1, <2>6 DEF CalendarInv, PeriodsHaveYears, PeriodsOf
    <3> QED BY <2>4, <3>1, FS_EmptySet DEF Counted
  <2> QED BY <1>3, <1>4, <2>1, <2>5, <2>6
<1>7. ASSUME NEW y \in 1..Len(years), NEW count \in Counts, GeneratePeriods(y, count)
      PROVE  CalendarTypeInv'
  <2>1. (\A z \in 1..Len(years') : Counted(z)') /\ Len(periods) <= Len(periods')
    BY <1>1, <1>2, <1>7, GeneratePeriodsCounts
  <2>2. reopenings' = reopenings /\ changes' = changes
    BY <1>7 DEF GeneratePeriods
  <2>3. Len(periods) \in Nat /\ Len(periods') \in Nat
    BY <1>1, LenProperties DEF CalendarInv, CalendarRows
  <2> QED BY <1>3, <1>4, <2>1, <2>2, <2>3
<1>8. ASSUME changes < MaxChanges PROVE changes + 1 \in 0..MaxChanges
  BY <1>3, <1>8, CalendarBoundsAssumption
<1>9. ASSUME NEW p \in 1..Len(periods), NEW status,
             periods' = [periods EXCEPT ![p].status = status], years' = years
      PROVE  SameDates
  BY <1>1, <1>9, StatusSameDates
<1>10. ASSUME NEW p \in 1..Len(periods), ClosePeriod(p) PROVE CalendarTypeInv'
  BY <1>3, <1>4, <1>5, <1>8, <1>9, <1>10 DEF ClosePeriod
<1>11. ASSUME NEW p \in 1..Len(periods), ApproveReopening(p) PROVE CalendarTypeInv'
  <2>1. SameDates
    BY <1>11 DEF ApproveReopening, SameDates
  <2> QED BY <1>3, <1>4, <1>5, <1>11, <2>1 DEF ApproveReopening
<1>12. ASSUME NEW p \in 1..Len(periods), ReopenPeriod(p) PROVE CalendarTypeInv'
  BY <1>3, <1>4, <1>5, <1>8, <1>9, <1>12 DEF ReopenPeriod
<1>13. ASSUME NEW y \in 1..Len(years), CloseYear(y) PROVE CalendarTypeInv'
  <2>1. SameDates
    BY <1>1, <1>13, CloseYearSameDates
  <2> QED BY <1>3, <1>4, <1>5, <1>8, <1>13, <2>1 DEF CloseYear
<1>14. CASE UNCHANGED calendar
  <2>1. SameDates
    BY <1>14 DEF SameDates, calendar
  <2> QED BY <1>3, <1>4, <1>5, <1>14, <2>1 DEF calendar
<1> QED BY <1>6, <1>7, <1>10, <1>11, <1>12, <1>13, <1>14 DEF CalendarNext

\* The rows of the calendar keep their types, and a year has the periods of one split or
\* none, however often it is closed and reopened.
THEOREM CalendarTyped == CalendarSpec => []CalendarTypeOK
<1>1. CalendarTypeInv => CalendarTypeOK
  BY DEF CalendarTypeInv
<1> QED BY <1>1, CalendarTypeStarts, CalendarTypeStep, PTL DEF CalendarSpec

-----------------------------------------------------------------------------
(* The journal                                                             *)

EntryRows ==
    /\ entries \in Seq(Entry)
    /\ \A n \in 1..Len(entries) : entries[n].reverses < n

JournalInv == EntryRows /\ ReversedOnce

\* The ways a step may treat the entries.
Recorded1(e) ==
    /\ e \in Entry /\ e.reverses = 0 /\ e.status # "REVERSED"
    /\ e.status = "POSTED" => Balanced(e.net) /\ IsOpen(e.date)
    /\ entries' = Append(entries, e)
Posted1(n) ==
    /\ n \in 1..Len(entries) /\ entries[n].status = "DRAFT"
    /\ Balanced(entries[n].net) /\ IsOpen(entries[n].date)
    /\ entries' = [entries EXCEPT ![n].status = "POSTED"]
Reversed1(n, d) ==
    /\ n \in 1..Len(entries) /\ d \in Dates /\ entries[n].status = "POSTED"
    /\ Balanced(ReversalOf(n, d).net) /\ IsOpen(d)
    /\ entries' = Append([entries EXCEPT ![n].status = "REVERSED"], ReversalOf(n, d))

Booking == \/ \E e : Recorded1(e)
           \/ \E n : Posted1(n)
           \/ \E n, d : Reversed1(n, d)

\* The row of a reversal.
LEMMA ReversalType ==
    ASSUME EntryRows, NEW n \in 1..Len(entries), NEW d \in Dates
    PROVE  ReversalOf(n, d) \in Entry
<1>1. entries[n] \in Entry
  BY ElementOfSeq DEF EntryRows
<1>2. n \in Nat
  BY LenProperties DEF EntryRows
<1>3. [a \in Accounts |-> -entries[n].net[a]] \in [Accounts -> Int]
  BY <1>1 DEF Entry
<1> QED BY <1>1, <1>2, <1>3 DEF ReversalOf, Entry

\* Every step records, posts or reverses an entry, or leaves the entries alone.
LEMMA StepKinds ==
    ASSUME EntryRows, [Next]_vars
    PROVE  (Booking /\ UNCHANGED periods) \/ UNCHANGED entries
<1>1. CASE (CalendarNext /\ UNCHANGED journal) \/ UNCHANGED vars
  BY <1>1 DEF journal, vars
<1>2. ASSUME NEW lines \in LineSets, NEW d \in Dates, NEW k \in Keys \cup {NoKey},
             CreateEntry(lines, d, k)
      PROVE  Booking /\ UNCHANGED periods
  <2> DEFINE e == [accts |-> lines.accts, net |-> lines.net, date |-> d, status |-> "DRAFT",
                   source |-> "MANUAL", key |-> k, reverses |-> 0]
  <2>1. e \in Entry
    BY LineSetsAssumption DEF Entry, Lines
  <2>2. Recorded1(e)
    BY <1>2, <2>1 DEF CreateEntry, Recorded1
  <2> QED BY <1>2, <2>2 DEF CreateEntry, Booking, calendar
<1>3. ASSUME NEW n \in 1..Len(entries), PostEntry(n)
      PROVE  Booking /\ UNCHANGED periods
  <2>1. Posted1(n)
    BY <1>3 DEF PostEntry, Postable, Posted1
  <2> QED BY <1>3, <2>1 DEF PostEntry, Booking, calendar
<1>4. ASSUME NEW n \in 1..Len(entries), NEW d \in Dates, Reverse(n, d)
      PROVE  Booking
  <2>1. Reversed1(n, d)
    BY <1>4 DEF Reverse, Postable, Reversed1, ReversalOf
  <2> QED BY <2>1 DEF Booking
<1>5. ASSUME NEW n \in 1..Len(entries), NEW d \in Dates, ReverseEntry(n, d)
      PROVE  Booking /\ UNCHANGED periods
  BY <1>4, <1>5 DEF ReverseEntry, calendar
<1>6. ASSUME NEW k \in Keys, NEW lines \in LineSets, NEW d \in Dates, Publish(k, lines, d)
      PROVE  (Booking /\ UNCHANGED periods) \/ UNCHANGED entries
  <2> DEFINE e == EventEntry(k, lines, d)
  <2>1. e \in Entry /\ e.reverses = 0 /\ e.status = "POSTED"
    BY LineSetsAssumption DEF EventEntry, Entry, Lines
  <2>2. CASE settings.autoPosting /\ EntriesWithKey(k) = {}
    <3>1. Recorded1(e)
      BY <1>6, <2>1, <2>2 DEF Publish, Postable, Recorded1
    <3> QED BY <1>6, <3>1 DEF Publish, Booking, calendar
  <2>3. CASE ~(settings.autoPosting /\ EntriesWithKey(k) = {})
    BY <1>6, <2>3 DEF Publish
  <2> QED BY <2>2, <2>3
<1>7. ASSUME NEW k \in Keys, NEW d \in Dates, ReverseDocument(k, d)
      PROVE  (Booking /\ UNCHANGED periods) \/ UNCHANGED entries
  <2>1. UNCHANGED periods /\ (UNCHANGED entries \/ \E n \in EntriesWithKey(k) : Reverse(n, d))
    BY <1>7 DEF ReverseDocument, calendar
  <2> QED BY <1>4, <2>1 DEF EntriesWithKey
<1>8. ASSUME \/ \E a \in Accounts : UpdateAccount(a) \/ DeleteAccount(a)
             \/ UpdateSettings
             \/ \E n \in 1..Len(entries), what \in {"post", "reverse"} : Approve(what, n)
      PROVE  UNCHANGED entries
  BY <1>8 DEF UpdateAccount, DeleteAccount, UpdateSettings, Approve
<1> QED BY <1>1, <1>2, <1>3, <1>5, <1>6, <1>7, <1>8 DEF Next

-----------------------------------------------------------------------------
(* Reversals                                                               *)

\* At the start there are no entries.
LEMMA JournalStarts == Init => JournalInv
  BY EmptySeq DEF Init, JournalInv, EntryRows, ReversedOnce

\* A reversal comes after what it reverses.
LEMMA EarlierReversed ==
    ASSUME EntryRows
    PROVE  \A m \in 1..Len(entries) : entries[m].reverses \in Nat /\ entries[m].reverses < m
<1>1. \A m \in 1..Len(entries) : entries[m] \in Entry
  BY ElementOfSeq DEF EntryRows
<1> QED BY <1>1 DEF EntryRows, Entry

\* A new entry undoes none.
LEMMA RecordedKeeps ==
    ASSUME JournalInv, NEW e, Recorded1(e)
    PROVE  JournalInv'
<1> DEFINE L == Len(entries)
<1>1. entries \in Seq(Entry) /\ L \in Nat /\ e \in Entry /\ entries' = Append(entries, e)
  BY LenProperties DEF JournalInv, EntryRows, Recorded1
<1>2. /\ entries' \in Seq(Entry) /\ Len(entries') = L + 1
      /\ \A n \in 1..L : entries'[n] = entries[n]
      /\ entries'[L + 1] = e
      /\ 1..Len(entries') = 1..L \cup {L + 1}
  BY <1>1, AppendProperties
<1> HIDE DEF L
<1>3. EntryRows'
  BY <1>1, <1>2 DEF JournalInv, EntryRows, Recorded1, L
<1>5. \A n \in 1..L : ReversalsOf(n)' = ReversalsOf(n)
  BY <1>1, <1>2 DEF ReversalsOf, Recorded1, L
<1>6. \A k : k = L + 1 => ReversalsOf(k)' = {}
  <2>1. \A m \in 1..L : entries[m].reverses \in Nat /\ entries[m].reverses < m
    BY EarlierReversed DEF JournalInv, L
  <2> QED BY <1>1, <1>2, <2>1 DEF ReversalsOf, Recorded1
<1>7. ReversedOnce'
  <2> SUFFICES ASSUME NEW n \in 1..Len(entries')
               PROVE  IF entries'[n].status = "REVERSED"
                      THEN \E m \in ReversalsOf(n)' :
                              /\ ReversalsOf(n)' = {m}
                              /\ entries'[m].status # "DRAFT"
                              /\ \A a \in Accounts : entries'[m].net[a] = -entries'[n].net[a]
                      ELSE ReversalsOf(n)' = {}
    BY DEF ReversedOnce
  <2>1. CASE n = L + 1
    BY <1>2, <1>6, <2>1 DEF Recorded1
  <2>2. CASE n \in 1..L
    <3>1. \A m \in ReversalsOf(n) : entries'[m] = entries[m]
      BY <1>2 DEF ReversalsOf, L
    <3> QED BY <1>2, <1>5, <2>2, <3>1 DEF JournalInv, ReversedOnce, L
  <2> QED BY <1>2, <2>1, <2>2
<1> QED BY <1>3, <1>7 DEF JournalInv

WithStatus(es, n, status) == [es EXCEPT ![n].status = status]

\* What changing the status of one entry does to the sequence.
LEMMA StatusChange ==
    ASSUME NEW es \in Seq(Entry), NEW n \in 1..Len(es),
           NEW status \in {"DRAFT", "POSTED", "REVERSED"}
    PROVE  /\ WithStatus(es, n, status) \in Seq(Entry)
           /\ Len(WithStatus(es, n, status)) = Len(es)
           /\ \A m \in 1..Len(es) : m # n => WithStatus(es, n, status)[m] = es[m]
           /\ WithStatus(es, n, status)[n] \in Entry
           /\ WithStatus(es, n, status)[n].status = status
           /\ WithStatus(es, n, status)[n].net = es[n].net
           /\ WithStatus(es, n, status)[n].date = es[n].date
           /\ WithStatus(es, n, status)[n].reverses = es[n].reverses
           /\ WithStatus(es, n, status)[n].key = es[n].key
           /\ WithStatus(es, n, status)[n].source = es[n].source
           /\ WithStatus(es, n, status)[n].accts = es[n].accts
<1> DEFINE e == [es[n] EXCEPT !.status = status]
<1>1. es[n] \in Entry
  BY ElementOfSeq
<1>2. /\ e \in Entry /\ e.status = status /\ e.net = es[n].net
      /\ e.date = es[n].date /\ e.reverses = es[n].reverses
      /\ e.key = es[n].key /\ e.source = es[n].source /\ e.accts = es[n].accts
  BY <1>1 DEF Entry
<1>3. WithStatus(es, n, status) = [es EXCEPT ![n] = e]
  BY DEF WithStatus
<1> HIDE DEF e
<1>4. /\ [es EXCEPT ![n] = e] \in Seq(Entry) /\ Len([es EXCEPT ![n] = e]) = Len(es)
      /\ \A m \in 1..Len(es) : [es EXCEPT ![n] = e][m] = IF m = n THEN e ELSE es[m]
  BY <1>2, ExceptSeq
<1> QED BY <1>2, <1>3, <1>4

\* Changing the status of one entry leaves the others as they are.
LEMMA OtherStatus ==
    ASSUME NEW es \in Seq(Entry), NEW n \in 1..Len(es), NEW k \in 1..Len(es), k # n,
           NEW status \in {"DRAFT", "POSTED", "REVERSED"}
    PROVE  WithStatus(es, n, status)[k] = es[k]
<1>1. es \in [1..Len(es) -> Entry]
  BY LenProperties
<1> QED BY <1>1 DEF WithStatus

\* A draft is not undone, and posting undoes nothing.
LEMMA PostedKeeps ==
    ASSUME JournalInv, NEW n, Posted1(n)
    PROVE  JournalInv'
<1>1. entries \in Seq(Entry) /\ n \in 1..Len(entries) /\ entries[n].status = "DRAFT"
      /\ entries' = [entries EXCEPT ![n].status = "POSTED"]
  BY DEF JournalInv, EntryRows, Posted1
<1> DEFINE new == WithStatus(entries, n, "POSTED")
<1>2. /\ new \in Seq(Entry) /\ Len(new) = Len(entries)
      /\ \A m \in 1..Len(entries) : m # n => new[m] = entries[m]
      /\ new[n].status = "POSTED" /\ new[n].net = entries[n].net
      /\ new[n].reverses = entries[n].reverses
  BY <1>1, StatusChange
<1>3. entries' = new
  BY <1>1 DEF WithStatus
<1> HIDE DEF new
<1>4. EntryRows'
  BY <1>2, <1>3 DEF JournalInv, EntryRows
<1>5. \A m : ReversalsOf(m)' = ReversalsOf(m)
  BY <1>2, <1>3 DEF ReversalsOf
<1>6. ReversedOnce'
  <2> SUFFICES ASSUME NEW k \in 1..Len(entries)
               PROVE  IF entries'[k].status = "REVERSED"
                      THEN \E m \in ReversalsOf(k) :
                              /\ ReversalsOf(k) = {m}
                              /\ entries'[m].status # "DRAFT"
                              /\ \A a \in Accounts : entries'[m].net[a] = -entries'[k].net[a]
                      ELSE ReversalsOf(k) = {}
    BY <1>2, <1>3, <1>5 DEF ReversedOnce
  <2>1. \A m \in 1..Len(entries) : entries'[m].net = entries[m].net
                                   /\ (entries[m].status # "DRAFT" => entries'[m].status # "DRAFT")
                                   /\ (entries'[m].status = "REVERSED" <=> entries[m].status = "REVERSED")
    BY <1>1, <1>2, <1>3
  <2>2. ReversalsOf(k) \subseteq 1..Len(entries)
    BY DEF ReversalsOf
  <2>3. IF entries[k].status = "REVERSED"
        THEN \E m \in ReversalsOf(k) :
                /\ ReversalsOf(k) = {m}
                /\ entries[m].status # "DRAFT"
                /\ \A a \in Accounts : entries[m].net[a] = -entries[k].net[a]
        ELSE ReversalsOf(k) = {}
    BY DEF JournalInv, ReversedOnce
  <2> QED BY <2>1, <2>2, <2>3
<1> QED BY <1>4, <1>6 DEF JournalInv

\* A reversal is the one entry that undoes the entry it marks.
LEMMA ReversedKeeps ==
    ASSUME JournalInv, NEW n, NEW d, Reversed1(n, d)
    PROVE  JournalInv'
<1> DEFINE L == Len(entries)
           middle == WithStatus(entries, n, "REVERSED")
           e == ReversalOf(n, d)
<1>1. /\ entries \in Seq(Entry) /\ L \in Nat /\ n \in 1..L /\ d \in Dates
      /\ entries[n].status = "POSTED" /\ entries' = Append(middle, e)
  BY LenProperties DEF JournalInv, EntryRows, Reversed1, WithStatus
<1>2. e \in Entry /\ e.reverses = n /\ e.status = "POSTED"
      /\ e.net = [a \in Accounts |-> -entries[n].net[a]]
  BY <1>1, ReversalType DEF JournalInv, ReversalOf
<1>3. /\ middle \in Seq(Entry) /\ Len(middle) = L
      /\ \A m \in 1..L : m # n => middle[m] = entries[m]
      /\ middle[n].status = "REVERSED" /\ middle[n].net = entries[n].net
      /\ middle[n].reverses = entries[n].reverses
  BY <1>1, StatusChange
<1> HIDE DEF middle, e, L
<1>4. /\ entries' \in Seq(Entry) /\ Len(entries') = L + 1
      /\ \A m \in 1..L : entries'[m] = middle[m]
      /\ entries'[L + 1] = e
      /\ 1..Len(entries') = 1..L \cup {L + 1}
  BY <1>1, <1>2, <1>3, AppendProperties
<1>5. \A m \in 1..L : entries'[m].reverses = entries[m].reverses
                      /\ entries[m].reverses \in Nat /\ entries[m].reverses < m
  BY <1>3, <1>4, EarlierReversed DEF JournalInv, L
<1>6. EntryRows'
  BY <1>1, <1>2, <1>4, <1>5 DEF EntryRows
<1>7. ReversalsOf(n) = {}
  BY <1>1 DEF JournalInv, ReversedOnce, L
<1>8. /\ \A k \in 1..L : k # n => ReversalsOf(k)' = ReversalsOf(k)
      /\ \A k : k = n => ReversalsOf(k)' = {L + 1}
      /\ \A k : k = L + 1 => ReversalsOf(k)' = {}
  <2>1. \A k, m : m \in ReversalsOf(k)' <=> m \in ReversalsOf(k) \/ (m = L + 1 /\ k = n)
    BY <1>2, <1>4, <1>5 DEF ReversalsOf, L
  <2>2. \A k : k = L + 1 => ReversalsOf(k) = {}
    BY <1>1, <1>5 DEF ReversalsOf, L
  <2>3. L + 1 \notin 1..L
    BY <1>1
  <2>4. ASSUME NEW k \in 1..L, k # n PROVE ReversalsOf(k)' = ReversalsOf(k)
    <3>1. \A m : m \in ReversalsOf(k)' <=> m \in ReversalsOf(k)
      BY <2>1, <2>4
    <3> QED BY <3>1
  <2>5. ASSUME NEW k, k = n PROVE ReversalsOf(k)' = {L + 1}
    <3>1. ReversalsOf(k) = {}
      BY <1>7, <2>5
    <3> QED BY <2>1, <2>5, <3>1, Zenon
  <2>6. ASSUME NEW k, k = L + 1 PROVE ReversalsOf(k)' = {}
    BY <1>1, <2>1, <2>2, <2>3, <2>6, Zenon
  <2> QED BY <2>4, <2>5, <2>6
<1>9. ReversedOnce'
  <2> SUFFICES ASSUME NEW k \in 1..Len(entries')
               PROVE  IF entries'[k].status = "REVERSED"
                      THEN \E m \in ReversalsOf(k)' :
                              /\ ReversalsOf(k)' = {m}
                              /\ entries'[m].status # "DRAFT"
                              /\ \A a \in Accounts : entries'[m].net[a] = -entries'[k].net[a]
                      ELSE ReversalsOf(k)' = {}
    BY DEF ReversedOnce
  <2>1. CASE k = L + 1
    BY <1>2, <1>4, <1>8, <2>1
  <2>2. CASE k = n
    <3>1. entries'[k].status = "REVERSED" /\ entries'[k].net = entries[n].net
      BY <1>1, <1>3, <1>4, <2>2
    <3>2. ReversalsOf(k)' = {L + 1} /\ entries'[L + 1] = e
      BY <1>4, <1>8, <2>2
    <3>3. \A a \in Accounts : e.net[a] = -entries[n].net[a]
      BY <1>2
    <3> QED BY <1>2, <3>1, <3>2, <3>3
  <2>3. CASE k \in 1..L /\ k # n
    <3>1. entries'[k] = entries[k] /\ ReversalsOf(k)' = ReversalsOf(k)
      BY <1>3, <1>4, <1>8, <2>3
    <3>2. \A m \in ReversalsOf(k) : entries'[m].net = entries[m].net
                                    /\ (entries[m].status # "DRAFT" => entries'[m].status # "DRAFT")
      BY <1>3, <1>4 DEF ReversalsOf, L
    <3> QED BY <2>3, <3>1, <3>2 DEF JournalInv, ReversedOnce, L
  <2> QED BY <1>4, <2>1, <2>2, <2>3
<1> QED BY <1>6, <1>9 DEF JournalInv

\* Every step keeps the invariant.
LEMMA JournalStep ==
    ASSUME JournalInv, [Next]_vars
    PROVE  JournalInv'
<1>1. CASE Booking
  BY <1>1, RecordedKeeps, PostedKeeps, ReversedKeeps DEF Booking
<1>2. CASE UNCHANGED entries
  BY <1>2 DEF JournalInv, EntryRows, ReversedOnce, ReversalsOf
<1> QED BY <1>1, <1>2, StepKinds DEF JournalInv

\* Through any chain of postings, reversals, and reversals of reversals, an entry is REVERSED
\* exactly when one posted entry undoes it line by line.
THEOREM EntriesReversedOnce == Spec => []ReversedOnce
<1>1. JournalInv => ReversedOnce
  BY DEF JournalInv
<1> QED BY <1>1, JournalStarts, JournalStep, PTL DEF Spec

-----------------------------------------------------------------------------
(* Documents                                                               *)

\* What holds of an event's entry, given how far its document has come.
Booked(e, docs) ==
    e.key # NoKey /\ e.source = "EVENT" =>
        /\ e.status # "DRAFT"
        /\ docs[e.key] # "open"
        /\ docs[e.key] = "cancelled" => e.status = "REVERSED"

\* A document posted with auto-posting on has an entry under its key, an event's or, if
\* somebody had taken the key, a manual one; no key belongs to two entries.
BookedInv(es, docs) ==
    /\ es \in Seq(Entry)
    /\ docs \in [Keys -> Stages]
    /\ \A n \in 1..Len(es) : Booked(es[n], docs)
    /\ \A m, n \in 1..Len(es) : es[m].key # NoKey /\ es[m].key = es[n].key => m = n
    /\ \A k \in Keys : docs[k] = "posted" => \E n \in 1..Len(es) : es[n].key = k

\* A new entry under no key, or under one that no entry has.
LEMMA BookedAppend ==
    ASSUME NEW es, NEW docs, BookedInv(es, docs), NEW e \in Entry, Booked(e, docs),
           e.key # NoKey => \A n \in 1..Len(es) : es[n].key # e.key
    PROVE  BookedInv(Append(es, e), docs)
<1> DEFINE new == Append(es, e)
           L == Len(es)
<1>1. es \in Seq(Entry) /\ L \in Nat
  BY LenProperties DEF BookedInv
<1>2. /\ new \in Seq(Entry) /\ Len(new) = L + 1
      /\ \A n \in 1..L : new[n] = es[n]
      /\ new[L + 1] = e
      /\ 1..Len(new) = 1..L \cup {L + 1}
  BY <1>1, AppendProperties
<1> HIDE DEF new
<1>3. \A n \in 1..Len(new) : Booked(new[n], docs)
  BY <1>2 DEF BookedInv
<1>4. \A m, n \in 1..Len(new) : new[m].key # NoKey /\ new[m].key = new[n].key => m = n
  BY <1>2 DEF BookedInv
<1>5. \A k \in Keys : docs[k] = "posted" => \E n \in 1..Len(new) : new[n].key = k
  BY <1>2 DEF BookedInv
<1>6. BookedInv(new, docs)
  BY <1>2, <1>3, <1>4, <1>5 DEF BookedInv
<1> QED BY <1>6 DEF new

\* Another status of one entry.
LEMMA BookedStatus ==
    ASSUME NEW es, NEW docs, BookedInv(es, docs), NEW n \in 1..Len(es),
           NEW status \in {"DRAFT", "POSTED", "REVERSED"},
           Booked([es[n] EXCEPT !.status = status], docs)
    PROVE  BookedInv(WithStatus(es, n, status), docs)
<1> DEFINE new == WithStatus(es, n, status)
<1>1. es \in Seq(Entry)
  BY DEF BookedInv
<1>2. new \in Seq(Entry) /\ Len(new) = Len(es)
      /\ \A m \in 1..Len(es) : m # n => new[m] = es[m]
  <2>1. new \in Seq(Entry)
    BY <1>1, StatusChange
  <2>2. Len(new) = Len(es)
    BY DEF WithStatus
  <2>3. \A m \in 1..Len(es) : m # n => new[m] = es[m]
    BY <1>1, OtherStatus
  <2> QED BY <2>1, <2>2, <2>3
<1>3. es[n] \in Entry
  BY <1>1, ElementOfSeq
<1>4. new[n] = [es[n] EXCEPT !.status = status]
  <2>1. es \in [1..Len(es) -> Entry]
    BY <1>1, LenProperties
  <2> QED BY <2>1 DEF WithStatus
<1>5. new[n].key = es[n].key
  BY <1>3, <1>4 DEF Entry
<1> HIDE DEF new
<1>6. \A m \in 1..Len(es) : new[m].key = es[m].key
  BY <1>2, <1>5
<1>7. \A m \in 1..Len(es) : Booked(new[m], docs)
  BY <1>2, <1>4 DEF BookedInv
<1>8. docs \in [Keys -> Stages]
      /\ \A k, m \in 1..Len(es) : new[k].key # NoKey /\ new[k].key = new[m].key => k = m
  BY <1>6 DEF BookedInv
<1>9. \A k \in Keys : docs[k] = "posted" => \E m \in 1..Len(es) : new[m].key = k
  BY <1>6 DEF BookedInv
<1>10. BookedInv(new, docs)
  BY <1>2, <1>7, <1>8, <1>9 DEF BookedInv
<1> QED BY <1>10 DEF new

\* Another stage of one document.
LEMMA BookedStage ==
    ASSUME NEW es, NEW docs, BookedInv(es, docs), NEW k \in Keys, NEW stage \in Stages,
           \A n \in 1..Len(es) : es[n].key = k /\ es[n].source = "EVENT" =>
               /\ stage # "open" /\ es[n].status # "DRAFT"
               /\ stage = "cancelled" => es[n].status = "REVERSED",
           stage = "posted" => \E n \in 1..Len(es) : es[n].key = k
    PROVE  BookedInv(es, [docs EXCEPT ![k] = stage])
<1> DEFINE new == [docs EXCEPT ![k] = stage]
<1>1. docs \in [Keys -> Stages]
  BY DEF BookedInv
<1>2. new \in [Keys -> Stages] /\ new[k] = stage /\ \A j \in Keys : j # k => new[j] = docs[j]
  BY <1>1
<1>3. \A n \in 1..Len(es) : es[n] \in Entry
  BY ElementOfSeq DEF BookedInv
<1> HIDE DEF new
<1>4. ASSUME NEW n \in 1..Len(es) PROVE Booked(es[n], new)
  <2>1. es[n] \in Entry /\ Booked(es[n], docs)
    BY <1>3 DEF BookedInv
  <2>2. es[n].key # NoKey => es[n].key \in Keys
    BY <2>1 DEF Entry
  <2> QED BY <1>2, <2>1, <2>2 DEF Booked
<1>5. \A j \in Keys : new[j] = "posted" => \E n \in 1..Len(es) : es[n].key = j
  BY <1>2 DEF BookedInv
<1>6. BookedInv(es, new)
  BY <1>2, <1>4, <1>5 DEF BookedInv
<1> QED BY <1>6 DEF new

\* At the start every document is open and there are no entries.
LEMMA BookedStarts == Init => BookedInv(entries, documents)
  BY EmptySeq DEF Init, BookedInv, Stages

\* A reversal marks its entry, and its own row is under no key.
LEMMA BookedReverse ==
    ASSUME BookedInv(entries, documents), EntryRows, NEW n \in 1..Len(entries),
           NEW d \in Dates, Reverse(n, d)
    PROVE  /\ BookedInv(entries', documents)
           /\ \A m \in 1..Len(entries') : entries'[m].key # NoKey => 
                  m \in 1..Len(entries) /\ entries'[m].key = entries[m].key
                  /\ (m = n => entries'[m].status = "REVERSED")
                  /\ entries'[m].source = entries[m].source
<1> DEFINE middle == WithStatus(entries, n, "REVERSED")
           e == ReversalOf(n, d)
           L == Len(entries)
<1>1. entries' = Append(middle, e)
  BY DEF Reverse, WithStatus
<1>2. e \in Entry /\ e.key = NoKey
  BY ReversalType DEF ReversalOf
<1>3. entries \in Seq(Entry) /\ L \in Nat /\ entries[n] \in Entry
  BY ElementOfSeq, LenProperties DEF EntryRows
<1>4. Booked([entries[n] EXCEPT !.status = "REVERSED"], documents)
  <2>1. Booked(entries[n], documents)
    BY DEF BookedInv
  <2> QED BY <1>3, <2>1 DEF Booked, Entry
<1>5. BookedInv(middle, documents)
  BY <1>4, BookedStatus
<1>6. middle \in Seq(Entry) /\ Len(middle) = L
      /\ middle[n].status = "REVERSED"
      /\ \A m \in 1..L : middle[m].key = entries[m].key /\ middle[m].source = entries[m].source
  <2>1. /\ middle \in Seq(Entry) /\ Len(middle) = L
        /\ middle[n].status = "REVERSED"
        /\ middle[n].key = entries[n].key /\ middle[n].source = entries[n].source
    BY <1>3, StatusChange
  <2>2. \A m \in 1..L : m # n => middle[m] = entries[m]
    BY <1>3, OtherStatus
  <2> HIDE DEF middle
  <2> QED BY <2>1, <2>2
<1> HIDE DEF middle, e
<1>7. BookedInv(entries', documents)
  BY <1>1, <1>2, <1>5, BookedAppend DEF Booked
<1>8. /\ 1..Len(entries') = 1..L \cup {L + 1} /\ entries'[L + 1] = e
      /\ \A m \in 1..L : entries'[m] = middle[m]
  <2>1. middle \in Seq(Entry)
    BY <1>6
  <2>2. /\ Len(Append(middle, e)) = Len(middle) + 1
        /\ Append(middle, e)[Len(middle) + 1] = e
        /\ \A m \in 1..Len(middle) : Append(middle, e)[m] = middle[m]
    BY ONLY <1>2, <2>1, AppendProperties
  <2>3. Len(entries') = Len(middle) + 1 /\ entries'[Len(middle) + 1] = e
        /\ \A m \in 1..Len(middle) : entries'[m] = middle[m]
    BY ONLY <1>1, <2>2
  <2> HIDE DEF L
  <2> QED BY <1>3, <1>6, <2>3
<1> QED BY <1>2, <1>6, <1>7, <1>8

\* A draft under a key no entry has.
LEMMA BookedCreate ==
    ASSUME BookedInv(entries, documents), NEW lines \in LineSets, NEW d \in Dates,
           NEW k \in Keys \cup {NoKey}, CreateEntry(lines, d, k)
    PROVE  BookedInv(entries, documents)'
<1> DEFINE e == [accts |-> lines.accts, net |-> lines.net, date |-> d, status |-> "DRAFT",
                 source |-> "MANUAL", key |-> k, reverses |-> 0]
<1>1. e \in Entry
  BY LineSetsAssumption DEF Entry, Lines
<1>2. Booked(e, documents) /\ (e.key # NoKey => \A n \in 1..Len(entries) : entries[n].key # e.key)
  BY DEF CreateEntry, EntriesWithKey, Booked
<1>3. entries' = Append(entries, e) /\ documents' = documents
  BY DEF CreateEntry
<1> HIDE DEF e
<1> QED BY <1>1, <1>2, <1>3, BookedAppend

\* A draft is no event's entry.
LEMMA BookedPost ==
    ASSUME BookedInv(entries, documents), NEW n \in 1..Len(entries), PostEntry(n)
    PROVE  BookedInv(entries, documents)'
<1>1. Booked(entries[n], documents) /\ entries[n] \in Entry /\ entries[n].status = "DRAFT"
  BY ElementOfSeq DEF BookedInv, PostEntry
<1>2. Booked([entries[n] EXCEPT !.status = "POSTED"], documents)
  BY <1>1 DEF Booked, Entry
<1>3. entries' = WithStatus(entries, n, "POSTED") /\ documents' = documents
  BY DEF PostEntry, WithStatus
<1> QED BY <1>2, <1>3, BookedStatus

\* A document is posted: its entry, if it gets one, comes with it.
LEMMA BookedPublish ==
    ASSUME BookedInv(entries, documents), NEW k \in Keys, NEW lines \in LineSets,
           NEW d \in Dates, Publish(k, lines, d)
    PROVE  BookedInv(entries, documents)'
<1> DEFINE e == EventEntry(k, lines, d)
           quiet == [documents EXCEPT ![k] = "quiet"]
<1>1. documents \in [Keys -> Stages] /\ documents[k] = "open"
  BY DEF BookedInv, Publish
<1>2. \A n \in 1..Len(entries) : ~(entries[n].key = k /\ entries[n].source = "EVENT")
  BY <1>1, KeysAssumption DEF BookedInv, Booked
<1>3. quiet \in [Keys -> Stages] /\ quiet[k] = "quiet"
  BY <1>1 DEF Stages
<1>4. BookedInv(entries, quiet)
  BY <1>2, BookedStage DEF Stages
<1>5. CASE settings.autoPosting /\ EntriesWithKey(k) = {}
  <2>1. e \in Entry /\ e.key = k /\ e.status = "POSTED"
    BY LineSetsAssumption DEF EventEntry, Entry, Lines
  <2>2. entries' = Append(entries, e) /\ documents' = [documents EXCEPT ![k] = "posted"]
    BY <1>5 DEF Publish
  <2>3. documents' = [quiet EXCEPT ![k] = "posted"]
    BY <1>1, <2>2
  <2>4. Booked(e, quiet) /\ \A n \in 1..Len(entries) : entries[n].key # e.key
    BY <1>3, <1>5, <2>1 DEF Booked, EntriesWithKey
  <2> HIDE DEF e, quiet
  <2>5. BookedInv(entries', quiet)
    BY <1>4, <2>1, <2>2, <2>4, BookedAppend
  <2>6. entries \in Seq(Entry)
    BY DEF BookedInv
  <2>7. /\ \A n \in 1..Len(entries) : entries'[n] = entries[n]
        /\ 1..Len(entries') = 1..Len(entries) \cup {Len(entries) + 1}
        /\ entries'[Len(entries) + 1] = e
    BY <2>1, <2>2, <2>6, AppendProperties, LenProperties
  <2>8. \A n \in 1..Len(entries') : entries'[n].key = k => entries'[n].status # "DRAFT"
    BY <2>1, <2>4, <2>7
  <2>9. \E n \in 1..Len(entries') : entries'[n].key = k
    BY <2>1, <2>7
  <2> QED BY <2>3, <2>5, <2>8, <2>9, BookedStage DEF Stages
<1>6. CASE settings.autoPosting /\ EntriesWithKey(k) # {}
  <2>1. entries' = entries /\ documents' = [documents EXCEPT ![k] = "posted"]
    BY <1>6 DEF Publish
  <2>2. \E n \in 1..Len(entries) : entries[n].key = k
    BY <1>6 DEF EntriesWithKey
  <2> QED BY <1>2, <2>1, <2>2, BookedStage DEF Stages
<1>7. CASE ~settings.autoPosting
  <2>1. entries' = entries /\ documents' = quiet
    BY <1>7 DEF Publish
  <2> QED BY <1>4, <2>1
<1> QED BY <1>5, <1>6, <1>7

\* A document is cancelled: with auto-posting on, its entry no longer stands.
LEMMA BookedCancel ==
    ASSUME BookedInv(entries, documents), EntryRows, NEW k \in Keys, NEW d \in Dates,
           ReverseDocument(k, d)
    PROVE  BookedInv(entries, documents)'
<1> DEFINE stage == IF settings.autoPosting THEN "cancelled" ELSE "dropped"
<1>1. documents' = [documents EXCEPT ![k] = stage] /\ stage \in Stages /\ stage # "open"
      /\ stage # "posted"
  BY DEF ReverseDocument, Stages
<1>2. \A n \in 1..Len(entries) : Booked(entries[n], documents)
  BY DEF BookedInv
<1>3. \A n \in 1..Len(entries) : entries[n] \in Entry
  BY ElementOfSeq DEF EntryRows
<1>4. \A n \in 1..Len(entries) : entries[n].key = k /\ entries[n].source = "EVENT" =>
          entries[n].status # "DRAFT"
  BY <1>2, KeysAssumption DEF Booked
<1>5. CASE settings.autoPosting /\ \E n \in EntriesWithKey(k) : entries[n].status = "POSTED"
  <2>1. PICK n \in EntriesWithKey(k) : Reverse(n, d)
    BY <1>5 DEF ReverseDocument
  <2>2. n \in 1..Len(entries) /\ entries[n].key = k
    BY <2>1 DEF EntriesWithKey
  <2>3. /\ BookedInv(entries', documents)
        /\ \A m \in 1..Len(entries') : entries'[m].key # NoKey => 
                  m \in 1..Len(entries) /\ entries'[m].key = entries[m].key
                  /\ (m = n => entries'[m].status = "REVERSED")
                  /\ entries'[m].source = entries[m].source
    BY <2>1, <2>2, BookedReverse
  <2>4. \A m \in 1..Len(entries) : entries[m].key = k => m = n
    BY <2>2, KeysAssumption DEF BookedInv
  <2>5. \A m \in 1..Len(entries') : entries'[m].key = k => entries'[m].status = "REVERSED"
    BY <2>3, <2>4, KeysAssumption
  <2> HIDE DEF stage
  <2> QED BY <1>1, <2>3, <2>5, BookedStage
<1>6. CASE ~(settings.autoPosting /\ \E n \in EntriesWithKey(k) : entries[n].status = "POSTED")
  <2>1. entries' = entries
    BY <1>6 DEF ReverseDocument
  <2>2. \A n \in 1..Len(entries) : entries[n].status \in {"DRAFT", "POSTED", "REVERSED"}
    BY <1>3 DEF Entry
  <2>3. stage = "cancelled" => \A n \in 1..Len(entries) : entries[n].key = k =>
            entries[n].status # "POSTED"
    BY <1>6 DEF EntriesWithKey
  <2> HIDE DEF stage
  <2> QED BY <1>1, <1>4, <2>1, <2>2, <2>3, BookedStage
<1> QED BY <1>5, <1>6

\* Every step keeps it.
LEMMA BookedStep ==
    ASSUME BookedInv(entries, documents), EntryRows, [Next]_vars
    PROVE  BookedInv(entries, documents)'
<1>1. CASE (CalendarNext /\ UNCHANGED journal) \/ UNCHANGED vars
  BY <1>1 DEF journal, vars
<1>2. ASSUME NEW n \in 1..Len(entries), NEW d \in Dates, ReverseEntry(n, d)
      PROVE  BookedInv(entries, documents)'
  <2>1. Reverse(n, d) /\ documents' = documents
    BY <1>2 DEF ReverseEntry
  <2> QED BY <2>1, BookedReverse
<1>3. CASE \/ \E a \in Accounts : UpdateAccount(a) \/ DeleteAccount(a)
           \/ UpdateSettings
           \/ \E n \in 1..Len(entries), what \in {"post", "reverse"} : Approve(what, n)
  BY <1>3 DEF UpdateAccount, DeleteAccount, UpdateSettings, Approve
<1> QED BY <1>1, <1>2, <1>3, BookedCreate, BookedPost, BookedPublish, BookedCancel DEF Next

\* A document posted with auto-posting on is in the books, and once it is cancelled with
\* auto-posting on its entry no longer stands, unless a manual entry had taken its key:
\* publish and reverse_document do their part or refuse the document with it.
THEOREM DocumentsInTheBooks == Spec => []DocumentsBooked
<1>1. BookedInv(entries, documents) => DocumentsBooked
  <2> SUFFICES ASSUME BookedInv(entries, documents), NEW k \in Keys,
                      \A n \in EntriesWithKey(k) : entries[n].source = "EVENT"
               PROVE  /\ documents[k] = "posted" =>
                            \E n \in EntriesWithKey(k) : entries[n].status # "DRAFT"
                      /\ documents[k] = "cancelled" =>
                            \A n \in EntriesWithKey(k) : entries[n].status = "REVERSED"
    BY DEF DocumentsBooked
  <2>1. \A n \in EntriesWithKey(k) : n \in 1..Len(entries) /\ entries[n].key = k
    BY DEF EntriesWithKey
  <2>2. \A n \in EntriesWithKey(k) : Booked(entries[n], documents)
    BY <2>1 DEF BookedInv
  <2>3. documents[k] = "posted" => EntriesWithKey(k) # {}
    BY DEF BookedInv, EntriesWithKey
  <2> QED BY <2>1, <2>2, <2>3, KeysAssumption DEF Booked
<1>2. JournalInv => EntryRows
  BY DEF JournalInv
<1> QED BY <1>1, <1>2, BookedStarts, BookedStep, JournalStarts, JournalStep, PTL DEF Spec

-----------------------------------------------------------------------------
(* What the entries amount to                                              *)

\* An entry has amounts on the accounts it names only; once posted it balances, and the
\* accounts it names are live.
Sound(e, accs) ==
    /\ \A a \in Accounts \ e.accts : e.net[a] = 0
    /\ e.status # "DRAFT" => Balanced(e.net) /\ \A a \in e.accts : accs[a].live

SoundInv(es, accs) ==
    /\ es \in Seq(Entry)
    /\ accs \in [Accounts -> [live: BOOLEAN, postable: BOOLEAN]]
    /\ \A n \in 1..Len(es) : Sound(es[n], accs)

\* A new sound entry.
LEMMA SoundAppend ==
    ASSUME NEW es, NEW accs, SoundInv(es, accs), NEW e \in Entry, Sound(e, accs)
    PROVE  SoundInv(Append(es, e), accs)
<1> DEFINE new == Append(es, e)
           L == Len(es)
<1>1. es \in Seq(Entry) /\ L \in Nat
  BY LenProperties DEF SoundInv
<1>2. /\ new \in Seq(Entry) /\ Len(new) = L + 1
      /\ \A n \in 1..L : new[n] = es[n]
      /\ new[L + 1] = e
      /\ 1..Len(new) = 1..L \cup {L + 1}
  BY <1>1, AppendProperties
<1> HIDE DEF new
<1>3. \A n \in 1..Len(new) : Sound(new[n], accs)
  BY <1>2 DEF SoundInv
<1>4. SoundInv(new, accs)
  BY <1>2, <1>3 DEF SoundInv
<1> QED BY <1>4 DEF new

\* Another status of one entry.
LEMMA SoundStatus ==
    ASSUME NEW es, NEW accs, SoundInv(es, accs), NEW n \in 1..Len(es),
           NEW status \in {"POSTED", "REVERSED"},
           Balanced(es[n].net), \A a \in es[n].accts : accs[a].live
    PROVE  SoundInv(WithStatus(es, n, status), accs)
<1> DEFINE new == WithStatus(es, n, status)
<1>1. es \in Seq(Entry) /\ Sound(es[n], accs)
  BY DEF SoundInv
<1>2. /\ new \in Seq(Entry)
      /\ new[n].accts = es[n].accts /\ new[n].net = es[n].net
  BY <1>1, StatusChange, status \in {"DRAFT", "POSTED", "REVERSED"}
<1>3. Len(new) = Len(es)
  BY DEF WithStatus
<1>4. \A m \in 1..Len(es) : m # n => new[m] = es[m]
  BY <1>1, OtherStatus
<1> HIDE DEF new
<1>5. Sound(new[n], accs)
  BY <1>1, <1>2 DEF Sound
<1>6. \A m \in 1..Len(new) : Sound(new[m], accs)
  BY <1>3, <1>4, <1>5 DEF SoundInv
<1>7. SoundInv(new, accs)
  BY <1>2, <1>6 DEF SoundInv
<1> QED BY <1>7 DEF new

\* At the start there are no entries and every account is live.
LEMMA SoundStarts == Init => SoundInv(entries, accounts)
  BY EmptySeq DEF Init, SoundInv

\* A reversal balances as what it reverses does.
LEMMA SoundReverse ==
    ASSUME SoundInv(entries, accounts), EntryRows, NEW n \in 1..Len(entries),
           NEW d \in Dates, Reverse(n, d)
    PROVE  SoundInv(entries', accounts)
<1> DEFINE middle == WithStatus(entries, n, "REVERSED")
           e == ReversalOf(n, d)
<1>1. /\ entries' = Append(middle, e) /\ entries[n].status = "POSTED"
      /\ Balanced(e.net) /\ \A a \in e.accts : accounts[a].live
  BY DEF Reverse, WithStatus, Postable
<1>2. /\ e \in Entry /\ e.accts = entries[n].accts
      /\ \A a \in Accounts : e.net[a] = -entries[n].net[a]
  BY ReversalType DEF ReversalOf
<1>3. Sound(entries[n], accounts)
  BY DEF SoundInv
<1>4. \A a \in Accounts \ e.accts : e.net[a] = 0
  BY <1>2, <1>3 DEF Sound
<1> HIDE DEF middle, e
<1>5. Sound(e, accounts)
  BY <1>1, <1>4 DEF Sound
<1>6. SoundInv(middle, accounts)
  BY <1>1, <1>3, SoundStatus DEF Sound, middle
<1> QED BY <1>1, <1>2, <1>5, <1>6, SoundAppend

\* An account is deleted only when no entry names it.
LEMMA SoundDelete ==
    ASSUME SoundInv(entries, accounts), NEW x \in Accounts, DeleteAccount(x)
    PROVE  SoundInv(entries, accounts)'
<1>1. /\ entries' = entries /\ accounts' = [accounts EXCEPT ![x].live = FALSE]
      /\ \A n \in 1..Len(entries) : x \notin entries[n].accts
  BY DEF DeleteAccount
<1>2. entries \in Seq(Entry) /\ accounts \in [Accounts -> [live: BOOLEAN, postable: BOOLEAN]]
  BY DEF SoundInv
<1>3. /\ accounts' \in [Accounts -> [live: BOOLEAN, postable: BOOLEAN]]
      /\ \A a \in Accounts : a # x => accounts'[a] = accounts[a]
  BY <1>1, <1>2
<1>4. ASSUME NEW n \in 1..Len(entries) PROVE Sound(entries[n], accounts')
  <2>1. Sound(entries[n], accounts) /\ entries[n] \in Entry
    BY <1>2, ElementOfSeq DEF SoundInv
  <2>2. \A a \in entries[n].accts : a \in Accounts /\ a # x
    BY <1>1, <2>1 DEF Entry
  <2> QED BY <1>3, <2>1, <2>2 DEF Sound
<1> QED BY <1>1, <1>2, <1>3, <1>4 DEF SoundInv

\* The postable flag is not what the posted entries rest on.
LEMMA SoundUpdate ==
    ASSUME SoundInv(entries, accounts), NEW x \in Accounts, UpdateAccount(x)
    PROVE  SoundInv(entries, accounts)'
<1>1. entries' = entries /\ accounts' = [accounts EXCEPT ![x].postable = ~@]
  BY DEF UpdateAccount
<1>2. entries \in Seq(Entry) /\ accounts \in [Accounts -> [live: BOOLEAN, postable: BOOLEAN]]
  BY DEF SoundInv
<1>3. /\ accounts' \in [Accounts -> [live: BOOLEAN, postable: BOOLEAN]]
      /\ \A a \in Accounts : accounts'[a].live = accounts[a].live
  BY <1>1, <1>2
<1>4. ASSUME NEW n \in 1..Len(entries) PROVE Sound(entries[n], accounts')
  <2>1. Sound(entries[n], accounts) /\ entries[n] \in Entry
    BY <1>2, ElementOfSeq DEF SoundInv
  <2>2. \A a \in entries[n].accts : a \in Accounts
    BY <2>1 DEF Entry
  <2> QED BY <1>3, <2>1, <2>2 DEF Sound
<1> QED BY <1>1, <1>2, <1>3, <1>4 DEF SoundInv

\* Every step keeps the entries sound.
LEMMA SoundStep ==
    ASSUME SoundInv(entries, accounts), EntryRows, [Next]_vars
    PROVE  SoundInv(entries, accounts)'
<1>1. CASE (CalendarNext /\ UNCHANGED journal) \/ UNCHANGED vars
  BY <1>1 DEF journal, vars
<1>2. ASSUME NEW lines \in LineSets, NEW d \in Dates, NEW k \in Keys \cup {NoKey},
             CreateEntry(lines, d, k)
      PROVE  SoundInv(entries, accounts)'
  <2> DEFINE e == [accts |-> lines.accts, net |-> lines.net, date |-> d, status |-> "DRAFT",
                   source |-> "MANUAL", key |-> k, reverses |-> 0]
  <2>1. e \in Entry /\ Sound(e, accounts)
    BY LineSetsAssumption, NetOfLinesAssumption DEF Entry, Lines, Sound
  <2>2. entries' = Append(entries, e) /\ accounts' = accounts
    BY <1>2 DEF CreateEntry
  <2> HIDE DEF e
  <2> QED BY <2>1, <2>2, SoundAppend
<1>3. ASSUME NEW n \in 1..Len(entries), PostEntry(n)
      PROVE  SoundInv(entries, accounts)'
  <2>1. /\ entries' = WithStatus(entries, n, "POSTED") /\ accounts' = accounts
        /\ Balanced(entries[n].net) /\ \A a \in entries[n].accts : accounts[a].live
    BY <1>3 DEF PostEntry, Postable, WithStatus
  <2> QED BY <2>1, SoundStatus
<1>4. ASSUME NEW n \in 1..Len(entries), NEW d \in Dates, ReverseEntry(n, d)
      PROVE  SoundInv(entries, accounts)'
  <2>1. Reverse(n, d) /\ accounts' = accounts
    BY <1>4 DEF ReverseEntry
  <2> QED BY <2>1, SoundReverse
<1>5. ASSUME NEW k \in Keys, NEW lines \in LineSets, NEW d \in Dates, Publish(k, lines, d)
      PROVE  SoundInv(entries, accounts)'
  <2> DEFINE e == EventEntry(k, lines, d)
  <2>1. e \in Entry /\ \A a \in Accounts \ e.accts : e.net[a] = 0
    BY LineSetsAssumption, NetOfLinesAssumption DEF EventEntry, Entry, Lines
  <2>2. accounts' = accounts
    BY <1>5 DEF Publish
  <2>3. CASE settings.autoPosting /\ EntriesWithKey(k) = {}
    <3>1. entries' = Append(entries, e) /\ Postable(e)
      BY <1>5, <2>3 DEF Publish
    <3> HIDE DEF e
    <3>2. Sound(e, accounts)
      BY <2>1, <3>1 DEF Sound, Postable
    <3> QED BY <2>1, <2>2, <3>1, <3>2, SoundAppend
  <2>4. CASE ~(settings.autoPosting /\ EntriesWithKey(k) = {})
    BY <1>5, <2>2, <2>4 DEF Publish
  <2> QED BY <2>3, <2>4
<1>6. ASSUME NEW k \in Keys, NEW d \in Dates, ReverseDocument(k, d)
      PROVE  SoundInv(entries, accounts)'
  <2>1. accounts' = accounts /\ (UNCHANGED entries \/ \E n \in EntriesWithKey(k) : Reverse(n, d))
    BY <1>6 DEF ReverseDocument
  <2> QED BY <2>1, SoundReverse DEF EntriesWithKey
<1>7. CASE UpdateSettings \/ \E n \in 1..Len(entries), what \in {"post", "reverse"} : Approve(what, n)
  BY <1>7 DEF UpdateSettings, Approve
<1> QED BY <1>1, <1>2, <1>3, <1>4, <1>5, <1>6, <1>7, SoundDelete, SoundUpdate DEF Next

-----------------------------------------------------------------------------
(* Types                                                                   *)

\* The columns of what is not an entry, an account or a document.
SettingsOK ==
    /\ settings \in [autoPosting: BOOLEAN, approval: BOOLEAN]
    /\ approved \subseteq {"post", "reverse"} \X (1..Len(entries))
    /\ edits \in 0..MaxEdits

ReportsInv ==
    /\ CalendarTypeInv
    /\ JournalInv
    /\ BookedInv(entries, documents)
    /\ SoundInv(entries, accounts)
    /\ SettingsOK

\* Entries are never deleted.
LEMMA EntriesStay ==
    ASSUME EntryRows, [Next]_vars
    PROVE  Len(entries) \in Nat /\ Len(entries') \in Nat /\ Len(entries) <= Len(entries')
<1>1. entries \in Seq(Entry) /\ Len(entries) \in Nat
  BY LenProperties DEF EntryRows
<1>2. ASSUME NEW e, Recorded1(e) PROVE Len(entries') = Len(entries) + 1
  BY <1>1, <1>2, AppendProperties DEF Recorded1
<1>3. ASSUME NEW n, Posted1(n) PROVE Len(entries') = Len(entries)
  BY <1>1, <1>3 DEF Posted1
<1>4. ASSUME NEW n, NEW d, Reversed1(n, d) PROVE Len(entries') = Len(entries) + 1
  <2> DEFINE middle == WithStatus(entries, n, "REVERSED")
             e == ReversalOf(n, d)
  <2>1. entries' = Append(middle, e) /\ n \in 1..Len(entries) /\ d \in Dates
    BY <1>4 DEF Reversed1, WithStatus
  <2>2. middle \in Seq(Entry) /\ e \in Entry
    BY <1>1, <2>1, StatusChange, ReversalType
  <2>3. Len(middle) = Len(entries)
    BY DEF WithStatus
  <2> HIDE DEF middle, e
  <2> QED BY <2>1, <2>2, <2>3, AppendProperties
<1> QED BY <1>1, <1>2, <1>3, <1>4, StepKinds DEF Booking

\* Every step keeps the columns of the rest.
LEMMA SettingsStep ==
    ASSUME SettingsOK, EntryRows, [Next]_vars
    PROVE  SettingsOK'
<1>1. \A x \in {"post", "reverse"} \X (1..Len(entries)) :
          x \in {"post", "reverse"} \X (1..Len(entries'))
  BY EntriesStay
<1>2. \A x \in approved : x \in {"post", "reverse"} \X (1..Len(entries'))
  BY <1>1 DEF SettingsOK
<1>3. ASSUME UNCHANGED <<settings, approved, edits>> PROVE SettingsOK'
  BY <1>2, <1>3 DEF SettingsOK
<1>4. CASE (CalendarNext /\ UNCHANGED journal) \/ UNCHANGED vars
  BY <1>3, <1>4 DEF journal, vars
<1>5. CASE \/ \E lines \in LineSets, d \in Dates, k \in Keys \cup {NoKey} : CreateEntry(lines, d, k)
           \/ \E n \in 1..Len(entries) : PostEntry(n)
           \/ \E n \in 1..Len(entries), d \in Dates : ReverseEntry(n, d)
  BY <1>3, <1>5 DEF CreateEntry, PostEntry, ReverseEntry
<1>6. CASE \E k \in Keys, lines \in LineSets, d \in Dates : Publish(k, lines, d)
  <2>1. UNCHANGED <<settings, approved, edits>>
    BY <1>6 DEF Publish
  <2> QED BY <1>3, <2>1
<1>7. CASE \E k \in Keys, d \in Dates : ReverseDocument(k, d)
  <2>1. UNCHANGED <<settings, approved, edits>>
    BY <1>7 DEF ReverseDocument
  <2> QED BY <1>3, <2>1
<1>8. CASE (\E a \in Accounts : UpdateAccount(a) \/ DeleteAccount(a)) \/ UpdateSettings
  <2>1. edits < MaxEdits /\ edits' = edits + 1 /\ approved' = approved
        /\ settings' \in [autoPosting: BOOLEAN, approval: BOOLEAN]
    BY <1>8 DEF UpdateAccount, DeleteAccount, UpdateSettings, SettingsOK
  <2>2. edits' \in 0..MaxEdits
    BY <2>1, JournalBoundsAssumption DEF SettingsOK
  <2> QED BY <1>2, <2>1, <2>2 DEF SettingsOK
<1>9. ASSUME NEW n \in 1..Len(entries), NEW what \in {"post", "reverse"}, Approve(what, n)
      PROVE  SettingsOK'
  <2>1. approved' = approved \cup {<<what, n>>} /\ settings' = settings /\ edits' = edits
    BY <1>9 DEF Approve
  <2>2. <<what, n>> \in {"post", "reverse"} \X (1..Len(entries'))
    BY <1>1
  <2> QED BY <1>2, <2>1, <2>2 DEF SettingsOK
<1> QED BY <1>4, <1>5, <1>6, <1>7, <1>8, <1>9 DEF Next

\* Every step keeps the invariant.
LEMMA ReportsStep ==
    ASSUME ReportsInv, [Next]_vars
    PROVE  ReportsInv'
<1>1. JournalInv' /\ BookedInv(entries, documents)' /\ SoundInv(entries, accounts)' /\ SettingsOK'
  BY JournalStep, BookedStep, SoundStep, SettingsStep DEF ReportsInv, JournalInv
<1>2. [CalendarNext]_calendar
  BY DEF Next, vars, calendar, CreateEntry, PostEntry, ReverseEntry, Publish, ReverseDocument,
         UpdateAccount, DeleteAccount, UpdateSettings, Approve
<1> QED BY <1>1, <1>2, CalendarTypeStep DEF ReportsInv

\* At the start it holds.
LEMMA ReportsStart == Init => ReportsInv
<1> SUFFICES ASSUME Init PROVE ReportsInv
  OBVIOUS
<1>1. SettingsOK
  <2>1. settings \in [autoPosting: BOOLEAN, approval: {FALSE}] /\ approved = {} /\ edits = 0
    BY DEF Init
  <2>2. settings \in [autoPosting: BOOLEAN, approval: BOOLEAN]
    BY <2>1
  <2>3. 0 \in 0..MaxEdits
    BY JournalBoundsAssumption
  <2> QED BY <2>1, <2>2, <2>3 DEF SettingsOK
<1>2. CalendarInit
  BY DEF Init
<1> QED BY <1>1, <1>2, CalendarTypeStarts, JournalStarts, BookedStarts, SoundStarts DEF ReportsInv

\* It says what the columns hold.
LEMMA JournalTyped == ReportsInv => TypeOK
<1> SUFFICES ASSUME ReportsInv PROVE TypeOK
  OBVIOUS
<1>1. \A k \in Keys : \A m, n \in EntriesWithKey(k) : m = n
  BY KeysAssumption DEF ReportsInv, BookedInv, EntriesWithKey
<1>2. CalendarTypeOK /\ EntryRows /\ SettingsOK
  BY DEF ReportsInv, CalendarTypeInv, JournalInv
<1>3. /\ accounts \in [Accounts -> [live: BOOLEAN, postable: BOOLEAN]]
      /\ documents \in [Keys -> Stages]
  BY DEF ReportsInv, BookedInv, SoundInv
<1> QED BY <1>1, <1>2, <1>3 DEF TypeOK, EntryRows, SettingsOK

-----------------------------------------------------------------------------
(* The reports                                                             *)

\* What entry n shows on account a when only dates from..to are counted.
Shown(e, from, to, a) ==
    IF e.status = "POSTED" /\ from <= e.date /\ e.date <= to THEN e.net[a] ELSE 0
ShownOn(from, to, a) == [n \in 1..Len(entries) |-> Shown(entries[n], from, to, a)]
ShownTotal(from, to, a) == Total(ShownOn(from, to, a), Len(entries))

\* The entries' fields as the reports read them.
LEMMA EntryFields ==
    ASSUME EntryRows
    PROVE  /\ Len(entries) \in Nat
           /\ \A n \in 1..Len(entries) :
                 /\ entries[n] \in Entry /\ entries[n].date \in Nat
                 /\ entries[n].net \in [Accounts -> Int]
<1>1. \A n \in 1..Len(entries) : entries[n] \in Entry
  BY ElementOfSeq DEF EntryRows
<1> QED BY <1>1, LenProperties, DatesAssumption DEF EntryRows, Entry

\* The columns are integers, and so are their totals.
LEMMA ShownType ==
    ASSUME EntryRows, NEW from \in Nat, NEW to \in Nat, NEW a \in Accounts
    PROVE  /\ ShownOn(from, to, a) \in [1..Len(entries) -> Int]
           /\ ShownTotal(from, to, a) \in Int
<1>1. \A n \in 1..Len(entries) : Shown(entries[n], from, to, a) \in Int
  BY EntryFields DEF Shown
<1>2. ShownOn(from, to, a) \in [1..Len(entries) -> Int]
  BY <1>1 DEF ShownOn
<1> QED BY <1>2, EntryFields, TotalType DEF ShownTotal

\* The reports' own sums are these.
LEMMA ReportTotals ==
    ASSUME EntryRows, NEW a \in Accounts
    PROVE  /\ \A d \in Nat : TrialBalance(d, a) = ShownTotal(0, d, a)
           /\ \A f, d \in Nat : Activity(f, d, a) = ShownTotal(f, d, a)
           /\ \A f \in Nat : Opening(f + 1, a) = ShownTotal(0, f, a)
<1>1. ASSUME NEW d \in Nat PROVE TrialBalance(d, a) = ShownTotal(0, d, a)
  <2>1. [n \in 1..Len(entries) |-> IF entries[n].status = "POSTED" /\ entries[n].date <= d
                                   THEN entries[n].net[a] ELSE 0] = ShownOn(0, d, a)
    BY EntryFields DEF ShownOn, Shown
  <2> QED BY <2>1 DEF TrialBalance, ShownTotal
<1>2. ASSUME NEW f \in Nat, NEW d \in Nat PROVE Activity(f, d, a) = ShownTotal(f, d, a)
  BY DEF Activity, ShownTotal, ShownOn, Shown
<1>3. ASSUME NEW f \in Nat PROVE Opening(f + 1, a) = ShownTotal(0, f, a)
  <2>1. [n \in 1..Len(entries) |-> IF entries[n].status = "POSTED" /\ entries[n].date < f + 1
                                   THEN entries[n].net[a] ELSE 0] = ShownOn(0, f, a)
    BY EntryFields DEF ShownOn, Shown
  <2> QED BY <2>1 DEF Opening, ShownTotal
<1> QED BY <1>1, <1>2, <1>3

\* What is shown up to f and from the day after f adds up.
LEMMA ShownSplits ==
    ASSUME EntryRows, NEW f \in Nat, NEW d \in Nat, f < d, NEW a \in Accounts
    PROVE  ShownTotal(0, d, a) = ShownTotal(0, f, a) + ShownTotal(f + 1, d, a)
<1> DEFINE L == Len(entries)
           x == ShownOn(0, f, a)
           y == ShownOn(f + 1, d, a)
           z == ShownOn(0, d, a)
<1>1. L \in Nat /\ x \in [1..L -> Int] /\ y \in [1..L -> Int] /\ z \in [1..L -> Int]
  <2>1. f + 1 \in Nat /\ 0 \in Nat
    OBVIOUS
  <2> QED BY <2>1, EntryFields, ShownType
<1>2. \A n \in 1..L : z[n] = x[n] + y[n]
  BY EntryFields DEF ShownOn, Shown
<1> HIDE DEF L, x, y, z
<1>3. Total(z, L) = Total(x, L) + Total(y, L)
  BY ONLY <1>1, <1>2, TotalAdd
<1> QED BY <1>3 DEF L, x, y, z, ShownTotal

\* The trial balance of all accounts together is zero, and that of a deleted account is.
LEMMA TrialBalances ==
    ASSUME SoundInv(entries, accounts), EntryRows, NEW d \in Nat
    PROVE  /\ Total([a \in Accounts |-> ShownTotal(0, d, a)], NumAccounts) = 0
           /\ \A a \in Accounts : ~accounts[a].live => ShownTotal(0, d, a) = 0
<1> DEFINE L == Len(entries)
           row == [n \in 1..L |-> [a \in Accounts |-> Shown(entries[n], 0, d, a)]]
<1>1. L \in Nat /\ NumAccounts \in Nat /\ Accounts = 1..NumAccounts
  BY EntryFields, NumAccountsAssumption DEF Accounts
<1>2. \A n \in 1..L : \A a \in Accounts : Shown(entries[n], 0, d, a) \in Int
  BY EntryFields DEF Shown
<1>3. row \in [1..L -> [1..NumAccounts -> Int]]
  BY <1>1, <1>2
<1>4. ASSUME NEW n \in 1..L PROVE Total(row[n], NumAccounts) = 0
  <2>1. entries[n].net \in [Accounts -> Int] /\ Sound(entries[n], accounts)
    BY EntryFields DEF SoundInv
  <2>2. CASE entries[n].status = "POSTED" /\ 0 <= entries[n].date /\ entries[n].date <= d
    <3>1. row[n] = entries[n].net
      BY <2>1, <2>2 DEF Shown
    <3> QED BY <2>1, <2>2, <3>1 DEF Sound, Balanced
  <2>3. CASE ~(entries[n].status = "POSTED" /\ 0 <= entries[n].date /\ entries[n].date <= d)
    <3> DEFINE r == row[n]
    <3>1. r \in [1..NumAccounts -> Int] /\ \A a \in 1..NumAccounts : r[a] = 0
      BY <1>1, <1>3, <2>3 DEF Shown
    <3> HIDE DEF r
    <3>2. Total(r, NumAccounts) = 0
      BY ONLY <1>1, <3>1, TotalZero
    <3> QED BY <3>2 DEF r
  <2> QED BY <2>2, <2>3
<1>5. \A a \in 1..NumAccounts : ShownOn(0, d, a) = [n \in 1..L |-> row[n][a]]
  BY <1>1 DEF ShownOn
<1> DEFINE totals == [a \in Accounts |-> ShownTotal(0, d, a)]
<1>6. /\ totals \in [1..NumAccounts -> Int]
      /\ \A a \in 1..NumAccounts : totals[a] = Total([n \in 1..L |-> row[n][a]], L)
  <2> HIDE DEF row
  <2> QED BY <1>1, <1>5, ShownType DEF ShownTotal
<1>7. Total(totals, NumAccounts) = 0
  <2>1. \A n \in 1..L : Total(row[n], NumAccounts) = 0
    BY <1>4
  <2> HIDE DEF L, row, totals
  <2>2. BalancedTable(row, totals, L, NumAccounts)
    BY <1>1, <1>3, <1>6, <2>1 DEF BalancedTable
  <2> QED BY <2>2, BalancedRows
<1>8. ASSUME NEW a \in Accounts, ~accounts[a].live PROVE ShownTotal(0, d, a) = 0
  <2> DEFINE c == ShownOn(0, d, a)
  <2>1. ASSUME NEW n \in 1..L PROVE Shown(entries[n], 0, d, a) = 0
    <3>1. Sound(entries[n], accounts)
      BY DEF SoundInv
    <3> QED BY <1>8, <3>1 DEF Shown, Sound
  <2>2. c \in [1..L -> Int] /\ \A n \in 1..L : c[n] = 0
    BY <2>1, ShownType DEF ShownOn
  <2> HIDE DEF c, L
  <2>3. Total(c, L) = 0
    BY ONLY <1>1, <2>2, TotalZero
  <2> QED BY <2>3 DEF c, L, ShownTotal
<1> QED BY <1>7, <1>8

\* What a report adds up over the live accounts of some types.
Terms(types, amounts) == [a \in Accounts |-> IF a \in LiveOf(types) THEN amounts[a] ELSE 0]

\* It is made of integers.
LEMMA TermsType ==
    ASSUME NEW types, NEW amounts \in [Accounts -> Int]
    PROVE  /\ Terms(types, amounts) \in [1..NumAccounts -> Int]
           /\ Sum(types, amounts) = Total(Terms(types, amounts), NumAccounts)
           /\ Sum(types, amounts) \in Int
<1>1. Terms(types, amounts) \in [1..NumAccounts -> Int]
  BY DEF Terms, Accounts
<1>2. Sum(types, amounts) = Total(Terms(types, amounts), NumAccounts)
  BY DEF Sum, Terms
<1> QED BY <1>1, <1>2, NumAccountsAssumption, TotalType

\* Sums over the same accounts add up.
LEMMA SumAdds ==
    ASSUME NEW types, NEW f \in [Accounts -> Int], NEW g \in [Accounts -> Int],
           NEW h \in [Accounts -> Int], \A a \in Accounts : h[a] = f[a] + g[a]
    PROVE  Sum(types, h) = Sum(types, f) + Sum(types, g)
<1> DEFINE x == Terms(types, f)
           y == Terms(types, g)
           z == Terms(types, h)
           N == NumAccounts
<1>1. x \in [1..N -> Int] /\ y \in [1..N -> Int] /\ z \in [1..N -> Int] /\ N \in Nat
  BY TermsType, NumAccountsAssumption
<1>2. \A a \in 1..N : z[a] = x[a] + y[a]
  BY DEF Terms, Accounts
<1>3. Sum(types, f) = Total(x, N) /\ Sum(types, g) = Total(y, N) /\ Sum(types, h) = Total(z, N)
  BY TermsType
<1> HIDE DEF x, y, z, N
<1>4. Total(z, N) = Total(x, N) + Total(y, N)
  BY ONLY <1>1, <1>2, TotalAdd
<1> QED BY <1>3, <1>4

\* The balance sheet balances.
LEMMA BalanceSheetBalances ==
    ASSUME SoundInv(entries, accounts), EntryRows, NEW d \in Nat
    PROVE  TotalAssets(d) = Claims(d) + RetainedEarnings(d)
<1> DEFINE N == NumAccounts
           assets == Terms({"ASSET"}, Debits(d))
           claims == Terms({"LIABILITY", "EQUITY"}, Credits(d))
           earned == Terms({"REVENUE", "EXPENSE"}, Credits(d))
           rest == [a \in 1..N |-> claims[a] + earned[a]]
           trial == [a \in Accounts |-> ShownTotal(0, d, a)]
<1>1. \A a \in Accounts : ShownTotal(0, d, a) \in Int /\ TrialBalance(d, a) = ShownTotal(0, d, a)
  BY ShownType, ReportTotals
<1>2. Debits(d) \in [Accounts -> Int] /\ Credits(d) \in [Accounts -> Int]
  BY <1>1 DEF Debits, Credits
<1>3. /\ assets \in [1..N -> Int] /\ claims \in [1..N -> Int] /\ earned \in [1..N -> Int]
      /\ trial \in [1..N -> Int] /\ rest \in [1..N -> Int] /\ N \in Nat
  <2>1. assets \in [1..N -> Int] /\ claims \in [1..N -> Int] /\ earned \in [1..N -> Int]
    BY <1>2, TermsType
  <2>2. trial \in [1..N -> Int]
    BY <1>1 DEF Accounts
  <2> HIDE DEF claims, earned
  <2>3. rest \in [1..N -> Int]
    BY <2>1
  <2> QED BY <2>1, <2>2, <2>3, NumAccountsAssumption
<1>4. ASSUME NEW a \in 1..N PROVE assets[a] = rest[a] + trial[a]
  <2>1. a \in Accounts /\ TypeOf[a] \in AccountTypes
    BY TypeOfAssumption DEF Accounts
  <2>2. trial[a] \in Int /\ Debits(d)[a] = trial[a] /\ Credits(d)[a] = -trial[a]
    BY <1>1, <2>1 DEF Debits, Credits
  <2>3. ~accounts[a].live => trial[a] = 0
    BY <2>1, TrialBalances
  <2>4. /\ assets[a] = (IF accounts[a].live /\ TypeOf[a] = "ASSET" THEN trial[a] ELSE 0)
        /\ claims[a] = (IF accounts[a].live /\ TypeOf[a] \in {"LIABILITY", "EQUITY"}
                        THEN -trial[a] ELSE 0)
        /\ earned[a] = (IF accounts[a].live /\ TypeOf[a] \in {"REVENUE", "EXPENSE"}
                        THEN -trial[a] ELSE 0)
    BY <2>1, <2>2 DEF Terms, LiveOf
  <2>5. rest[a] = claims[a] + earned[a]
    OBVIOUS
  <2> HIDE DEF assets, claims, earned, rest, trial
  <2> QED BY <2>1, <2>2, <2>3, <2>4, <2>5 DEF AccountTypes
<1>5. \A a \in 1..N : rest[a] = claims[a] + earned[a]
  OBVIOUS
<1>6. /\ TotalAssets(d) = Total(assets, N) /\ Claims(d) = Total(claims, N)
      /\ RetainedEarnings(d) = Total(earned, N)
  BY <1>2, TermsType DEF TotalAssets, Claims, RetainedEarnings
<1>7. Total(trial, N) = 0
  BY TrialBalances
<1> HIDE DEF assets, claims, earned, rest, trial, N
<1>8. Total(rest, N) = Total(claims, N) + Total(earned, N)
  BY ONLY <1>3, <1>5, TotalAdd
<1>9. Total(assets, N) = Total(rest, N) + Total(trial, N)
  BY ONLY <1>3, <1>4, TotalAdd
<1>10. Total(rest, N) \in Int
  BY ONLY <1>3, TotalType
<1> QED BY <1>6, <1>7, <1>8, <1>9, <1>10

\* Retained earnings grow by the income of the dates between.
LEMMA EarningsGrow ==
    ASSUME EntryRows, NEW f \in Nat, NEW d \in Nat, f < d
    PROVE  RetainedEarnings(d) - RetainedEarnings(f) = NetIncome(f + 1, d)
<1> DEFINE types == {"REVENUE", "EXPENSE"}
           gains == [a \in Accounts |-> -Activity(f + 1, d, a)]
<1>1. ASSUME NEW a \in Accounts
      PROVE  /\ TrialBalance(f, a) \in Int /\ TrialBalance(d, a) \in Int
             /\ Activity(f + 1, d, a) \in Int
             /\ TrialBalance(d, a) = TrialBalance(f, a) + Activity(f + 1, d, a)
  <2>1. f + 1 \in Nat
    OBVIOUS
  <2> QED BY <2>1, ShownType, ReportTotals, ShownSplits
<1>2. /\ Credits(d) \in [Accounts -> Int] /\ Credits(f) \in [Accounts -> Int]
      /\ gains \in [Accounts -> Int]
      /\ \A a \in Accounts : Credits(d)[a] = Credits(f)[a] + gains[a]
  BY <1>1 DEF Credits
<1> HIDE DEF gains, types
<1>3. Sum(types, Credits(d)) = Sum(types, Credits(f)) + Sum(types, gains)
  BY <1>2, SumAdds
<1>4. Sum(types, Credits(f)) \in Int /\ Sum(types, gains) \in Int
  BY <1>2, TermsType
<1> QED BY <1>3, <1>4 DEF RetainedEarnings, NetIncome, gains, types

\* The general ledger closes where the trial balance stands.
LEMMA LedgerCloses ==
    ASSUME EntryRows, NEW f \in Nat, NEW d \in Nat, f < d, NEW a \in Accounts
    PROVE  Closing(f + 1, d, a) = TrialBalance(d, a)
<1>1. f + 1 \in Nat
  OBVIOUS
<1>2. /\ Opening(f + 1, a) = ShownTotal(0, f, a)
      /\ Activity(f + 1, d, a) = ShownTotal(f + 1, d, a)
      /\ TrialBalance(d, a) = ShownTotal(0, d, a)
  BY <1>1, ReportTotals
<1> QED BY <1>2, ShownSplits DEF Closing

\* The reports tell one story on every date: for every chart of accounts, journal and
\* calendar, the balance sheet balances, retained earnings grow by the profit and loss
\* account, and the general ledger closes where the trial balance stands.
THEOREM ReportsTellOneStory == Spec => []ReportsAgree
<1>1. ASSUME ReportsInv PROVE ReportsAgree
  <2>1. EntryRows /\ SoundInv(entries, accounts) /\ TypeOK
    BY <1>1, JournalTyped DEF ReportsInv, JournalInv
  <2>2. \A a \in LiveOf(AccountTypes) : a \in Accounts
    BY DEF LiveOf
  <2>3. \A d \in Dates : d \in Nat /\ TotalAssets(d) = Claims(d) + RetainedEarnings(d)
    BY <2>1, BalanceSheetBalances, DatesAssumption
  <2>4. ASSUME NEW d \in Dates, NEW f \in Dates, f < d
        PROVE  /\ RetainedEarnings(d) - RetainedEarnings(f) = NetIncome(f + 1, d)
               /\ \A a \in LiveOf(AccountTypes) : Closing(f + 1, d, a) = TrialBalance(d, a)
    BY <2>1, <2>2, <2>3, <2>4, EarningsGrow, LedgerCloses
  <2> QED BY <2>1, <2>3, <2>4 DEF ReportsAgree
<1> QED BY <1>1, ReportsStart, ReportsStep, PTL DEF Spec

-----------------------------------------------------------------------------
(* The books                                                               *)

\* What a sequence of entries holds on account a at date d.
Column(es, d, a) == [n \in 1..Len(es) |-> Adds(es[n], d, a)]
BookOf(es, d, a) == Total(Column(es, d, a), Len(es))

\* What an entry adds is an integer.
LEMMA AddsType ==
    ASSUME NEW e \in Entry, NEW d, NEW a \in Accounts
    PROVE  Adds(e, d, a) \in Int
  BY DEF Adds, Entry

\* Columns are integer functions and their totals integers.
LEMMA ColumnType ==
    ASSUME NEW es \in Seq(Entry), NEW d, NEW a \in Accounts
    PROVE  Column(es, d, a) \in [1..Len(es) -> Int] /\ BookOf(es, d, a) \in Int
<1>1. \A n \in 1..Len(es) : Adds(es[n], d, a) \in Int
  BY ElementOfSeq, AddsType
<1>2. Column(es, d, a) \in [1..Len(es) -> Int]
  BY <1>1 DEF Column
<1>3. Len(es) \in Nat
  BY LenProperties
<1> QED BY <1>2, <1>3, TotalType DEF BookOf

\* A new entry adds its amounts at its date.
LEMMA BookAppend ==
    ASSUME NEW es \in Seq(Entry), NEW e \in Entry, NEW d, NEW a \in Accounts
    PROVE  BookOf(Append(es, e), d, a) = BookOf(es, d, a) + Adds(e, d, a)
<1> DEFINE new == Append(es, e)
           n == Len(es)
           f == Column(es, d, a)
           g == Column(new, d, a)
<1>1. /\ new \in Seq(Entry) /\ Len(new) = n + 1 /\ n \in Nat
      /\ \A k \in 1..n : new[k] = es[k]
      /\ new[n + 1] = e
  BY AppendProperties, LenProperties
<1>2. f \in [1..n -> Int] /\ g \in [1..(n + 1) -> Int]
  BY <1>1, ColumnType
<1>3. /\ \A k \in 1..n : f[k] = g[k]
      /\ g[n + 1] = Adds(e, d, a)
  <2>1. n + 1 \in 1..Len(new) /\ \A k \in 1..n : k \in 1..Len(new)
    BY <1>1
  <2> HIDE DEF new
  <2> QED BY <1>1, <2>1 DEF Column
<1>4. Total(g, n + 1) = Total(f, n) + g[n + 1]
  <2> HIDE DEF f, g, n
  <2>1. n \in Nat
    BY <1>1
  <2> QED BY <1>2, <1>3, <2>1, TotalStep
<1> QED BY <1>1, <1>3, <1>4 DEF BookOf

\* Another status of entry n moves the books by what that status counts.
LEMMA BookStatus ==
    ASSUME NEW es \in Seq(Entry), NEW n \in 1..Len(es), NEW d, NEW a \in Accounts,
           NEW status \in {"DRAFT", "POSTED", "REVERSED"}
    PROVE  BookOf(WithStatus(es, n, status), d, a)
              = BookOf(es, d, a) + Adds(WithStatus(es, n, status)[n], d, a) - Adds(es[n], d, a)
<1> DEFINE new == WithStatus(es, n, status)
           f == Column(es, d, a)
           g == Column(new, d, a)
           L == Len(es)
<1>1. /\ new \in Seq(Entry) /\ Len(new) = L /\ L \in Nat
      /\ \A k \in 1..L : k # n => new[k] = es[k]
  <2>1. new \in Seq(Entry)
    BY StatusChange, Zenon
  <2>3. Len(new) = Len(es)
    BY DEF WithStatus
  <2>4. \A k \in 1..Len(es) : k # n => new[k] = es[k]
    BY OtherStatus
  <2>2. Len(es) \in Nat
    BY LenProperties
  <2> QED BY <2>1, <2>2, <2>3, <2>4
<1>2. f \in [1..L -> Int] /\ g \in [1..L -> Int]
  BY <1>1, ColumnType
<1>3. /\ \A k \in 1..L : k # n => g[k] = f[k]
      /\ g[n] = Adds(new[n], d, a) /\ f[n] = Adds(es[n], d, a)
  BY <1>1 DEF Column
<1>4. Total(g, L) = Total(f, L) + g[n] - f[n]
  <2> HIDE DEF f, g
  <2> QED BY <1>1, <1>2, <1>3, TotalChange
<1>5. BookOf(new, d, a) = Total(g, L) /\ BookOf(es, d, a) = Total(f, L)
  BY <1>1 DEF BookOf
<1> HIDE DEF f, g
<1> QED BY <1>3, <1>4, <1>5

\* The books move by net at date x and nowhere else.
Moves(net, x) ==
    \A d \in Dates, a \in Accounts :
        Recorded(d, a)' = Recorded(d, a) + IF d = x THEN net[a] ELSE 0

\* The books are the totals of the entries' columns.
LEMMA RecordedIsBook ==
    /\ \A d, a : Recorded(d, a) = BookOf(entries, d, a)
    /\ \A d, a : Recorded(d, a)' = BookOf(entries', d, a)
  BY DEF Recorded, BookOf, Column

\* Every booking moves the books by a balanced vector at one open date, or not at all.
LEMMA BookingMoves ==
    ASSUME EntryRows, Booking
    PROVE  \/ \A d \in Dates, a \in Accounts : Recorded(d, a)' = Recorded(d, a)
           \/ \E x \in Dates : \E net \in [Accounts -> Int] :
                  Balanced(net) /\ IsOpen(x) /\ Moves(net, x)
<1>1. entries \in Seq(Entry)
  BY DEF EntryRows
<1>2. ASSUME NEW e, Recorded1(e)
      PROVE  \/ \A d \in Dates, a \in Accounts : Recorded(d, a)' = Recorded(d, a)
             \/ Balanced(e.net) /\ IsOpen(e.date) /\ Moves(e.net, e.date)
  <2>1. e \in Entry /\ \A d \in Dates, a \in Accounts :
            /\ Recorded(d, a)' = Recorded(d, a) + Adds(e, d, a)
            /\ Recorded(d, a) \in Int
    BY <1>1, <1>2, BookAppend, ColumnType, RecordedIsBook DEF Recorded1
  <2>2. CASE e.status = "DRAFT"
    BY <2>1, <2>2 DEF Adds
  <2>3. CASE e.status = "POSTED"
    BY <1>2, <2>1, <2>3 DEF Adds, Moves, Recorded1
  <2> QED BY <1>2, <2>1, <2>2, <2>3 DEF Recorded1, Entry
<1>3. ASSUME NEW n, Posted1(n)
      PROVE  LET e == entries[n]
             IN  e \in Entry /\ Balanced(e.net) /\ IsOpen(e.date) /\ Moves(e.net, e.date)
  <2> DEFINE new == WithStatus(entries, n, "POSTED")
  <2>1. /\ n \in 1..Len(entries) /\ entries[n].status = "DRAFT" /\ entries' = new
        /\ Balanced(entries[n].net) /\ IsOpen(entries[n].date)
    BY <1>3 DEF Posted1, WithStatus
  <2>2. /\ new[n] \in Entry /\ new[n].status = "POSTED"
        /\ new[n].net = entries[n].net /\ new[n].date = entries[n].date
    BY <1>1, <2>1, StatusChange
  <2>3. \A d \in Dates, a \in Accounts :
            BookOf(new, d, a) = BookOf(entries, d, a) + Adds(new[n], d, a)
                                - Adds(entries[n], d, a)
    BY <1>1, <2>1, BookStatus
  <2>4. entries[n] \in Entry
    BY <1>1, <2>1, ElementOfSeq
  <2> HIDE DEF new
  <2>5. ASSUME NEW d \in Dates, NEW a \in Accounts
        PROVE  Recorded(d, a)' = Recorded(d, a)
                                 + IF d = entries[n].date THEN entries[n].net[a] ELSE 0
    <3>1. Adds(entries[n], d, a) = 0
      BY <2>1 DEF Adds
    <3>2. Adds(new[n], d, a) = (IF d = entries[n].date THEN entries[n].net[a] ELSE 0)
      BY <2>2 DEF Adds
    <3>3. BookOf(entries, d, a) \in Int /\ Adds(new[n], d, a) \in Int
      BY <1>1, <2>2, ColumnType, AddsType
    <3> QED BY <2>1, <2>3, <3>1, <3>2, <3>3, RecordedIsBook
  <2> QED BY <2>1, <2>4, <2>5 DEF Moves
<1>4. ASSUME NEW n, NEW d, Reversed1(n, d)
      PROVE  LET e == ReversalOf(n, d)
             IN  e \in Entry /\ e.date = d /\ d \in Dates
                 /\ Balanced(e.net) /\ IsOpen(d) /\ Moves(e.net, d)
  <2> DEFINE middle == WithStatus(entries, n, "REVERSED")
             e == ReversalOf(n, d)
  <2>1. /\ n \in 1..Len(entries) /\ entries[n].status = "POSTED" /\ d \in Dates
        /\ entries' = Append(middle, e) /\ Balanced(e.net) /\ IsOpen(d)
    BY <1>4 DEF Reversed1, WithStatus
  <2>2. e \in Entry /\ e.date = d /\ e.status = "POSTED"
    BY <2>1, ReversalType DEF ReversalOf
  <2>3. /\ middle \in Seq(Entry) /\ middle[n].status = "REVERSED"
        /\ middle[n].net = entries[n].net /\ middle[n].date = entries[n].date
    BY <1>1, <2>1, StatusChange
  <2>4. \A x \in Dates, a \in Accounts :
            BookOf(middle, x, a) = BookOf(entries, x, a) + Adds(middle[n], x, a)
                                   - Adds(entries[n], x, a)
    BY <1>1, <2>1, BookStatus
  <2>5. entries[n] \in Entry
    BY <1>1, <2>1, ElementOfSeq
  <2> HIDE DEF middle, e
  <2>6. \A x \in Dates, a \in Accounts :
            BookOf(entries', x, a) = BookOf(middle, x, a) + Adds(e, x, a)
    BY <2>1, <2>2, <2>3, BookAppend
  <2>7. ASSUME NEW x \in Dates, NEW a \in Accounts
        PROVE  Recorded(x, a)' = Recorded(x, a) + IF x = d THEN e.net[a] ELSE 0
    <3>1. Adds(middle[n], x, a) = Adds(entries[n], x, a)
      BY <2>1, <2>3 DEF Adds
    <3>2. Adds(e, x, a) = (IF x = d THEN e.net[a] ELSE 0)
      BY <2>2 DEF Adds
    <3>3. BookOf(entries, x, a) \in Int /\ Adds(entries[n], x, a) \in Int
      BY <1>1, <2>5, ColumnType, AddsType
    <3>4. BookOf(middle, x, a) = BookOf(entries, x, a)
      BY <2>4, <3>1, <3>3
    <3> QED BY <2>6, <3>2, <3>4, RecordedIsBook
  <2>8. Moves(e.net, d)
    BY <2>7 DEF Moves
  <2> QED BY <2>1, <2>2, <2>8 DEF e
<1> QED BY <1>2, <1>3, <1>4 DEF Booking, Entry, Recorded1

-----------------------------------------------------------------------------
(* The refinement                                                          *)

\* The books hold integers.
LEMMA BooksType ==
    ASSUME EntryRows
    PROVE  Books \in [Dates -> [Accounts -> Int]]
  BY ColumnType, RecordedIsBook DEF Books, EntryRows

\* The ledger adds up as the journal does.
LEMMA LedgerTotal == \A f, n : Ledger!Total(f, n) = Total(f, n)
  BY DEF Ledger!Total, Ledger!RunningTotal, Total, RunningTotal

\* Empty books are the ledger's initial state.
LEMMA StartImplements == Init => Ledger!Init
<1> SUFFICES ASSUME Init PROVE Ledger!Init
  OBVIOUS
<1>1. entries = <<>> /\ Len(entries) = 0 /\ entries \in Seq(Entry) /\ Len(periods) = 0
  BY EmptySeq DEF Init, CalendarInit
<1>2. \A d \in Dates, a \in Accounts : Recorded(d, a) = 0
  <2> SUFFICES ASSUME NEW d \in Dates, NEW a \in Accounts PROVE Recorded(d, a) = 0
    OBVIOUS
  <2>1. Column(entries, d, a) \in [1..0 -> Int]
    BY <1>1, ColumnType
  <2>2. Total(Column(entries, d, a), 0) = 0
    BY <2>1, TotalEmpty
  <2> QED BY <1>1, <2>2, RecordedIsBook DEF BookOf
<1>3. \A d : ~IsOpen(d)
  BY <1>1 DEF IsOpen, OpenPeriodsAt
<1> QED BY <1>2, <1>3 DEF Ledger!Init, Ledger!Accounts, Books, Accounts

\* A balanced move at one open date is a step of the ledger.
LEMMA MovesImplements ==
    ASSUME EntryRows, EntryRows', UNCHANGED periods,
           NEW x \in Dates, NEW net \in [Accounts -> Int],
           Balanced(net), IsOpen(x), Moves(net, x)
    PROVE  Ledger!Record(x)
<1> DEFINE open == {d \in Dates : IsOpen(d)}
           added == [a \in Accounts |-> Books'[x][a] - Books[x][a]]
<1>1. /\ Books \in [Dates -> [Accounts -> Int]]
      /\ Books' \in [Dates -> [Accounts -> Int]]
  <2>1. Books \in [Dates -> [Accounts -> Int]]
    BY BooksType
  <2>2. \A d \in Dates, a \in Accounts : Recorded(d, a)' \in Int
    BY ColumnType, RecordedIsBook DEF EntryRows
  <2> QED BY <2>1, <2>2 DEF Books
<1>2. \A d \in Dates, a \in Accounts :
          Books'[d][a] = Books[d][a] + IF d = x THEN net[a] ELSE 0
  BY DEF Moves, Books
<1>3. added = net
  <2>1. \A a \in Accounts : Books'[x][a] - Books[x][a] = net[a]
    BY <1>1, <1>2
  <2> QED BY <2>1
<1>4. Books' = [Books EXCEPT ![x] = [a \in Accounts |-> @[a] + added[a]]]
  <2>1. \A a \in Accounts : Books'[x][a] = Books[x][a] + net[a]
    BY <1>2
  <2>2. \A d \in Dates : d # x => Books'[d] = Books[d]
    BY <1>1, <1>2
  <2>3. Books'[x] = [a \in Accounts |-> Books[x][a] + net[a]]
    BY <1>1, <2>1
  <2> QED BY <1>1, <1>3, <2>2, <2>3
<1>5. open' = open /\ x \in open
  BY DEF IsOpen, OpenPeriodsAt
<1>6. Ledger!Total(added, NumAccounts) = 0
  BY <1>3, LedgerTotal DEF Balanced
<1> QED BY <1>4, <1>5, <1>6 DEF Ledger!Record, Ledger!Accounts, Accounts

\* Every step of the journal is a step of the ledger or a stutter.
LEMMA StepImplements ==
    ASSUME JournalInv, [Next]_vars
    PROVE  [Ledger!Next]_(Ledger!vars)
<1>1. EntryRows /\ EntryRows'
  BY JournalStep DEF JournalInv
<1>2. CASE (\A d \in Dates, a \in Accounts : Recorded(d, a)' = Recorded(d, a))
  <2>1. Books' = Books
    BY <1>2 DEF Books
  <2> QED BY <2>1 DEF Ledger!Next, Ledger!Calendar
<1>3. CASE UNCHANGED entries
  <2>1. Books' = Books
    BY <1>3 DEF Books, Recorded
  <2> QED BY <2>1 DEF Ledger!Next, Ledger!Calendar
<1>4. CASE Booking /\ UNCHANGED periods
  BY <1>1, <1>2, <1>4, BookingMoves, MovesImplements DEF Ledger!Next
<1> QED BY <1>1, <1>3, <1>4, StepKinds

\* The journal implements the general ledger: the books change only by balanced recordings
\* on open dates, whatever is posted, reversed or cancelled.
THEOREM JournalImplementsLedger == Spec => ImplementsLedger
  BY JournalStarts, JournalStep, StartImplements, StepImplements, PTL
     DEF Spec, ImplementsLedger, Ledger!Spec
=============================================================================
