--------------------------- MODULE FiscalCalendar ---------------------------
(***************************************************************************)
(* Fiscal years and accounting periods of one company: the dates the books *)
(* are open for.  Source: backend/app/modules/accounting/service.py.       *)
(*                                                                         *)
(* Dates are natural numbers, and every month has MonthLength of them, the *)
(* first one starting at date 0.  Approvals are decided elsewhere (see     *)
(* Approvals); here an approval of a period's reopening is granted at some *)
(* moment after the period was closed, and is never used up.               *)
(***************************************************************************)
EXTENDS Integers, Sequences, FiniteSets

CONSTANTS
    YearRanges,     \* <<first, last>> dates a fiscal year may be created with
    Counts,         \* how many periods a year may be split into
    MonthLength,
    MaxYears,       \* bound: fiscal years
    MaxChanges      \* bound: closings and reopenings

ASSUME YearRangesAssumption == \A r \in YearRanges : r \in Nat \X Nat /\ r[1] < r[2]
ASSUME CountsAssumption == Counts \subseteq 1..52
ASSUME MonthLengthAssumption == MonthLength \in Nat \ {0}
ASSUME CalendarBoundsAssumption == MaxYears \in Nat /\ MaxChanges \in Nat

VARIABLES
    years,          \* FiscalYear rows in id order
    periods,        \* AccountingPeriod rows in id order
    reopenings,     \* periods with an APPROVED request to reopen them
    changes         \* closings and reopenings so far

calendar == <<years, periods, reopenings, changes>>

PeriodStatuses == {"OPEN", "CLOSED", "REOPENED"}
Year == [first: Nat, last: Nat, status: {"OPEN", "CLOSED"}, closedEmpty: BOOLEAN]
Period == [year: Nat \ {0}, first: Nat, last: Int, status: PeriodStatuses]

PeriodsOf(y) == {p \in 1..Len(periods) : periods[p].year = y}

-----------------------------------------------------------------------------
(* Splitting a year                                                        *)

Month(d) == d \div MonthLength
MonthStart(m) == m * MonthLength
MonthEnd(m) == MonthStart(m + 1) - 1

Slice(first, last) == [first |-> first, last |-> last]

\* _split_into_periods for twelve periods: calendar months from the year's first date, at
\* most twelve, the last one stretched to the year's end.
Months(first, last) ==
    LET spanned == Month(last) - Month(first) + 1
        n == IF spanned < 12 THEN spanned ELSE 12
        m(k) == Month(first) + k - 1
    IN  [k \in 1..n |-> Slice(IF k = 1 THEN first ELSE MonthStart(m(k)),
                              IF k = n THEN last ELSE MonthEnd(m(k)))]

\* Mutant of EqualParts: the parts overlap by a day.
EqualPartsOverlapping(first, last, count) ==
    LET days == (last - first + 1) \div count
    IN  [k \in 1..count |-> Slice(first + (k - 1) * days,
                                  IF k = count THEN last ELSE first + k * days)]

\* _split_into_periods for any other count: equal parts, the last one takes the rest.  With
\* fewer days than parts, all but the last end before they start.
EqualParts(first, last, count) ==
    LET days == (last - first + 1) \div count
    IN  [k \in 1..count |-> Slice(first + (k - 1) * days,
                                  IF k = count THEN last ELSE first + k * days - 1)]

Split(first, last, count) ==
    IF count = 12 THEN Months(first, last) ELSE EqualParts(first, last, count)

-----------------------------------------------------------------------------
(* Operations                                                              *)

CalendarInit ==
    /\ years = <<>>
    /\ periods = <<>>
    /\ reopenings = {}
    /\ changes = 0

\* create_fiscal_year: nothing keeps it from overlapping another year.
CreateYear(range) ==
    /\ Len(years) < MaxYears
    /\ years' = Append(years, [first |-> range[1], last |-> range[2],
                               status |-> "OPEN", closedEmpty |-> FALSE])
    /\ UNCHANGED <<periods, reopenings, changes>>

\* generate_periods: once per year, whatever the year's status.
GeneratePeriods(y, count) ==
    LET slices == Split(years[y].first, years[y].last, count)
    IN  /\ PeriodsOf(y) = {}
        /\ periods' = periods \o
              [k \in 1..Len(slices) |-> [year |-> y, first |-> slices[k].first,
                                         last |-> slices[k].last, status |-> "OPEN"]]
        /\ UNCHANGED <<years, reopenings, changes>>

ClosePeriod(p) ==
    /\ changes < MaxChanges
    /\ changes' = changes + 1
    /\ periods[p].status # "CLOSED"
    /\ periods' = [periods EXCEPT ![p].status = "CLOSED"]
    /\ UNCHANGED <<years, reopenings>>

\* A request made by reopen_period on a closed period is approved.
ApproveReopening(p) ==
    /\ changes < MaxChanges
    /\ periods[p].status = "CLOSED"
    /\ p \notin reopenings
    /\ reopenings' = reopenings \cup {p}
    /\ UNCHANGED <<years, periods, changes>>

\* Mutant of ReopenPeriod: the request need not be approved yet.
ReopenPeriodUnapproved(p) ==
    /\ changes < MaxChanges
    /\ changes' = changes + 1
    /\ periods[p].status = "CLOSED"
    /\ periods' = [periods EXCEPT ![p].status = "REOPENED"]
    /\ UNCHANGED <<years, reopenings>>

\* reopen_period with an approval on record; the year's status is not looked at.
ReopenPeriod(p) ==
    /\ changes < MaxChanges
    /\ changes' = changes + 1
    /\ periods[p].status = "CLOSED"
    /\ p \in reopenings
    /\ periods' = [periods EXCEPT ![p].status = "REOPENED"]
    /\ UNCHANGED <<years, reopenings>>

\* close_fiscal_year: no period of the year may be open; a year without periods passes.
CloseYear(y) ==
    /\ changes < MaxChanges
    /\ changes' = changes + 1
    /\ years[y].status = "OPEN"
    /\ \A p \in PeriodsOf(y) : periods[p].status = "CLOSED"
    /\ years' = [years EXCEPT ![y].status = "CLOSED", ![y].closedEmpty = PeriodsOf(y) = {}]
    /\ UNCHANGED <<periods, reopenings>>

CalendarNext ==
    \/ \E r \in YearRanges : CreateYear(r)
    \/ \E y \in 1..Len(years), count \in Counts : GeneratePeriods(y, count)
    \/ \E p \in 1..Len(periods) : ClosePeriod(p)
    \/ \E p \in 1..Len(periods) : ApproveReopening(p)
    \/ \E p \in 1..Len(periods) : ReopenPeriod(p)
    \/ \E y \in 1..Len(years) : CloseYear(y)

CalendarSpec == CalendarInit /\ [][CalendarNext]_calendar

\* _resolve_period: the open periods date d falls in; posting takes any one of them.
OpenPeriodsAt(d) ==
    {p \in 1..Len(periods) : /\ periods[p].first <= d /\ d <= periods[p].last
                             /\ periods[p].status \in {"OPEN", "REOPENED"}}

IsOpen(d) == OpenPeriodsAt(d) # {}

-----------------------------------------------------------------------------
(* Properties                                                              *)

\* The rows have the columns' types, and a year has the periods of one split, or none.
CalendarTypeOK ==
    /\ years \in Seq(Year)
    /\ periods \in Seq(Period)
    /\ \A p \in 1..Len(periods) : periods[p].year \in 1..Len(years)
    /\ \A y \in 1..Len(years) : Cardinality(PeriodsOf(y)) \in
          {0} \cup {Len(Split(years[y].first, years[y].last, count)) : count \in Counts}
    /\ reopenings \subseteq 1..Len(periods)
    /\ changes \in 0..MaxChanges

\* The periods of a year tile it: every date of the year is in exactly one of them and no
\* other date is in any, also when the year has fewer days than periods, or more than
\* twelve months.
PeriodsTile ==
    \A y \in 1..Len(years) : PeriodsOf(y) # {} =>
        LET covers(d) == {p \in PeriodsOf(y) : periods[p].first <= d /\ d <= periods[p].last}
        IN  /\ \A d \in years[y].first..years[y].last : Cardinality(covers(d)) = 1
            /\ \A p \in PeriodsOf(y) :
                  \A d \in periods[p].first..periods[p].last :
                      d \in years[y].first..years[y].last

\* A closed year is open to postings only through a period of its own that somebody approved
\* reopening, or because it was closed before it had periods.  (Years may overlap: a date of
\* it can still be open through another year's period.)
ClosedYearIsShut ==
    \A y \in 1..Len(years) : years[y].status = "CLOSED" /\ ~years[y].closedEmpty =>
        \A p \in PeriodsOf(y) :
            \/ periods[p].status = "CLOSED"
            \/ periods[p].status = "REOPENED" /\ p \in reopenings
=============================================================================
