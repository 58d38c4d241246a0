SPECIFICATION Spec
CONSTANTS
    YearRanges <- MCYearRanges
    Counts = {2}
    MonthLength = 1
    MaxYears = 1
    MaxChanges = 1
    NumAccounts = 2
    TypeOf <- MCTypeOf
    Dates = {0, 1}
    LineSets <- MCLineSets
    Keys = {k1}
    NoKey = NoKey
    MaxEntries = 3
    MaxEdits = 1
INVARIANTS ReportsMatchBooks
CHECK_DEADLOCK FALSE
