SPECIFICATION Spec
CONSTANTS
    YearRanges <- MCYearRanges
    Counts <- MCCounts
    MonthLength = 1
    MaxYears = 2
    MaxChanges = 3
    c1 = c1
    b1 = b1
    w1 = w1
    w2 = w2
    k1 = k1
    k2 = k2
    e1 = e1
    e2 = e2
    Units = {c1, b1, w1, w2}
    Parent <- MCParent
    Established = {c1, b1, w1}
    Codes = {k1, k2}
    NoUnit = NoUnit
    Editors = {e1, e2}
    MaxOrgRequests = 5
    u1 = u1
    u2 = u2
    u3 = u3
    t1 = t1
    t2 = t2
    Users = {u1, u2, u3}
    FirstUser = u1
    AccessThreads = {t1, t2}
    MaxAccessRequests = 5
    n1 = n1
    n2 = n2
    n3 = n3
    m1 = m1
    m2 = m2
    Nodes = {n1, n2, n3}
    NoNode = NoNode
    Template <- MCTemplate
    Used = {n3}
    Movers = {m1, m2}
    MaxMoves = 3
    MaxTreeChanges = 4
    kg = kg
    bag = bag
    piece = piece
    MeasureUnits = {kg, bag, piece}
    UnitType <- MCUnitType
    NoMeasureUnit = NoMeasureUnit
    Scale = 4
    Factors = {3, 12}
    LineQuantities = {1, 3}
    MaxRules = 2
    MaxRuleChanges = 3
    MaxNotes = 3
    Lists = {l1, l2, l3}
    NoList = NoList
    ListThreads = {q1, q2}
    MaxListRequests = 4
SYMMETRY MCSymmetry
INVARIANTS PeriodsTile ClosedYearIsShut AdministratorRemains CyclesNeedOverlap ReturnsWithinRounding
PROPERTIES RestoresWhatItTook DefaultKept
CHECK_DEADLOCK FALSE
