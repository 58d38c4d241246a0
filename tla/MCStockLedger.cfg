SPECIFICATION Spec
CONSTANTS
    Warehouses = {w1, w2}
    Items = {i1}
    Quantities = {1}
    Costs = {3}
    MaxMovements = 5
SYMMETRY Symmetry
INVARIANTS LegsPaired BalanceMatchesLedger TransfersConserve AverageSound
PROPERTIES ImplementsBook
CHECK_DEADLOCK FALSE
