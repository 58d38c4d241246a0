SPECIFICATION Spec
CONSTANTS
    Clients = {c1, c2}
    Warehouses = {w1, w2}
    Items = {i1}
    Quantities = {1}
    OpeningStock = {0, 1}
    MaxRequests = 3
    None = None
    Unread = Unread
    Unwritten = Unwritten
    Same = Same
SYMMETRY Symmetry
INVARIANTS DriftNeedsOverlap
PROPERTIES FirstRowExact ShortageIsAllowed AloneIsBook
CHECK_DEADLOCK FALSE
