SPECIFICATION Spec
CONSTANTS
    Clients = {c1, c2}
    Warehouses = {w1, w2}
    Items = {i1}
    Quantities = {1}
    OpeningStock = {0, 1}
    MaxRequests = 2
    None = None
    Unread = Unread
    Unwritten = Unwritten
    Same = Same
PROPERTIES RequestsEnd
CHECK_DEADLOCK FALSE
