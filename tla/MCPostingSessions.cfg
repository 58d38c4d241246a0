SPECIFICATION Spec
CONSTANTS
    Clients = {c1, c2}
    Documents = {d1, d2}
    CreditLimit = 1
    MaxRequests = 4
    NoDocument = NoDocument
INVARIANTS NumbersGapless DocumentsAgree UndoneOnce LimitNeedsOverlap
PROPERTIES ShutNeedsOverlap RequestsAnswered
CHECK_DEADLOCK FALSE
