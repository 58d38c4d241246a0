SPECIFICATION Spec
CONSTANTS
    Clients = {c1, c2}
    Documents = {d1}
    JournalEntries = {j1}
    Users = {u1, u2}
    SharedGates = {credit, discount}
    AccountingGates = {manual}
    KeepsRefusals = TRUE
    MaxId = 2
SYMMETRY Symmetry
INVARIANTS RanWithApproval AskedOnce
PROPERTIES DecisionStands
CHECK_DEADLOCK FALSE
