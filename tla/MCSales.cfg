SPECIFICATION Spec
CONSTANTS
    Warehouses = {w1}
    Items = {i1}
    Quantities = {1}
    Costs = {0, 4}
    MaxMovements = 4
    Payloads <- MCPayloads
    Returnable = {1}
    Amounts = {2}
    DueDates = {0, 1}
    CreditLimit = 3
    LineUnit = 5
    Policies <- MCPolicies
    MaxSupplies = 2
    MaxInvoices = 2
    MaxDocuments = 3
INVARIANTS CollectedIsAllocated InventoryReconciles ReceivablesExplained ReturnsWithinDelivered
PROPERTIES OldestFirst
CHECK_DEADLOCK FALSE
