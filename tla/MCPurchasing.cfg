SPECIFICATION Spec
CONSTANTS
    Warehouses = {w1}
    Items = {i1}
    Quantities = {1}
    Costs = {3}
    MaxMovements = 4
    OrderPayloads <- MCOrders
    ReceiptPayloads <- MCReceipts
    BillPayloads <- MCBills
    Amounts = {1, 3}
    DueDates = {0, 1}
    CreditLimit = 2
    LineUnit = 3
    MaxVariance = 5
    Policies <- MCPolicies
    MaxSales = 1
    MaxDocuments = 3
INVARIANTS PaidIsApplied InventoryReconciles PayablesExplained OrdersApprovedFirst ReturnsWithinReceived
CHECK_DEADLOCK FALSE
