SPECIFICATION Spec
CONSTANTS
    QuantityScale = 2
    OrderId = {1, 2, 3}
    Price = {3, 4}
    Quantity = {1, 2}
    Budget = {0, 2, 3}
    Multiplier = 1
INVARIANTS FillOrKillCompletes BudgetIsKept
PROPERTIES KeepsPriority
CHECK_DEADLOCK FALSE
