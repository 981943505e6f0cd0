SPECIFICATION Spec
CONSTANTS
    alice = alice
    bob = bob
    acme = acme
    ghost = ghost
    QuantityScale = 2
    Account = {alice, bob}
    Symbol = {acme, ghost}
    Listed <- MCListed
    Multiplier <- MCMultiplier
    Request <- StopTickets
    MaxOrders = 4
    InitialCash <- MCInitialCash
    MaxOrderQuantity = 2
    MaxOrderValue = 3
    AdminMayHalt = FALSE
INVARIANTS Solvent NoStopLeftBehind EveryTradeSettles
PROPERTIES EveryCallReturns KeepsPriority
CHECK_DEADLOCK FALSE
