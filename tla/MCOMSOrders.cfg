SPECIFICATION Spec
CONSTANTS
    alice = alice
    bob = bob
    acme = acme
    ghost = ghost
    QuantityScale = 2
    Account = {alice, bob}
    Symbol = {acme, ghost}
    Listed <- MCListed
    Multiplier <- MCMultiplier
    Request <- OrderTickets
    MaxOrders = 3
    InitialCash <- MCInitialCash
    MaxOrderQuantity = 2
    MaxOrderValue = 3
    AdminMayHalt = TRUE
INVARIANTS TypeOK BookMatchesOrders HoldsMatchOrders PositionsFollowTape
PROPERTIES NoTradesWhileHalted
CHECK_DEADLOCK FALSE
