SPECIFICATION SpecCrash
CONSTANTS
    alice = alice
    bob = bob
    acme = acme
    QuantityScale = 2
    Account = {alice, bob}
    Symbol = {acme}
    Listed <- MCListed
    Multiplier <- MCMultiplier
    Request <- CrashTickets
    MaxOrders = 3
    MaxRestarts = 1
    InitialCash <- MCInitialCash
    MaxOrderQuantity = 2
    MaxOrderValue = 3
    AdminMayHalt = FALSE
INVARIANTS RestoredBookUncrossed OneOrphanPerCrash
PROPERTIES RestartLosesNothing WrittenFinalStays OnlyTheCallInFlightSuffers
CHECK_DEADLOCK FALSE
