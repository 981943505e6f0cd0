SPECIFICATION Spec
CONSTANTS
    QuantityScale = 2
    Account = {"alice", "bob"}
    t1 = t1
    t2 = t2
    Clerk = {t1}
    Admin = "admin"
    Amount = {0, 3}
    Price = {3}
    Quantity = {1, 2}
    PerShare = {1}
    Ratio <- MCRatio
    MaxRequests = 5
    MaxRestarts = 1
INVARIANTS EveryHolderPaid
CHECK_DEADLOCK FALSE
