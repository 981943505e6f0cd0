SPECIFICATION Spec
CONSTANTS
    QuantityScale = 2
    Account = {"alice"}
    t1 = t1
    t2 = t2
    Clerk = {t1}
    Admin = "admin"
    Amount = {0, 3}
    Price = {3}
    Quantity = {1}
    PerShare = {1}
    Ratio <- MCRatio
    MaxRequests = 3
    MaxRestarts = 1
INVARIANT EveryDepositIsNew
CHECK_DEADLOCK FALSE
