SPECIFICATION EngineSpec
CONSTANTS
    Slot = {1}
    OrderId = {1, 2, 11, 12, 21, 22, 23}
    Price = {1, 3, 11}
    Quantity = {1, 2, 3}
    Client = {"bridge_proxy", "market_feeder", "other"}
    Subscriber = {"logger", "bridge_proxy"}
    Listed = {"AAPL"}
    MaxOrderQuantity = 3
    MaxOrderValue = 6
    HalfWord = 16
    PoolSize = 3
    HighWater = 1
    Ticket <- MCTicket
    MarketTrade <- MCMarketTrade
    Foreign <- MCForeign
    FirstId <- MCFirstId
    MaxSends = 2
INVARIANTS TradesAreBetweenTwoOrders
CHECK_DEADLOCK FALSE
