CONSTANTS
    c1 = c1
    c2 = c2
    Clients = {c1, c2}
    Me = c1
    OrderIds = {1, 2}
    Prices = {99, 100, 101, 102, 103}
    Quantities = {1, 2}
    MaxPriceLevels = 8
    MaxNumOrders = 6
    MaxMarketOrders = 4
    ReuseLiveIds = FALSE
    Clip = 2
    Threshold = 1
    MaxOrderSize = 2
    MaxPosition = 2
    Bbos <- SomeBbos
    OtherOrders <- SomeOrders
    MaxOnTheWay = 3
SPECIFICATION TSpec
VIEW TradingView
CHECK_DEADLOCK FALSE
INVARIANTS Tracked Agreement
PROPERTIES NewOrdersAnswered
