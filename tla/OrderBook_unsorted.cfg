\* Four prices in distinct slots: a level may be linked behind the last one.
CONSTANTS
    c1 = c1
    Clients = {c1}
    OrderIds = {1}
    Prices = {100, 101, 102, 103}
    Quantities = {1, 3}
    MaxPriceLevels = 256
    MaxNumOrders = 2048
    MaxMarketOrders = 5
    ReuseLiveIds = TRUE
SPECIFICATION Spec
VIEW BookView
PROPERTIES PriceTimePriority
