\* One client with one id it may reuse, three prices in slots of their own, and quantities
\* down to 0.
CONSTANTS
    c1 = c1
    Clients = {c1}
    OrderIds = {1}
    Prices = {100, 101, 102}
    Quantities = {0, 1, 2}
    MaxPriceLevels = 4
    MaxNumOrders = 4
    MaxMarketOrders = 4
    ReuseLiveIds = TRUE
SPECIFICATION Spec
VIEW BookView
INVARIANTS NoFault BookSorted Uncrossed
PROPERTIES PriceTimePriority RequestEnds
