\* One client of the exchange with an id it may reuse, three prices in slots of their
\* own, and as many market order ids as bring the last one beyond the table.
CONSTANTS
    c1 = c1
    Clients = {c1}
    OrderIds = {1}
    Prices = {100, 101, 102}
    Quantities = {1, 2}
    MaxPriceLevels = 3
    MaxNumOrders = 4
    MaxMarketOrders = 4
    ReuseLiveIds = TRUE
    MaxRecoveries = 1
SPECIFICATION CBSpec
VIEW ClientBookView
CHECK_DEADLOCK FALSE
INVARIANTS CopyCorrect BboSound FailsOnlyAfterClear
