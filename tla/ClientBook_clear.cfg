\* One order that rests, a gap and a snapshot; no id is beyond the table.
CONSTANTS
    c1 = c1
    Clients = {c1}
    OrderIds = {1}
    Prices = {100}
    Quantities = {1}
    MaxPriceLevels = 2
    MaxNumOrders = 4
    MaxMarketOrders = 2
    ReuseLiveIds = TRUE
    MaxRecoveries = 1
SPECIFICATION CBSpec
CHECK_DEADLOCK FALSE
INVARIANTS CopyUsable
