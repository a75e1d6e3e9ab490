\* Four prices share two slots: levels push each other out of their slots.
CONSTANTS
    c1 = c1
    Clients = {c1}
    OrderIds = {1, 2}
    Prices = {100, 101, 102, 103}
    Quantities = {1, 2}
    MaxPriceLevels = 2
    MaxNumOrders = 3
    MaxMarketOrders = 4
    ReuseLiveIds = TRUE
SPECIFICATION Spec
VIEW BookView
INVARIANTS TypeOK IndexSound SlotsSound Linked Fresh ArrivalOrder PriorityOrder
PROPERTIES TimePriority IndexKept
CHECK_DEADLOCK FALSE
