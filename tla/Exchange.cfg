\* One client with one id it reuses, two prices, and fewer market orders than the
\* synthesizer has entries.
CONSTANTS
    c1 = c1
    Clients = {c1}
    OrderIds = {1}
    Prices = {100, 101}
    Quantities = {1, 2}
    MaxPriceLevels = 2
    MaxNumOrders = 4
    MaxMarketOrders = 3
    ReuseLiveIds = TRUE
    NumInstruments = 2
    Instrument = 1
    TableSize = 4
    MaxDatagram = 3
    MaxUpdates = 4
SPECIFICATION XSpec
VIEW ExchangeView
INVARIANTS NothingLost SynthesizerSound NumbersAgree
CHECK_DEADLOCK FALSE
