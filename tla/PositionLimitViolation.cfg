\* Open paper orders are judged one by one and fill together.
SPECIFICATION Spec
CONSTANTS
  Symbols <- MCSymbols
  Instruments <- MCInstruments
  AccountCurrency = "EUR"
  NoPosition = NoPosition
  OrderIds <- MCOrderIds
  Orders <- MCOrders
  Fee = 7
  MaxOrderValue = 300
  MaxPositionValue = 400
  MaxConcentration = 100
  MinCashReserve = 0
  MaxDailyLoss = 100
  Clients = {c1, c2}
  Modes <- MCPaperOnly
  InitialCash = 1000
  DayStartEquity = 1000
  MarketPrices <- MCMarketPrices
  MaxAttempts = 2
  NoOrder = NoOrder
  NoContext = NoContext
  MaxCalls = 3
INVARIANTS
  PositionValueWithinMaximum
