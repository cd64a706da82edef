\* Both adapters; two clients whose attempts may fail on the way out or back.
SPECIFICATION Spec
SYMMETRY MCSymmetry
CONSTANTS
  Symbols <- MCSymbols
  Instruments <- MCInstruments
  AccountCurrency = "EUR"
  NoPosition = NoPosition
  OrderIds <- MCOrderIds
  Orders <- MCOrders
  Fee = 7
  MaxOrderValue = 300
  MaxPositionValue = 400
  MaxConcentration = 100
  MinCashReserve = 0
  MaxDailyLoss = 100
  Clients = {c1, c2}
  Modes <- MCModes
  InitialCash = 607
  DayStartEquity = 607
  MarketPrices <- MCMarketPrices
  MaxAttempts = 2
  NoOrder = NoOrder
  NoContext = NoContext
  MaxCalls = 3
INVARIANTS
  TypeOK
  ExecutionsMatchBook
  EveryOrderApproved
  AnswersTrue
PROPERTIES
  ReconcileSettles
  ImplementsContract
