\* Callers present fresh or earlier contexts, with or without the broker's fee.
SPECIFICATION Spec
CONSTANTS
  Symbols <- MCSymbols
  Instruments <- MCInstruments
  AccountCurrency = "EUR"
  NoPosition = NoPosition
  OrderIds <- MCOrderIds
  Orders <- MCOrders
  Fee = 7
  MaxOrderValue = 300
  MaxPositionValue = 358
  MaxConcentration = 39
  MinCashReserve = 61
  MaxDailyLoss = 3
  InitialCash = 1000
  PriceLevels <- MCPriceLevels
  ContextFees <- MCAnyFees
  NoContext = NoContext
  MaxAssessments = 4
INVARIANTS
  TypeOK
  EveryExecutionApproved
  LogExplainsAccount
PROPERTIES
  BookValueConserved
  CashReserveHeld
  ExposureWithinPolicy
