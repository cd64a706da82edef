\* Every run of four bars under any strategy and under the moving averages, three
\* consoles with a first order, three threads of the server in front of one deque.
SPECIFICATION MainSpec
SYMMETRY MCSymmetry
CONSTANTS
  Symbols <- MCSymbols
  Instruments <- MCInstruments
  AccountCurrency = "EUR"
  NoPosition = NoPosition
  OrderIds <- MCOrderIds
  Orders <- MCOrders
  Fee = 9
  MaxOrderValue = 60
  MaxPositionValue = 90
  MaxConcentration = 80
  MinCashReserve = 10
  MaxDailyLoss = 10
  InitialCash = 100
  SlippageRate = 10
  Prices <- MCPrices
  MaxBars = 4
  BenchmarkFees <- MCBenchmarkFees
  ShortWindow = 1
  LongWindow = 2
  Consoles = {c1, c2, c3}
  Quotes <- MCQuotes
  Balances <- MCBalances
  MaxTrades = 1
  Threads = {t1, t2, t3}
  Limit = 2
  Window = 2
  MaxTime = 4
  MaxArrivals = 5
INVARIANTS
  MainTypeOK
  OnlyAWorthlessSaleEndsRun
  EquityPositive
  MovingAverageTradesJustified
  DrawdownIsWorstFall
  BenchmarkWithinMeans
  FirstOrderStaysSmall
  ReportTrue
  ExactWhenAlone
  DequeBounded
PROPERTIES
  SizingMatchesRules
\* A run ends with its dataset, consoles and requests come to their ends.
CHECK_DEADLOCK FALSE
