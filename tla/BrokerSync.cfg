\* A purchase of one share, its sale and a purchase of two, of which a request
\* returns two; the worker and one console run.
SPECIFICATION FairSpec
CONSTANTS
  MaxOrders = 3
  Quantity <- MCQuantity
  SaleOf <- MCSaleOf
  RecentLimit = 2
  ConsoleRuns = 1
  MaxCutOff = 1
INVARIANTS
  TypeOK
  PositionsExplained
  PositionsStoodTogether
  UnloggedOnlyWhenCutOff
PROPERTIES
  RowsOnlyAdvance
  EventuallyUpToDate
\* The server may be stopped for good.
CHECK_DEADLOCK FALSE
