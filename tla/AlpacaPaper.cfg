\* Two clients, three calls, requests that are lost or late, one new session.
\* The model stops when its calls are used up and nothing is under way.
SPECIFICATION Spec
SYMMETRY MCSymmetry
CONSTANTS
  Clients = {c1, c2}
  OrderIds <- MCOrderIds
  Orders <- MCOrders
  NoOrder = NoOrder
  MaxAttempts = 2
  MaxCalls = 3
  MaxRestarts = 1
INVARIANTS
  TypeOK
  KnownIsPlaced
  AnswersTrue
  OnlyPartialFillsUnreported
  NoOrphanWithoutCutOff
CHECK_DEADLOCK FALSE
