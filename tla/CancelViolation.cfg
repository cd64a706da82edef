\* One client and one session; a DELETE is handled and its answer lost.
SPECIFICATION Spec
SYMMETRY MCSymmetry
CONSTANTS
  Clients = {c1}
  OrderIds <- MCOrderIds
  Orders <- MCOrders
  NoOrder = NoOrder
  MaxAttempts = 2
  MaxCalls = 2
  MaxRestarts = 0
INVARIANTS
  RepeatedCancelIsNotRefused
CHECK_DEADLOCK FALSE
