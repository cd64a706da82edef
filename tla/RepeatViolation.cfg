\* One client and one session; a POST is handled and its answer lost.
SPECIFICATION Spec
SYMMETRY MCSymmetry
CONSTANTS
  Clients = {c1}
  OrderIds <- MCOrderIds
  Orders <- MCOrders
  NoOrder = NoOrder
  MaxAttempts = 2
  MaxCalls = 2
  MaxRestarts = 0
INVARIANTS
  RepeatIsNotRefused
CHECK_DEADLOCK FALSE
