\* Two administrators decide on the same proposal at the same time.
SPECIFICATION Spec
SYMMETRY MCSymmetry
CHECK_DEADLOCK FALSE
CONSTANTS
  Workers = {w1, w2}
  BotIds = {b1, b2}
  ProposalIds = {p1, p2}
  Names = {n1, n2}
  Values <- MCValues
  NoRow = NoRow
  MaxRequests = 4
  MaxCutOff = 0
PROPERTIES
  DecisionIsFinal
