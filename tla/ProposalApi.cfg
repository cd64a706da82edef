\* Two threads, two bots and two proposals; up to two requests are cut off.
\* The system stops when clients send nothing more.
SPECIFICATION Spec
SYMMETRY MCSymmetry
CHECK_DEADLOCK FALSE
CONSTANTS
  Workers = {w1, w2}
  BotIds = {b1, b2}
  ProposalIds = {p1, p2}
  Names = {n1, n2}
  Values <- MCValues
  NoRow = NoRow
  MaxRequests = 4
  MaxCutOff = 2
INVARIANTS
  TypeOK
  StatusExplained
  AuditTellsTheTruth
  UnloggedOnlyWhenCutOff
