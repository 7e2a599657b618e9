SPECIFICATION Spec
CONSTANTS
  Qtys = {1, 2}
  Costs = {100, 300}
  Dates = {1}
  Counts = {0}
  LegacyIn = {0, 1, 2}
  LegacyOut = {0, 1}
  AllowNegative = TRUE
  MaxId = 4
INVARIANTS
  TypeOK
  LedgerBalance
  NoOverdraw
  SnapshotCost
PROPERTIES
  ForeignRowsSurvive
  ImplementsCard
CHECK_DEADLOCK FALSE
