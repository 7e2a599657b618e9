SPECIFICATION CycleSpec
CONSTANTS
  Qtys = {1, 2}
  Costs = {100, 300}
  Dates = {1}
  Counts = {0}
  LegacyIn = {0, 3}
  LegacyOut = {0, 1, 3}
  AllowNegative = TRUE
  MaxId = 4
INVARIANTS
  NetCoverage
  LayerLedger
  FillLedger
  DiffLedger
PROPERTIES
  UnpostUndoesPost
CHECK_DEADLOCK FALSE
