SPECIFICATION FilledIssueSpec
CONSTANTS
  Qtys = {1, 2}
  Costs = {100}
  Dates = {1}
  Counts = {}
  LegacyIn = {0}
  LegacyOut = {0}
  AllowNegative = TRUE
  MaxId = 5
INVARIANTS
  NetCoverage
CHECK_DEADLOCK FALSE
