\* Documented: older observations are never silently deleted.
SPECIFICATION Spec
CONSTANTS
  Budget = 10
  MinSummarizeTokens = 1
  MarkerTokens = 2
  SummaryTokens = {0, 4}
  MaxRounds = 3
INVARIANTS NeverSilentlyDeleted
CHECK_DEADLOCK FALSE
