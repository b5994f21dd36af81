\* Both arms.
SPECIFICATION ReplaySpec
CONSTANTS
  PerTurnSystem = 1
  MaxTurns = 4
  CallLists <- MCCallLists
  ResultTokens = {1, 5}
  Budget = 9
  MinSummarizeTokens = 1
  MarkerTokens = 2
  SummaryTokens = {2, 6}
INVARIANTS TypeOK WholeRounds SummarizedOnce OldestFirst CountsMatchTranscript PromptWithinBudget ReplaysLivePrompts OverheadNotUnderstated BaselinePaysOnce
PROPERTIES HistoryOnlyCondensed RunStops
CHECK_DEADLOCK FALSE
