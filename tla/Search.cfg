\* From a file to what the agent sees of it, and back.
SPECIFICATION Spec
CONSTANTS
  Files <- MCFiles
  Cost <- MCCost
  MaxTokens = 5
  Merges = {TRUE, FALSE}
  MaxLines = 2
  TopK = 3
  Budget = 15
  HeaderCost = 1
  Separator = 1
  Placeholder = 1
INVARIANTS SymbolsIndexed WithinBudget ContextFits OmissionsRecoverable
CHECK_DEADLOCK FALSE
