\* Gold spans against the chunks of their file.
SPECIFICATION Spec
CONSTANTS
  Files <- MCFiles
  Cost <- MCCost
  MaxTokens = 5
  Merges = {TRUE, FALSE}
  MaxLines = 2
  TopK = 3
  Budget = 15
  HeaderCost = 1
  Separator = 1
  Placeholder = 1
INVARIANTS GoldRetrievable
CHECK_DEADLOCK FALSE
