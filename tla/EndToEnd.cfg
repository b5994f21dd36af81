\* A smoke evaluation and a wider one over the same directory.
SPECIFICATION FairSpec
CONSTANTS
  Budgets = {2}
  Tasks = {"t1", "t2"}
  Plans <- MCPlans
  Tokens = {0, 1, 2}
  Tolerance = 50
  MaxRepeats = 1
  MaxFaults = 2
INVARIANTS TypeOK ReportFromFiles LearnsFromFinishedRuns
PROPERTIES CompletedRunsKept EvaluationCompletes
