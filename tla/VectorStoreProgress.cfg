\* Liveness: both calls return, whoever holds the mutex.
SPECIFICATION FairSpec
CONSTANTS
  c1 = c1
  c2 = c2
  NoVec = NoVec
  NoCache = NoCache
  NoResult = NoResult
  Free = Free
  Path = {p1}
  Content = {c1, c2}
  File <- MCFileOne
  Writer = {w1, w2}
  Reader = {r1, r2}
  MaxCommits = 3
PROPERTIES RetrieveReturns WriteReturns
CHECK_DEADLOCK FALSE
