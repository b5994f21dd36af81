\* Safety and refinement: two writers, two searches, two files.
SPECIFICATION Spec
CONSTANTS
  c1 = c1
  c2 = c2
  NoVec = NoVec
  NoCache = NoCache
  NoResult = NoResult
  Free = Free
  Path = {p1, p2}
  Content = {c1, c2}
  File <- MCFile
  Writer = {w1, w2}
  Reader = {r1, r2}
  MaxCommits = 3
INVARIANTS TypeOK RowsAligned CacheCoherent
PROPERTIES FreshReads ImplementsService
CHECK_DEADLOCK FALSE
SYMMETRY MCSymmetry
