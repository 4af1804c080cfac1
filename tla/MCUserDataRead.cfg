SPECIFICATION Spec
CONSTANTS
  None = None
  j1 = j1  j2 = j2  e1 = e1  e2 = e2
  p1 = p1  p2 = p2  p3 = p3
  Users = {ann, key}
  ApiKeyUser = key
  Scores = {600, 650}
  Versions = {v1}
  Jobs = {j1, j2}
  Grants = {g1}
  Erasures = {}
  Exports = {x1}
  Posts = {p1, p2, p3}
  Readers = {q1}
  ExportLimit = 1
SYMMETRY Symmetry
CONSTRAINT Focus
CONSTRAINT Apart
INVARIANT ExportMissesOnlyBeyondLimit
INVARIANT TrendIsCurrent
CHECK_DEADLOCK FALSE
