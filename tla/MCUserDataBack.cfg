SPECIFICATION Spec
CONSTANTS
  None = None
  j1 = j1  j2 = j2  e1 = e1  e2 = e2
  p1 = p1  p2 = p2  p3 = p3
  Users = {ann, key}
  ApiKeyUser = key
  Scores = {600}
  Versions = {v1}
  Jobs = {j1}
  Grants = {}
  Erasures = {e1}
  Exports = {}
  Posts = {}
  Readers = {}
  ExportLimit = 1
INVARIANT ErasedStaysErased
CHECK_DEADLOCK FALSE
