SPECIFICATION Spec
CONSTANTS
  Pages = {p1, p2}
  Jobs = {j1, j2}
  Specs = {s1, custom}
  Custom = custom
  Names = {n1}
  Admins = {a1, a2}
  Compiles = {c1}
  Queries = {q1}
  MaxTries = 2
  MaxRequests = 2
  None = None
SYMMETRY Symmetry
INVARIANTS EmbeddingsTypeOK QueriesMatchVectors
PROPERTY SearchKeepsPages
CHECK_DEADLOCK FALSE
