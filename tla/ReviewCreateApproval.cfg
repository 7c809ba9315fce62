SPECIFICATION Spec
CONSTANTS
  Clients = {c1, c2}
  Pages = {p1, p2}
  Slugs = {s1, s2}
  Drafts = {d1, d2}
  MaxVersion = 3
  MaxRequests = 4
  None = None
SYMMETRY Symmetry
CHECK_DEADLOCK FALSE
PROPERTY CreateDraftsMaterialise
