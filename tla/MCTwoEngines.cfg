SPECIFICATION Spec
CONSTANTS
  f = f
  c1 = c1
  c2 = c2
  c3 = c3
  k1 = k1
  k2 = k2
  k3 = k3
  e1 = e1
  e2 = e2
  Attempts = {1, 2, 3}
  Operations = {"clobber"}
  Paths = {f}
  Contents = {c3}
  Params <- MCParams
  Oversized = {}
  ApprovalIds = {k1, k2}
  Editable = {f}
  Engines = {e1, e2}
SYMMETRY SystemSymmetry
INVARIANTS
  JournalFirst
  OneLiveAttempt
PROPERTIES
  VerifiedIsNotRedone
