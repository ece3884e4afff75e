SPECIFICATION McpSpec
CONSTANTS
  f = f
  c1 = c1
  c2 = c2
  k1 = k1
  k2 = k2
  t1 = t1
  t2 = t2
  Attempts = {1, 2}
  Operations = {"create"}
  Paths = {f}
  Contents = {c1, c2}
  Params <- MCParams
  Oversized = {}
  ApprovalIds = {k1, k2}
  Editable = {f}
  Engines = {t1, t2}
SYMMETRY McpSymmetry
PROPERTIES
  AdvisesRecovery
