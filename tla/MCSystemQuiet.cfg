SPECIFICATION Spec
CONSTANTS
  f = f
  c1 = c1
  c2 = c2
  c3 = c3
  k1 = k1
  k2 = k2
  k3 = k3
  e1 = e1
  e2 = e2
  Attempts = {1, 2, 3}
  Operations = {"swap", "clobber", "huge"}
  Paths = {f}
  Contents = {c1, c2, c3}
  Params <- MCParams
  Oversized = {"huge"}
  ApprovalIds = {k1, k2}
  Editable = {}
  Engines = {e1}
SYMMETRY ApprovalSymmetry
INVARIANTS
  EffectOncePerOperation
PROPERTIES
  ImplementsOperations
