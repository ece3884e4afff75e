SPECIFICATION TwoSpec
CONSTANTS
  f = f
  c1 = c1
  c2 = c2
  k1 = k1
  k2 = k2
  k3 = k3
  Attempts = {1}
  Operations = {"write", "other", "read"}
  Paths = {f}
  Contents = {c1, c2}
  Params <- MCParams
  ApprovalIds = {k1, k2, k3}
  Editable = {}
SYMMETRY ApprovalSymmetry
INVARIANTS
  EffectAtMostOnce
