SPECIFICATION LiveSpec
CONSTANTS
  f = f
  c1 = c1
  c2 = c2
  c3 = c3
  k1 = k1
  k2 = k2
  k3 = k3
  e1 = e1
  e2 = e2
  Attempts = {1, 2}
  Operations = {"create", "huge"}
  Paths = {f}
  Contents = {c1, c3}
  Params <- MCParams
  Oversized = {"huge"}
  ApprovalIds = {k1}
  Editable = {}
  Engines = {e1}
  MaxFaults = 0
CHECK_DEADLOCK FALSE
PROPERTIES
  EveryAttemptSettles
