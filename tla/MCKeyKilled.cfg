SPECIFICATION LiveSpec
CONSTANTS
  Processes = {p1, p2, p3}
  Keys = {k1, k2}
  MaxKills = 1
PROPERTIES
  StartsAfterAnyKill
