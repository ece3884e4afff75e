SPECIFICATION LiveSpec
CONSTANTS
  Calls = {"a", "b", "big", "stop"}
  Shutdowns = {"stop"}
  Oversized = {}
  Suspended = {"a"}
  Mortal = {}
  Killed = FALSE
CHECK_DEADLOCK FALSE
PROPERTIES
  CallsEnd
