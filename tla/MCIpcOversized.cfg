SPECIFICATION LiveSpec
CONSTANTS
  Calls = {"a", "b", "big", "stop"}
  Shutdowns = {"stop"}
  Oversized = {"big"}
  Suspended = {}
  Mortal = {}
  Killed = TRUE
CHECK_DEADLOCK FALSE
PROPERTIES
  EndsOnlyWhenAsked
