SPECIFICATION LiveSpec
CONSTANTS
  Calls = {"a", "b", "big", "stop"}
  Shutdowns = {"stop"}
  Oversized = {"big"}
  Suspended = {}
  Mortal = {"a", "b", "big", "stop"}
  Killed = TRUE
CHECK_DEADLOCK FALSE
INVARIANTS
  TypeOK
PROPERTIES
  ImplementsCalls
  NothingAfterShutdown
  CallsEnd
  ListensAgain
