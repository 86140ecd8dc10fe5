SPECIFICATION FairSpec
CONSTANTS
  Events = {"listening", "accepted", "closed"}
  MaxEvents = 3
  Risky = {}
CHECK_DEADLOCK FALSE
INVARIANTS
  TypeOK
  EventsInOrder
PROPERTIES
  EventsReachHandler
  EndsWithContext
