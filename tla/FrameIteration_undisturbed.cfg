SPECIFICATION Spec
CONSTANTS
  MaxFrames = 4
  MaxVisits = 6
  Disturbs = {}
CHECK_DEADLOCK FALSE
INVARIANTS
  WalkInOrder
