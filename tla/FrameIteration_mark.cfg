SPECIFICATION Spec
CONSTANTS
  MaxFrames = 4
  MaxVisits = 6
  Disturbs = {"mark"}
CHECK_DEADLOCK FALSE
INVARIANT
  WalkInOrder
