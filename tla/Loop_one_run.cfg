SPECIFICATION FairSpec
CONSTANTS
  Timers = {t1}
  Pollitems = {i1}
  Loop = loop
  MaxRuns = 1
  Risky = {"rescue_in_on_error"}
CHECK_DEADLOCK FALSE
INVARIANTS
  TypeOK
  NoStaleCallback
  EndsOnRequest
PROPERTIES
  EndsWhenAsked
