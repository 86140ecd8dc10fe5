SPECIFICATION FairSpec
CONSTANTS
  Threads = {t1, t2}
  Main = t1
  GC = gc
  Pipes = {p1, p2}
  Risky = {"use_what_was_destroyed"}
CHECK_DEADLOCK FALSE
INVARIANTS
  DestroyedOnce
PROPERTIES
  ForgottenBeaconDestroyed
