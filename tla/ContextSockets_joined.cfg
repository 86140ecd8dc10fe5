SPECIFICATION FairSpec
CONSTANTS
  Threads = {t1, t2}
  Main = t1
  Creators = {t1}
  GC = gc
  Contexts = {c1, c2}
  Sockets = {s1, s2}
  Nil = nil
  JoinBeforeDestroy = TRUE
  FinalizeAtRest = TRUE
  AsyncInterrupts = FALSE
INVARIANTS
  TypeOK
  CloseOnce
  NoDangling
  NoOrphan
  DestroyReachesEverySocket
  OneContext
  MapEntryUsable
PROPERTIES
  KeepsRegistry
  CallsReturn
  DroppedSocketClosed
  ExitFinalizesAll
