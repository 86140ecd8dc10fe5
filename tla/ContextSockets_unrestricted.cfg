SPECIFICATION Spec
CONSTANTS
  Threads = {t1, t2}
  Main = t1
  Creators = {t1}
  GC = gc
  Contexts = {c1}
  Sockets = {s1, s2}
  Nil = nil
  JoinBeforeDestroy = FALSE
  FinalizeAtRest = FALSE
  AsyncInterrupts = TRUE
SYMMETRY Symmetry
INVARIANTS
  ListedSocketsLive
  FlagMeansClosed
