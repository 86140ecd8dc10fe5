SPECIFICATION Spec
CONSTANTS
  t1 = t1
  t2 = t2
  req = req
  dealer = dealer
  Threads = {t1, t2}
  Sockets = {req, dealer}
  Owner <- MCOwner
  Type <- MCType
  Written = {"localhost", "a", "b"}
  Spelled <- MCSpelled
  MaxEndpoints = 2
  Risky = {}
CHECK_DEADLOCK FALSE
INVARIANTS
  TypeOK
  OneThreadInside
  UnaliasedMirror
  UnaliasedState
  BoundIsKnown
