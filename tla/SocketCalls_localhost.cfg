SPECIFICATION Spec
CONSTANTS
  t1 = t1
  t2 = t2
  req = req
  dealer = dealer
  Threads = {t1, t2}
  Sockets = {dealer}
  Owner <- MCOwner
  Type <- MCType
  Written = {"localhost", "a"}
  Spelled <- MCSpelled
  MaxEndpoints = 1
  Risky = {}
CHECK_DEADLOCK FALSE
INVARIANTS
  EndpointsMirror
