SPECIFICATION Spec
CONSTANTS
  Threads = {t1, t2}
  SocketThread = t1
  Sockets = {s1}
  IOs = {io1}
  MaxItems = 2
  MaxLength = 3
  MaxBuilds = 2
  Nil = nil
  Risky = {"register_twice"}
CHECK_DEADLOCK FALSE
INVARIANTS
  TypeOK
  NoBadPoll
  PollsetFresh
  ReadablesAsPolled
