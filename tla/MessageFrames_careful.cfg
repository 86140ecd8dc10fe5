SPECIFICATION Spec
CONSTANTS
  Threads = {t1}
  MaxFrames = 3
  MaxMessages = 2
  MaxLength = 2
  Nil = nil
  Risky = {}
CHECK_DEADLOCK FALSE
INVARIANTS
  TypeOK
  NoBadAccess
  OneOwner
  NothingLeaks
  ListsMirror
  DestroyedIsGone
