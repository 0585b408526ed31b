\* A coroutine that shutdown() resumes sleeps again.
CONSTANTS
  a1 = a1
  a2 = a2
  Sleeps = {a1, a2}
  Clients = {a1, a2}
  WithToken = {a1}
  NoSleep = NoSleep
  Prev <- Twice
  Cancellers = {k}
  Awaiters = {}
  Timer = timer
  Main = main
  Worker = worker
  NoThread = NoThread
  MaxTime = 1
  MayStop = TRUE
SPECIFICATION Spec
INVARIANT NobodyLocksTwice
CHECK_DEADLOCK FALSE
