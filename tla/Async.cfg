\* Two coroutines, up to two blocking threads and two wakers on each primitive.
CONSTANTS
  c1 = c1
  c2 = c2
  Coros = {c1, c2}
  Timed = {c2}
  Threads = {t1, t2}
  Wakers = {w1, w2}
  Objects = {"a", "b"}
  Obj = "a"
  First = "a"
  Second = "b"
  Kinds = {"semaphore", "auto_event", "manual_event", "barrier", "value"}
  Parties = {2, 3}
  Which = {"channel", "again", "threads"}
  Null = Null
  Moved = Moved
  Capacity = 1
  MaxAwaits = 2
  MaxOps = 1
  MaxCalls = 1
SPECIFICATION Spec
INVARIANTS
  ResumedOnce
  WaitersReachable
  ThreadWakeups
  WakeAllReleases
  EachValueOnce
  PermitLedger
\* The program may stop, or wait for what nobody does.
CHECK_DEADLOCK FALSE
