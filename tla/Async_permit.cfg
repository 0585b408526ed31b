\* Two coroutines without timeouts and two wakers on a semaphore.
CONSTANTS
  c1 = c1
  c2 = c2
  Coros = {c1, c2}
  Timed = {}
  Threads = {t1, t2}
  Wakers = {w1, w2}
  Objects = {"a", "b"}
  Obj = "a"
  First = "a"
  Second = "b"
  Kinds = {"semaphore"}
  Parties = {2, 3}
  Which = {"again"}
  Null = Null
  Moved = Moved
  Capacity = 1
  MaxAwaits = 2
  MaxOps = 1
  MaxCalls = 1
SPECIFICATION Spec
INVARIANT EveryPermitAdmitsOne
\* The program may stop, or wait for what nobody does.
CHECK_DEADLOCK FALSE
