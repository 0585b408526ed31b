CONSTANTS
  p = p
  q = q
  f = f
  g = g
  Coros = {p, q}
  Passive = {p}
  Child <- MCChild
  Futures = {f, g}
  Jobs <- MCJobs
  Clients <- MCAwaits
  NoJob = NoJob
  None = None
  CoroWorker = CoroWorker
  PoolSize = 2
  MaxTime = 1
  MaxAwaits = 2
  Cancellers = {k}
  Awaiters = {}
  IoCoros = {c1, c2}
  WithTimeout = {c1}
  MaxIo = 2
  WorkerRing = ring
  FallbackRing = fallback
  IoWorker = IoWorker
  Slots = 2
  MaxFailures = 1
  Nop = Nop
  NoThread = NoThread
SPECIFICATION Spec
INVARIANTS
  PoolOutcomes
  SuspendedIsServed
  IoOutcomes
  StaleAccesses
  BatchesCover
PROPERTIES
  EveryJobEnds
  EveryIoEnds
  ShutdownsEnd
CHECK_DEADLOCK FALSE
