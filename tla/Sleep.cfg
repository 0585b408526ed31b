\* A coroutine that sleeps twice, with a token and without, an awaiter of the
\* token, a cancellation and a shutdown at any time.
CONSTANTS
  a1 = a1
  a2 = a2
  Sleeps = {a1, a2}
  Clients = {a1, a2}
  WithToken = {a1}
  NoSleep = NoSleep
  Prev <- Twice
  Cancellers = {k}
  Awaiters = {w}
  Timer = timer
  Main = main
  Worker = worker
  NoThread = NoThread
  MaxTime = 1
  MayStop = TRUE
SPECIFICATION FairSpec
INVARIANTS
  WokenOnce
  SleepInv
  NeverOversleeps
  CancelReachesAll
PROPERTIES
  EverySleepEnds
  JoinReturns
\* After the shutdown the program has ended.
CHECK_DEADLOCK FALSE
