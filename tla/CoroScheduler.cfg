\* Two workers and two submitters, three submissions, and a shutdown at any time.
CONSTANTS
  Main = main
  Workers = {w1, w2}
  Submitters = {s1, s2}
  Handles = {h1, h2, h3}
  NoHandle = NoHandle
  MayStop = TRUE
SPECIFICATION FairSpec
INVARIANTS
  SchedulerInv
PROPERTIES
  AwakeWorkerDrains
  ShutdownReaches
  ImplementsExecutor
\* After the shutdown the program has ended.
CHECK_DEADLOCK FALSE
