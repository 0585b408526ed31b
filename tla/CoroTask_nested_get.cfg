\* Two levels of nesting on two workers, with the threads' fairness.
CONSTANTS
  main = main
  t1 = t1
  t2 = t2
  t3 = t3
  NoTask = NoTask
  Tasks = {t1, t2, t3}
  Threads = {main}
  Workers = {w1, w2}
  Owner <- Chain
  MaxYields = 0
SPECIFICATION FairSpec
PROPERTIES
  GetReturns
\* get() inside get() occupies both workers for ever.
CHECK_DEADLOCK FALSE
