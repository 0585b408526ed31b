\* One parent with two children on two workers: one for the parent that blocks; with
\* the threads' fairness.
CONSTANTS
  main = main
  t1 = t1
  t2 = t2
  t3 = t3
  NoTask = NoTask
  Tasks = {t1, t2, t3}
  Threads = {main}
  Workers = {w1, w2}
  Owner <- Fork
  MaxYields = 2
SPECIFICATION FairSpec
INVARIANTS
  TypeOK
  ResumedByOne
  NoUseAfterDestroy
  AwaitResumeHasResult
  AwaiterHasResumer
PROPERTIES
  NothingAfterPublish
  ImplementsForkJoin
  EveryWaitEnds
