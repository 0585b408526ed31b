CONSTANTS
  main = main
  t1 = t1
  t2 = t2
  NoTask = NoTask
  Tasks = {t1, t2}
  Threads = {main}
  Workers = {w1, w2}
  Owner <- Pair
  MaxYields = 1
SPECIFICATION SpecWithMoves
INVARIANT NoUseAfterDestroy
