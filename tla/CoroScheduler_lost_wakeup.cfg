\* A submission in the gap between try_receive() and wait().
CONSTANTS
  Main = main
  Workers = {w1, w2}
  Submitters = {s1}
  Handles = {h1, h2}
  NoHandle = NoHandle
  MayStop = FALSE
SPECIFICATION FairSpec
PROPERTY QueuedIsResumed
