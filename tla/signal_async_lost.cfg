CONSTANTS
  b1 = b1
  b2 = b2
  f1 = f1
  f2 = f2
  Blockers = {b1}
  Futures = {f1}
  MaxWakes = 2
SPECIFICATION FairSpec
PROPERTIES EveryFutureResolves
CHECK_DEADLOCK FALSE
