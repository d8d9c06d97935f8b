CONSTANTS
  f1 = f1
  f2 = f2
  f3 = f3
  Sleepers = {f1}
  Duration <- Durations
SPECIFICATION FairSpec
PROPERTIES EverySleeperWakes
