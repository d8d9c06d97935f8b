CONSTANTS
  t1 = t1
  t2 = t2
  t3 = t3
  s1 = s1
  c1 = c1
  c2 = c2
  L1 = L1
  L2 = L2
  L3 = L3
  NoTask = NoTask
  NoLabel = NoLabel
  Semaphores = {s1}
  Tasks = {t1, t2, t3}
  Clients = {c1}
  Batch <- Reversed
  NThreads = 2
  WorkersPerThread = 1
  Label <- Labelled
  Preferred <- Wishes
  NotOn <- Exclusions
  WaitOn <- NoSemaphores
  Signals <- NoSemaphores
  Pred <- T3ContinuesT1
  Pends <- T2Pends
  MayPanic = {t1}
  MayCancel = {t2}
  Watched = {}
SPECIFICATION FairSpec
INVARIANTS TypeOK Capacity Placement ResultsAreSettled PanicsPropagate
PROPERTIES AnnouncedIsFinal EveryTaskFinishes
