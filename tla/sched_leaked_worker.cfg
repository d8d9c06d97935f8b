CONSTANTS
  t1 = t1
  t2 = t2
  t3 = t3
  s1 = s1
  c1 = c1
  c2 = c2
  L1 = L1
  L2 = L2
  L3 = L3
  NoTask = NoTask
  NoLabel = NoLabel
  Semaphores = {s1}
  Tasks = {t1, t2, t3}
  Clients = {c1}
  Batch <- InOrder
  NThreads = 1
  WorkersPerThread = 1
  Label <- NoLabels
  Preferred <- NoPreference
  NotOn <- NoExclusion
  WaitOn <- NoSemaphores
  Signals <- NoSemaphores
  Pred <- NoPredecessors
  Pends <- NoPending
  MayPanic = {t1}
  MayCancel = {}
  Watched = {}
SPECIFICATION FairSpec
PROPERTIES EveryTaskFinishes
CHECK_DEADLOCK FALSE
