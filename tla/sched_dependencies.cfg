CONSTANTS
  t1 = t1
  t2 = t2
  t3 = t3
  s1 = s1
  c1 = c1
  c2 = c2
  L1 = L1
  L2 = L2
  L3 = L3
  NoTask = NoTask
  NoLabel = NoLabel
  Semaphores = {s1}
  Tasks = {t1, t2, t3}
  Clients = {c1, c2}
  Batch <- TwoClients
  NThreads = 2
  WorkersPerThread = 1
  Label <- NoLabels
  Preferred <- NoPreference
  NotOn <- NoExclusion
  WaitOn <- T2Waits
  Signals <- T1Signals
  Pred <- T3ContinuesT1
  Pends <- T1Pends
  MayPanic = {}
  MayCancel = {}
  Watched = {t2}
SPECIFICATION FairSpec
INVARIANTS DependenciesRespected NoMissedDispatch Conservation ShutdownDrains
PROPERTIES EveryTaskFinishes ImplementsTaskPool
