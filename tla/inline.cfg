CONSTANTS
  t1 = t1
  t2 = t2
  t3 = t3
  t4 = t4
  t5 = t5
  t6 = t6
  s1 = s1
  c1 = c1
  c2 = c2
  NoTask = NoTask
  Tasks = {t1, t2, t3, t4, t5, t6}
  Semaphores = {s1}
  Clients = {c1, c2}
  Batch <- Crossed
  Singly = {c2}
  Elsewhere = {t4}
  WaitOn <- T2Waits
  Signals <- T1Signals
  Pred <- Graph
  MayPanic = {t2}
  MayCancel = {t1, t3}
SPECIFICATION FairSpec
INVARIANTS TypeOK DependenciesRespected SubmissionOrder PanicsPropagate JoinsAreShort
PROPERTIES EveryTaskFinishes
