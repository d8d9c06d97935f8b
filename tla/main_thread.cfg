CONSTANTS
  r1 = r1
  r2 = r2
  t1 = t1
  t2 = t2
  t3 = t3
  x1 = x1
  e1 = e1
  NoCall = NoCall
  NoTask = NoTask
  Calls = {r1, r2}
  EndWhenDone = {r1}
  Tasks = {t1, t2, t3}
  InitTasks <- FromInit
  Enders = {e1}
  Elsewhere = {x1}
  Pred <- T3ContinuesX1
  Pends <- T1Pends
  MayPanic = {t2}
  MayCancel = {t1}
SPECIFICATION FairSpec
INVARIANTS TypeOK OneMainThread AcceptedIsHeld InitTasksRun
PROPERTIES EndIsNoticed
