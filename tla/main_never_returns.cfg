CONSTANTS
  r1 = r1
  r2 = r2
  t1 = t1
  t2 = t2
  t3 = t3
  x1 = x1
  e1 = e1
  NoCall = NoCall
  NoTask = NoTask
  Calls = {r1}
  EndWhenDone = {}
  Tasks = {t1}
  InitTasks <- FromNobody
  Enders = {e1}
  Elsewhere = {}
  Pred <- NoPredecessors
  Pends <- NoPending
  MayPanic = {}
  MayCancel = {}
SPECIFICATION FairSpec
PROPERTIES EndedMainThreadReturns
