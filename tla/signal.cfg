CONSTANTS
  b1 = b1
  b2 = b2
  f1 = f1
  f2 = f2
  Blockers = {b1, b2}
  Futures = {f1, f2}
  MaxWakes = 3
SPECIFICATION FairSpec
INVARIANTS TypeOK NobodySleepsOnReady OneReturnPerWake ParkedIsRegistered
PROPERTIES ImplementsEvent FuturesResolve
