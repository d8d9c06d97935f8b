CONSTANTS
  f1 = f1
  NoTask = NoTask
  Fences = {f1}
  MaxTasks = 3
  MaxCopies = 2
  MaxLinks = 2
  MaxFallible = 1
  Indices = {0, 1, 2}
SPECIFICATION FairSpec
INVARIANTS TypeOK NoDanglingCopies BakedInOrder ChainsAreBarriers
PROPERTIES ResponseControlsItsChain EverythingFinishes
