SPECIFICATION Spec
CONSTANTS
  Keys = {swap, invoice}
  StoredKeys = {swap}
  Values = {v1, v2}
  absent = absent
  Threads = {loop, callbacks}
  idle = idle
  FirstStart = TRUE
  LooseObjects = FALSE
  MaxPending = 2
  MaxPatches = 3
  MaxCrashes = 1
INVARIANTS
  TypeOK
  
  PendingIsDifference
