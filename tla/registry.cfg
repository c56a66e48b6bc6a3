SPECIFICATION FairSpec
CHECK_DEADLOCK FALSE
CONSTANTS
  c1 = c1
  c2 = c2
  a = a
  b = b
  Request <- Requests
  Root <- Roots
  MaxActive = 1
  MaxHandles = 3
  MaxEdits = 2
  FirstKinds = {"good"}
  NoHandle = NoHandle
  NoRoot = NoRoot
  Nobody = Nobody
INVARIANTS
  WatchersMatch
  Capacity
  NoEditMissed
  OneStore
PROPERTIES
  LastGoodServed
  EveryRootIsWatched
