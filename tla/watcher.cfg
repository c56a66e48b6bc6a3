CHECK_DEADLOCK FALSE
SPECIFICATION FairSpec
CONSTANTS
  page = page
  both = both
  entry = entry
  ignore = ignore
  Root = Root
  Doc <- Docs
  Code <- Sources
  Memory <- Entries
  Policy <- Ignores
  Capacity = 1
  InjectCapacity = 1
  MaxPending = 1
  MaxEvents = 3
  Noise <- Builds
  build = build
INVARIANTS
  TypeOK
  NothingDropsOut
PROPERTIES
  KeepsPromise
  DocsCatchUp
