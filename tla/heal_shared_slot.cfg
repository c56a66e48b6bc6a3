SPECIFICATION FairSpec
CONSTANTS
  daemon = daemon
  cli = cli
  d1 = d1
  d2 = d2
  c1 = c1
  sd = sd
  sc = sc
  None = None
  Proc <- Daemon
  Slot <- OneSlot
  Actor <- TwoTasks
  ProcOf <- OneProcOf
  SlotOf <- SharedSlotOf
  Trusting = {daemon}
  Crashing = {daemon}
  Jobs = {"open", "mutate"}
  CheckInterval = 0
  MaxTime = 0
  MaxFile = 2
  MaxOpens = 2
PROPERTIES
  ClosesOnlyTheDamaged
  OperationsReturn
  CorruptionReleasesSlot
