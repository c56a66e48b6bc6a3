SPECIFICATION Spec
CONSTANTS
  daemon = daemon
  cli = cli
  d1 = d1
  d2 = d2
  c1 = c1
  sd = sd
  sc = sc
  None = None
  Proc <- TwoProcs
  Slot <- TwoSlots
  Actor <- TwoActors
  ProcOf <- TwoProcOf
  SlotOf <- TwoSlotOf
  Trusting = {daemon}
  Crashing = {daemon, cli}
  Jobs = {"open", "write", "mutate", "memory"}
  CheckInterval = 1
  MaxTime = 0
  MaxFile = 2
  MaxOpens = 2
INVARIANTS
  NoCircularWait
  OneGeneration
  SoleWriter
