SPECIFICATION Spec
CONSTANTS
  daemon = daemon
  cli = cli
  d1 = d1
  d2 = d2
  c1 = c1
  sd = sd
  sc = sc
  None = None
  Proc <- TwoProcs
  Slot <- TwoSlots
  Actor <- TwoActors
  ProcOf <- TwoProcOf
  SlotOf <- TwoSlotOf
  Trusting = {daemon}
  Crashing = {daemon, cli}
  Jobs = {"open", "write"}
  CheckInterval = 2
  MaxTime = 3
  MaxFile = 1
  MaxOpens = 2
PROPERTIES
  UnfinishedWriteIsProbed
  TrustIsBounded
