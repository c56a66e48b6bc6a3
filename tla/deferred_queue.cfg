SPECIFICATION FairSpec
CONSTANTS
  w1 = w1
  w2 = w2
  stop = stop
  prompt = prompt
  Writer <- Writers
  Settler = {prompt}
  Hurried = {prompt}
  BatchRows = 2
  MaxRows = 3
  MaxDrains = 3
  MaxReindexes = 1
INVARIANTS
  TypeOK
  SoleDrain
  ReservationsAreLive
PROPERTIES
  InOrder
  SettleObservesQueue
  RowsLeave
