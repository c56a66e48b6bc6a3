CHECK_DEADLOCK FALSE
SPECIFICATION Spec
CONSTANTS
  entry = entry
  edge = edge
  p1 = p1
  p2 = p2
  Nobody = Nobody
  Proc = {p1, p2}
  Row <- Rows
  Tables = 2
  TableOf <- Table
  MaxGen = 3
PROPERTY NoOrphanWal
