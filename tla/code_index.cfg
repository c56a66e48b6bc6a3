SPECIFICATION Spec
CONSTANTS
  one = one
  both = both
  large = large
  x = x
  y = y
  File = {f, g}
  Text = {one, both, large}
  Skipped = {large}
  Symbol = {x, y}
  Symbols <- SymbolsIn
  Absent = Absent
  MaxEdits = 1
  MaxFaults = 2
SYMMETRY Alike
INVARIANTS
  VectorsAnswer
  RowsAreWhole
PROPERTIES
  CatchesUp
