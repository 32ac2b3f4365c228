CONSTANTS
  Turn = {t1, t2}
  Process = {p1, p2}
  Loader = {l1, l2}
  MaxEdit = 1
  MaxClear = 1
  MaxRow = 3
SPECIFICATION SeedSpec
SYMMETRY Symmetry
INVARIANTS
  TypeOK
  CopyIsItsRow
  ClearTakesEffect
  LoadedOnce
  LoadNeedsNoClear
