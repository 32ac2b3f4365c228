CONSTANTS
  Request = {r1, r2, r3}
  None = None
  MaxPolicy = 1
  MaxLoss = 0
SPECIFICATION Spec
SYMMETRY Symmetry
INVARIANT
  RetiredHoldsNothing
