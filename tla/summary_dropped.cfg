CONSTANTS
  Request = {r1, r2, r3}
  Worker = {w1}
  None = None
  RegenCounter = 1
  MaxLoss = 0
  MaxMishap = 0
  Threshold = 2
SPECIFICATION SummarySpec
SYMMETRY Symmetry
INVARIANT
  DroppedStayOut
