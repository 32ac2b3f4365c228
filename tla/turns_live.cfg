CONSTANTS
  Request = {r1, r2}
  Worker = {w1, w2}
  None = None
  RegenCounter = 2
  MaxLoss = 1
  MaxMishap = 2
SPECIFICATION FairSpec
PROPERTY
  EveryRequestEnds
