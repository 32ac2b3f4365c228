CONSTANTS
  Request = {r1, r2}
  Worker = {w1}
  None = None
  RegenCounter = 1
  MaxLoss = 0
  MaxMishap = 0
SPECIFICATION RefusalSpec
PROPERTY
  RefusalReleasesEarlier
