CONSTANTS
  Request = {r1, r2, r3}
  Worker = {w1, w2}
  None = None
  RegenCounter = 1
  MaxLoss = 1
  MaxMishap = 1
SPECIFICATION Spec
SYMMETRY Symmetry
INVARIANTS
  NoReplyOverPending
  NothingSkipped
  SameGroupOnce
