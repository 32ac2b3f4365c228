CONSTANTS
  Request = {r1, r2, r3}
  Worker = {w1, w2}
  None = None
  RegenCounter = 1
  MaxLoss = 0
  MaxMishap = 2
  Threshold = 2
SPECIFICATION SummarySpec
SYMMETRY Symmetry
INVARIANTS
  TypeOK
  AnsweredOnce
  ToldTruth
  SummaryTypeOK
  ExchangesRemembered
PROPERTY
  SummaryMovesForward
  ImplementsLedger
