CONSTANTS
  Request = {r1, r2, r3, r4}
  None = None
  MaxPolicy = 2
  MaxLoss = 1
SPECIFICATION Spec
SYMMETRY Symmetry
INVARIANTS
  TypeOK
  TurnKeepsOwner
  LinkMovesWithOwner
  RetiredKeepsNothing
  WithdrawalLostOnlyToRotation
PROPERTY
  WithdrawnStays
