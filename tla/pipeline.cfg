CONSTANT
  RegenCounter <- RegenCounters
SPECIFICATION FairSpec
INVARIANTS
  TypeOK
  NoCallOutlivesTurn
  SpendBounded
  OnlyVettedText
  ReviewComplete
  UsageTrue
  NeverToldToDecline
PROPERTY
  RunEnds
  ImplementsRun
