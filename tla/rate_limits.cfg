CONSTANTS
  Request = {r1, r2, r3}
  Session = {s1, s2}
  Ip = {i1}
  None = None
  Interval <- Intervals
  Cap <- Caps
  IpCap = 1
  Quota <- Quotas
  IpQuota = 1
  MaxFault = 1
SPECIFICATION FairSpec
INVARIANTS
  TypeOK
  OneTurnAtATime
  CountsExact
  NothingKept
  AllowanceHolds
PROPERTY
  BurstIsPaced
  ImplementsQueue
  EveryTurnEnds
