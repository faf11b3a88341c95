CONSTANTS
  Accounts = {a1, a2}
  Requests = {r1, r2}
  NoAccount = NoAccount
  Deletable = {a2}
  MaxInFlight = 1
  BreakerThreshold = 2
  BreakerCooldown = 1
  BreakerCooldownMax = 2
  SoftCooldown = 1
  DayLength = 2
  FourAM = 1
SPECIFICATION FairPoolSpec
INVARIANTS
  TypeOK
  LeaseExact
  LeasesWithinLimit
  NoPhantomLease
  NilOnlyWhenNoneUsable
PROPERTIES
  PickSound
  BreakerNeverShortened
  HardCooldownLiftedOnlyBy
  HardCooldownEnds
