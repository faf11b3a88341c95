CONSTANTS
  Keys = {k1}
  Accounts = {a1, a2}
  Requests = {r1, r2}
  NoAccount = NoAccount
  TTL = 1
  MaxDelay = 1
SPECIFICATION FairSessionSpec
PROPERTIES
  StickinessLostOnlyBy
  IdleSessionsForgotten
