CONSTANTS
  Accounts = {a1, a2}
  Requests = {r1, r2}
  Keys = {k1}
  Models = {m1}
  NoAccount = NoAccount
  NoKey = NoKey
  MaxInFlight = 1
  MaxRotate = 3
SPECIFICATION ChatSpec
PROPERTY LimitedSessionStays
