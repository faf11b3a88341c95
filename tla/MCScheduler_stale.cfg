CONSTANTS
  Accounts = {a1}
  Requests = {r1}
  NoAccount = NoAccount
  DayLength = 3
  CheckinHours = {1}
  KeepaliveHours = {1, 2}
  MaxLag = 1
  Unit = 2
  Cost = 1
  Bonus = 2
  MaxBalance = 3
SPECIFICATION SchedSpec
PROPERTY CheckinReconciles
