CONSTANTS
  Accounts = {a1, a2}
  NoAccount = NoAccount
  MaxChanges = 3
  MaxRestarts = 1
SPECIFICATION PersistSpec
SYMMETRY Symmetry
CHECK_DEADLOCK FALSE
INVARIANT LoggedInServes
