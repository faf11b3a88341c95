CONSTANTS
  Accounts = {a1, a2}
  NoAccount = NoAccount
  MaxChanges = 3
  MaxRestarts = 2
SPECIFICATION FairPersistSpec
CHECK_DEADLOCK FALSE
INVARIANTS
  PersistTypeOK
  RestoresLatest
  DeletedNotOnDisk
  CleanMeansSaved
PROPERTY
  EventuallySaved
