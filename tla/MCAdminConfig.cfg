CONSTANTS
  Admins = {p1, p2}
  MainKeys = {main, other}
  Allowlists = {all, some}
  Unset = Unset
  EnvKey = Nil
  Nil = Nil
  Torn = Torn
  MaxIds = 2
  MaxChanges = 4
SYMMETRY MCSymmetry
CHECK_DEADLOCK FALSE
SPECIFICATION ConfSpec
INVARIANTS
  FileMatchesMemory
  GoneKeyRefused
