CONSTANTS
  Requests = {r1}
  Keepalive = Keepalive
  Polls = {p1, p2}
  Objects = {o1, o2, o3}
  Nil = Nil
  MaxTokens = 3
SPECIFICATION CredSpec
SYMMETRY Symmetry
INVARIANTS
  NeverSpentTwice
PROPERTIES
  DiskDivergesOnlyBy
  DisabledOnlyIfDead
  OneLoginPerSession
