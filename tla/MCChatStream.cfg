CONSTANTS
  Ids = {"c1", "c2"}
  NoId = NoId
  Absent = Absent
  Unknown = Unknown
  NotJSON = NotJSON
  Messages <- MCMessages
  Plain <- MCPlain
  Variants <- MCVariants
  Supported = {1, 2}
  HeaderTimeout = 1
  IdleTimeout = 1
  MaxFrames = 3
  MaxMessages = 5
SPECIFICATION FairStreamSpec
CHECK_DEADLOCK FALSE
INVARIANTS
  WireContract
  CallWellEnded
PROPERTIES
  CutOnlyWhenIdle
  ResponseEnds
