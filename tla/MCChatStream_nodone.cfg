CONSTANTS
  Ids = {"c1", "c2"}
  NoId = NoId
  Absent = Absent
  Unknown = Unknown
  NotJSON = NotJSON
  Messages <- MCMessages
  Plain <- MCPlain
  Variants <- MCVariants
  Supported = {1, 2}
  HeaderTimeout = 1
  IdleTimeout = 1
  MaxFrames = 1
  MaxMessages = 0
SPECIFICATION StreamSpec
CHECK_DEADLOCK FALSE
INVARIANT DoneAlwaysWritten
