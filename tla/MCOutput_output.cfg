SPECIFICATION FairSpec
CONSTANTS
  Size = 4
  Chars = {"a", "b"}
  CR = CR
  LF = LF
  Blank = Blank
INVARIANTS
  OutputTypeOK
PROPERTIES
  ImplementsByteQueue
  PendingIsSent
