SPECIFICATION Spec
CONSTANTS
  U32Max = 3
  SlotUnits = 1
  Images <- ThreeReleases
  NoMeta = NoMeta
  Erased = Erased
  Garbage = Garbage
  FlashFails = FALSE
  Sectors <- MCSectors
  NoCommit = NoCommit
  Seqs = {0, 1}
  NoSeq = NoSeq
  NoSess = NoSess
  NoSlot = NoSlot
  None = None
  CutAt <- CutOutsideCommits
  ReusesVersions = FALSE
  HostSends <- MCHost
  MaxReceived = 2
  Provisioned <- SlotA
INVARIANTS
  CrashLoopBounded
  FreshImageBoots
PROPERTIES
  FloorMonotonic
  CrashLoopEnds
  ImplementsFirmware
