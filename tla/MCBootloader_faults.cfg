SPECIFICATION Spec
CONSTANTS
  U32Max = 3
  SlotUnits = 1
  Images <- TwoReleasesOneBad
  NoMeta = NoMeta
  Erased = Erased
  Garbage = Garbage
  FlashFails = TRUE
  Sectors <- MCSectors
  NoCommit = NoCommit
  Seqs = {0, 1}
  NoSeq = NoSeq
  NoSess = NoSess
  NoSlot = NoSlot
  None = None
  CutAt <- CutAnywhere
  ReusesVersions = TRUE
  HostSends <- MCHost
  MaxReceived = 2
  Provisioned <- NoSlots
INVARIANTS
  TypeOK
  RunningDominates
  FreshImageFirst
PROPERTIES
  OldImageSurvives
