SPECIFICATION TransferSpec
CONSTANTS
  U32Max = 3
  SlotUnits = 3
  Images <- AllReleases
  NoMeta = NoMeta
  Erased = Erased
  Garbage = Garbage
  FlashFails = TRUE
  Sectors <- RealSectors
  NoCommit = NoCommit
  Seqs <- MCSeqs
  NoSeq = NoSeq
  NoSess = NoSess
  NoSlot = NoSlot
  None = None
  SeqMod = 4
  MAX_RETRIES = 3
  EagerTimeouts = TRUE
  MaxLosses = 2
  MaxInFlight = 4
  PicksActive = TRUE
  OldImages <- OldContents
INVARIANTS
  TransferTypeOK
  OkMeansInstalled
  CountedOnce
  AckedIsWritten
