SPECIFICATION FairTransferSpec
CONSTANTS
  U32Max = 3
  SlotUnits = 3
  Images <- GoodReleases
  NoMeta = NoMeta
  Erased = Erased
  Garbage = Garbage
  FlashFails = FALSE
  Sectors <- WholeSectors
  NoCommit = NoCommit
  Seqs <- MCSeqs
  NoSeq = NoSeq
  NoSess = NoSess
  NoSlot = NoSlot
  None = None
  SeqMod = 4
  MAX_RETRIES = 3
  EagerTimeouts = FALSE
  MaxLosses = 3
  MaxInFlight = 4
  PicksActive = FALSE
  OldImages <- OldContents
PROPERTIES
  TransferCompletes
