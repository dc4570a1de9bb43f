SPECIFICATION TransferSpec
CONSTANTS
  U32Max = 3
  SlotUnits = 3
  Images <- AllReleases
  NoMeta = NoMeta
  Erased = Erased
  Garbage = Garbage
  FlashFails = TRUE
  Sectors <- WholeSectors
  NoCommit = NoCommit
  Seqs <- MCSeqs
  NoSeq = NoSeq
  NoSess = NoSess
  NoSlot = NoSlot
  None = None
  SeqMod = 4
  MAX_RETRIES = 3
  EagerTimeouts = FALSE
  MaxLosses = 0
  MaxInFlight = 4
  PicksActive = FALSE
  OldImages <- OldContents
INVARIANTS
  DuplicateMeansMissedAck
