SPECIFICATION FairSpec
CONSTANTS
  SeqMod = 2
  AttemptMod = 4
  MaxRetries = 2
  Resubmits = TRUE
  MaxPayloads = 3
  MaxLosses = 2
  MaxInFlight = 3
  None = None
  Nack = Nack
INVARIANTS
  LinkTypeOK
  AckedIsDelivered
  AttemptsBounded
PROPERTIES
  ImplementsChannel
  AllAcknowledged
