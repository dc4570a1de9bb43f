SPECIFICATION FairSpec
CONSTANTS
  Streams <- MCStreams
  Instances <- MCInstances
  Clients <- MCClients
  TxStream <- MCTx
  RxStream <- MCRx
  Handles = {h1, h2}
  None = None
  MaxCount = 3
  MaxLen = 2
  Uart = "USART2"
  UartStream = "1_5"
  BufSize = 3
  Numbers = 5
  WrapsInside = FALSE
INVARIANTS
  DriversTypeOK
  StreamsInPairs
  TransmitterIsDone
  IdleLeavesNothing
PROPERTIES
  HandedInOrderOnce
  TransferEnds
