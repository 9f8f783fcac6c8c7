\* The driver as designed: RTS falls at once and LD A,I tells the truth.
\* 2 + 1 + 1 = InSize: the peer's slack exactly fills the ring.
CONSTANTS
  OutSize = 2
  InSize = 4
  HighWater = 2
  LowWater = 1
  FifoDepth = 2
  PeerSlack = 1
  DelayedRts = FALSE
  LdAIErratum = FALSE
  EntryIff = {TRUE}
  MaxOut = 4
  MaxIn = 8
SPECIFICATION LiveSpec
INVARIANTS
  TypeOK
  NoOverrun
  ControlWordIntact
  RtsLowMeansBacklog
  TxArmed
  InterruptsReturn
PROPERTIES
  OrderedStreams
  TxDelivered
  RtsRecovers
