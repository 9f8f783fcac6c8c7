\* CP/M calls while bytes are queued.
CONSTANTS
  OutSize = 2
  InSize = 4
  HighWater = 2
  LowWater = 1
  FifoDepth = 2
  PeerSlack = 1
  DelayedRts = FALSE
  LdAIErratum = FALSE
  EntryIff = {TRUE}
  MaxOut = 2
  MaxIn = 2
SPECIFICATION Spec
INVARIANT BdosQuiet
