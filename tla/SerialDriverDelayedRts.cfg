\* The SIO holds RTS until its transmitter is idle.
CONSTANTS
  OutSize = 2
  InSize = 4
  HighWater = 2
  LowWater = 1
  FifoDepth = 2
  PeerSlack = 1
  DelayedRts = TRUE
  LdAIErratum = FALSE
  EntryIff = {TRUE}
  MaxOut = 6
  MaxIn = 10
SPECIFICATION Spec
INVARIANT NoOverrun
