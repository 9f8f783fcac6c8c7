\* LD A,I misreports an interrupt accepted while it executes.
CONSTANTS
  OutSize = 2
  InSize = 4
  HighWater = 2
  LowWater = 1
  FifoDepth = 2
  PeerSlack = 1
  DelayedRts = FALSE
  LdAIErratum = TRUE
  EntryIff = {TRUE}
  MaxOut = 4
  MaxIn = 6
SPECIFICATION Spec
INVARIANT InterruptsReturn
