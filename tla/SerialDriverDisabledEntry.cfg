\* The transient is entered with maskable interrupts disabled.
CONSTANTS
  OutSize = 2
  InSize = 4
  HighWater = 2
  LowWater = 1
  FifoDepth = 2
  PeerSlack = 1
  DelayedRts = FALSE
  LdAIErratum = FALSE
  EntryIff = {FALSE}
  MaxOut = 2
  MaxIn = 2
SPECIFICATION Spec
INVARIANT NoStrayInterrupt
