\* A peer and a chip that break the design's assumptions: RTS falls late, the
\* peer overruns the ring, and LD A,I may leave interrupts off.
CONSTANTS
  OutSize = 2
  InSize = 4
  HighWater = 2
  LowWater = 1
  FifoDepth = 2
  PeerSlack = 3
  DelayedRts = TRUE
  LdAIErratum = TRUE
  EntryIff = {TRUE, FALSE}
  MaxOut = 4
  MaxIn = 7
SPECIFICATION Spec
INVARIANTS
  ControlWordIntact
PROPERTY OrderedStreams
