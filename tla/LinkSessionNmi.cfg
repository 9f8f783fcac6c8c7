SPECIFICATION Spec
CONSTANTS
  Epochs = 2
  NotCaptured = NotCaptured
INVARIANT QuietForLifetime
