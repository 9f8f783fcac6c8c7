SPECIFICATION Spec
CONSTANTS
  Epochs = 3
  NotCaptured = NotCaptured
INVARIANTS RtcGivenBack AllReleased PollsAreOpen QuietWhileBorrowed
PROPERTIES Returns
