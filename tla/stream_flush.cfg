SPECIFICATION LiveSpec
CONSTANTS
  Writers = {w1}
  N = 4
  Sizes <- MCSizes
  MaxBytes = 9
  MaxOpens = 0
  QueueSize = 2
  Styles = {"mixed"}
PROPERTY FlushMeansSent
CHECK_DEADLOCK FALSE
