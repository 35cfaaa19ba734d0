SPECIFICATION LiveSpec
CONSTANTS
  Writers = {w1}
  N = 4
  Sizes <- MCSizes
  MaxBytes = 9
  MaxOpens = 1
  QueueSize = 2
  Styles = {"fills", "flushes"}
INVARIANTS
  TypeOK
  WireInOrder
PROPERTIES
  ImplementsChannel
  FlushMeansSent
  WriterReturns
CHECK_DEADLOCK FALSE
