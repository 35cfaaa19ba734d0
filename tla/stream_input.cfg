SPECIFICATION LiveSpec
CONSTANTS
  Readers = {r1}
  N = 4
  Sizes = {2}
  Modes = {"bytes", "single", "double"}
  Places = {1}
  MaxBytes = 4
  MaxCalls = 1
  QueueSize = 2
INVARIANTS
  TypeOK
  ReadInOrder
  NoSleepOnData
PROPERTIES
  RingIsQueue
  ReaderWoken
CHECK_DEADLOCK FALSE
