SPECIFICATION LiveSpec
CONSTANTS
  Readers = {r1}
  N = 4
  Sizes = {2}
  Modes = {"bytes"}
  Places = {1}
  MaxBytes = 4
  MaxCalls = 1
  QueueSize = 2
PROPERTIES
  ByteReaderWoken
CHECK_DEADLOCK FALSE
