SPECIFICATION Spec
CONSTANTS
  Servers = {s1, s2}
  Blocks = {b1, b2}
  NoBlock = None
  Call = "emit"
  Timeout = "forever"
  MaxEmits = 3
INVARIANT ReturnMeansHandled
CHECK_DEADLOCK FALSE
