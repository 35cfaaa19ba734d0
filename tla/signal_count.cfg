SPECIFICATION Spec
CONSTANTS
  c = c
  p = p
  obj = obj
  Threads = {c, p}
  Objects = {obj}
  QueueOwners = {p, obj}
  Home <- MCHome
  Signals = {s1}
  Connections <- MCConnections
  Null = Null
  MaxGroups = 1
  MaxNodes = 2
  QueueSize = 4
  Words = 2
  MaxConnects = 3
  MaxEmits = 2
INVARIANT CountIsExact
CHECK_DEADLOCK FALSE
