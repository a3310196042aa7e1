\* What the guide says of several instances on a shared disk.
SPECIFICATION Spec
CONSTANTS
  Requests = {q1, q2}
  NoRequest = NoRequest
  Lines = {"a", "b", "c", "d"}
  Users <- OneUser
  Convs <- OneConv
  Instances = {i1, i2}
  Backends = {"file"}
  QueryTimeout = 1
  MaxTime = 1
  MaxExits = 0
PROPERTIES
  SessionsOnlyGrow
CHECK_DEADLOCK FALSE
