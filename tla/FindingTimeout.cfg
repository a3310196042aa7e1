\* What types.go says of the query timeout, with two requests.
SPECIFICATION Spec
CONSTANTS
  Requests = {q1, q2}
  NoRequest = NoRequest
  Lines = {"a", "b", "c", "d"}
  Users <- OneUser
  Convs <- TwoConvs
  Instances = {i1}
  Backends = {"memory"}
  QueryTimeout = 2
  MaxTime = 4
  MaxExits = 0
PROPERTIES
  TimeoutsAreOfRuns
CHECK_DEADLOCK FALSE
