\* Answers: every query may hang until its context is done.
SPECIFICATION FairSpec
CONSTANTS
  Requests = {q1, q2, q3}
  NoRequest = NoRequest
  Lines = {"a", "b", "c", "d"}
  Users <- OneUser
  Convs <- OneConv
  Instances = {i1}
  Backends = {"file"}
  QueryTimeout = 1
  MaxTime = 1
  MaxExits = 0
PROPERTIES
  EveryRequestIsAnswered
CHECK_DEADLOCK FALSE
