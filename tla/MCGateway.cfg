\* One process, restarted once, three requests.
SPECIFICATION Spec
CONSTANTS
  Requests = {q1, q2, q3}
  NoRequest = NoRequest
  Lines = {"a", "b", "c", "d"}
  Users <- SomeUsers
  Convs <- SomeConvs
  Instances = {i1}
  Backends = {"memory", "file"}
  QueryTimeout = 1
  MaxTime = 1
  MaxExits = 1
VIEW View
SYMMETRY Symmetry
INVARIANTS
  TypeOK
  HoldersHoldTheMutex
  LikeUsersAreIsolated
PROPERTIES
  SessionsOnlyGrow
  OkMeansSaved
  ImplementsSessionService
CHECK_DEADLOCK FALSE
