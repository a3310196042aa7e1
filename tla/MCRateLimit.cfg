\* Two admissions in three ticks, readings one tick late at most.
SPECIFICATION Spec
CONSTANTS
  Requests = {q1, q2, q3, q4, q5}
  Addrs = {a1, a2}
  Rpm = 1
  Burst = 1
  Window = 3
  MaxKeys = 1
  EvictEvery = 2
  MaxDelay = 1
  MaxTime = 5
SYMMETRY Symmetry
INVARIANTS
  TypeOK
  WindowsAreLimited
PROPERTIES
  RejectedAtTheLimit
CHECK_DEADLOCK FALSE
