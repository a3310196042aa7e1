\* What session_sync.go says the callback is for, against a reload.
SPECIFICATION TuiSpec
CONSTANTS
  MaxRuns = 1
  Cap = 1
  Agents = {a1}
  Outputs <- One
  MaxCalls = 0
  Forms <- Whole
  Writers = {1}
  MaxNotes = 1
  Convs = {c1, c2}
  NoConv = NoConv
  Faults = {}
  Reloads = TRUE
  MaxContext = 2
  MaxBoots = 1
PROPERTY
  SessionIsKept
CHECK_DEADLOCK FALSE
