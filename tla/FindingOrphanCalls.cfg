\* What turn.go says of calls without an answer before them, on one agent.
SPECIFICATION Spec
CONSTANTS
  MaxRuns = 1
  Cap = 2
  Agents = {a1}
  Outputs <- Three
  MaxCalls = 1
  Forms <- Streamed
  Writers = {}
  MaxNotes = 1
INVARIANTS
  FinishedCallsAreArchived
