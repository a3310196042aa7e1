SPECIFICATION Spec
CONSTANTS
  MaxTurns = 6
  MaxContext = 4
INVARIANTS
  LoopIsTheGrouping
  ReloadKeepsTheArchive
  GroupedTranscriptComesBack
  HistoryIsTheTail
  HistoryIsWellFormed
CHECK_DEADLOCK FALSE
