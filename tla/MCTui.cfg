SPECIFICATION TuiSpec
CONSTANTS
  MaxRuns = 2
  Cap = 1
  Agents = {a1}
  Outputs <- OneThenNone
  MaxCalls = 2
  Forms <- Whole
  Writers = {1}
  MaxNotes = 1
  Convs = {c1, c2}
  NoConv = NoConv
  Faults = {"archive", "load", "session"}
  Reloads = TRUE
  MaxContext = 2
  MaxBoots = 2
VIEW State
SYMMETRY ConvSymmetry
INVARIANTS
  TuiTypeOK
  ArchiveIsCurrent
  PromptContinuesTheArchive
  ArchivedRunsStayApart
PROPERTIES
  ArchivesOnlyGrow
  SessionFileOnlyGrows
CHECK_DEADLOCK FALSE
