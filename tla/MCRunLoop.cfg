\* One agent: the interleavings of two runs with cancels and commands; the
\* first is answered whole, the second streamed, and the agent may hang.
SPECIFICATION FairSpec
CONSTANTS
  MaxRuns = 2
  Cap = 2
  Agents = {a1}
  Outputs <- OneEach
  MaxCalls = 1
  Forms <- WholeThenStreamed
  Writers = {1}
  MaxNotes = 1
INVARIANTS
  TypeOK
  PumpDiscipline
  BusyHasAnEnd
  PastRunsOnlySayDone
PROPERTIES
  NothingShownIsLost
  ImplementsMailbox
  CancelledRunEnds
